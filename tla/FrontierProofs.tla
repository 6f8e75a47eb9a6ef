--------------------------- MODULE FrontierProofs ---------------------------
(***************************************************************************)
(* Proofs about Frontier for all runs, processors, contents of a capture   *)
(* and clock settings, and any number of faults.                           *)
(*                                                                         *)
(* The steps of a processor, its death included, differ in what they write *)
(* but agree in what matters here: ProcessorEffect says it once, and the   *)
(* invariant is carried over that.                                         *)
(*                                                                         *)
(* That later segments leave a sample alone is about the windows: each is  *)
(* within the receipts of its segment, and their keys are their own, so    *)
(* that the sorted windows of more segments go on where those end.         *)
(*                                                                         *)
(* That the windows are sound goes from the raw frames to the sample: the  *)
(* usable books of a dataset are the proper books of the frames and no     *)
(* others; the walk visits their places in order and resumes at the end of *)
(* a window; a delay within the tolerance is shorter than the quantile of  *)
(* the steps; and compatible segments keep the windows of one before those *)
(* of the other.                                                           *)
(***************************************************************************)
EXTENDS Frontier, SequencingProofs, TLAPS

Fates == {"absent", "torn", "whole"}
Normalized == {"build", "rename", "accept", "publish"}
Working == {"normalize"} \cup Normalized
Busy(p) == proc[p].pc \in Working

Files == [Runs -> [Names -> Fates]]
Procs == [Processors -> [pc : {"idle", "claim"} \cup Working, run : Runs \cup {NoRun}]]

\* What each variable holds.
FrontierTypeOK ==
    /\ raw \in [Runs -> {0} \cup DOMAIN Captures]
    /\ base \in [Runs -> {0} \cup Clocks]
    /\ exit \in [Runs -> BOOLEAN]
    /\ file \in Files
    /\ proc \in Procs
    /\ capture \in [pc : {"idle", "summary", "ready"}, run : Runs \cup {NoRun}, combined : BOOLEAN]
    /\ scan \in [pc : {"idle", "scan"}, todo : SUBSET Runs, found : Seq(Runs)]

\* Whoever is not idle has a run, and its raw segment is sealed.
RunInv ==
    /\ capture.pc # "idle" => capture.run \in Runs /\ Sealed(capture.run)
    /\ \A p \in Processors : proc[p].pc # "idle" => proc[p].run \in Runs /\ Sealed(proc[p].run)

\* Nothing is in a directory before its raw segment is sealed, and a sealed one
\* holds a capture.
SealedInv ==
    /\ \A r \in Runs : Sealed(r) => raw[r] \in DOMAIN Captures /\ base[r] \in Clocks
    /\ \A r \in Runs, n \in Names : Exists(r, n) => Sealed(r)

\* A processor at work owns the marker of its run.
MarkerInv ==
    /\ \A p \in Processors : Busy(p) => Exists(proc[p].run, "started")
    /\ \A p, q \in Processors : p # q /\ Busy(p) /\ Busy(q) => proc[p].run # proc[q].run

\* Only a capture that ended well is handed over, and picked.
EndInv ==
    /\ capture.pc = "ready" => exit[capture.run]
    /\ \A p \in Processors : proc[p].pc # "idle" => exit[proc[p].run]
    /\ \A r \in Runs : Exists(r, "ready") => exit[r]

\* Nobody gets past the normalization of a segment that does not normalize, nor
\* publishes one that was not accepted.
Accepted(r) == OutcomeOf(r).acceptable
NormalInv ==
    /\ \A p \in Processors : proc[p].pc \in Normalized => Normal(proc[p].run)
    /\ \A p \in Processors : proc[p].pc = "publish" => Accepted(proc[p].run)
    /\ \A r \in Runs : Exists(r, "evidence") => exit[r] /\ Normal(r) /\ Accepted(r)

\* What the report has found stays loadable until it is written.
FoundInv == \A i \in DOMAIN scan.found : Loadable(scan.found[i])

\* What a capture is about to create is not there yet, and nobody processes its run.
FreshInv ==
    capture.pc # "idle" =>
        /\ ~Exists(capture.run, "ready")
        /\ capture.pc = "summary" => ~Exists(capture.run, "summary")
        /\ \A p \in Processors : proc[p].pc # "idle" => proc[p].run # capture.run

FrontierInv ==
    /\ FrontierTypeOK /\ RunInv /\ SealedInv /\ MarkerInv /\ EndInv /\ NormalInv /\ FoundInv
    /\ FreshInv
-----------------------------------------------------------------------------
\* At the start nothing is there, and nobody is at work.
LEMMA FrontierInit == Init => FrontierInv
<1> SUFFICES ASSUME Init PROVE FrontierInv
  OBVIOUS
<1>1. FrontierTypeOK
  BY DEF Init, FrontierTypeOK, Files, Procs, Fates, NoRun
<1>2. RunInv /\ MarkerInv /\ EndInv /\ NormalInv /\ SealedInv
  BY DEF Init, RunInv, MarkerInv, EndInv, NormalInv, SealedInv, Busy, Working, Normalized, Exists,
         Sealed, Names
<1>3. FoundInv /\ FreshInv
  BY DEF Init, FoundInv, FreshInv
<1>4. QED
  BY <1>1, <1>2, <1>3 DEF FrontierInv
-----------------------------------------------------------------------------
(* What a step does to the files *)

\* A file that is there stays as it is, but for a temporary dataset.
Grows == \A r \in Runs, n \in Names \ {"temporary"} : Exists(r, n) => file'[r][n] = file[r][n]

\* One file is given a fate.
LEMMA OneFile ==
    ASSUME file \in Files, NEW r \in Runs, NEW n \in Names, NEW fate \in Fates,
           file' = [file EXCEPT ![r][n] = fate]
    PROVE  /\ file' \in Files
           /\ \A q \in Runs, m \in Names :
                 file'[q][m] = IF q = r /\ m = n THEN fate ELSE file[q][m]
<1>1. [file[r] EXCEPT ![n] = fate] \in [Names -> Fates]
  BY DEF Files
<1>2. file' = [file EXCEPT ![r] = [file[r] EXCEPT ![n] = fate]]
  BY DEF Files
<1>3. file' \in Files
  BY <1>1, <1>2 DEF Files
<1>4. ASSUME NEW q \in Runs, NEW m \in Names
      PROVE  file'[q][m] = IF q = r /\ m = n THEN fate ELSE file[q][m]
  <2>1. CASE q = r
    BY <1>2, <2>1 DEF Files
  <2>2. CASE q # r
    BY <1>2, <2>2 DEF Files
  <2>3. QED
    BY <2>1, <2>2
<1>5. QED
  BY <1>3, <1>4

\* A file that was not there is created, whole or torn.
Added(r, n, fate) ==
    /\ file' \in Files /\ Grows
    /\ \A q \in Runs, m \in Names : file'[q][m] = IF q = r /\ m = n THEN fate ELSE file[q][m]

LEMMA NewFile ==
    ASSUME file \in Files, NEW r \in Runs, NEW n \in Names, NEW fate \in Fates,
           ~Exists(r, n), file' = [file EXCEPT ![r][n] = fate]
    PROVE  Added(r, n, fate)
<1>1. /\ file' \in Files
      /\ \A q \in Runs, m \in Names :
            file'[q][m] = IF q = r /\ m = n THEN fate ELSE file[q][m]
  BY OneFile
<1>2. Grows
  BY <1>1 DEF Grows, Exists
<1>3. QED
  BY <1>1, <1>2 DEF Added
-----------------------------------------------------------------------------
(* The processors *)

\* What every step of a processor does, and its death.
ProcessorEffect(p) ==
    LET r == proc[p].run IN
    /\ proc[p].pc # "idle"
    /\ proc' \in Procs
    /\ \A q \in Processors \ {p} : proc'[q] = proc[q]
    /\ proc'[p].pc # "idle" => proc'[p].run = r
    /\ proc'[p].pc \in Working => /\ file'[r]["started"] # "absent"
                                  /\ proc[p].pc \in Working \/ ~Exists(r, "started")
    /\ proc'[p].pc \in Normalized => Normal(r)
    /\ proc'[p].pc = "publish" => Accepted(r)
    /\ file' \in Files /\ Grows
    /\ \A q \in Runs, m \in Names : q # r => file'[q][m] = file[q][m]
    /\ file'[r]["ready"] = file[r]["ready"]
    /\ file'[r]["evidence"] # file[r]["evidence"] => proc[p].pc = "publish"
    /\ UNCHANGED <<raw, base, exit, capture, scan>>

\* A processor that is done forgets its run.
LEMMA EndPlace ==
    ASSUME proc \in Procs, NEW p \in Processors, EndProcessor(p)
    PROVE  /\ proc' \in Procs
           /\ \A q \in Processors \ {p} : proc'[q] = proc[q]
           /\ proc'[p].pc = "idle"
  BY DEF EndProcessor, Procs, NoRun

\* One that goes on keeps it.
LEMMA NextPlace ==
    ASSUME proc \in Procs, NEW p \in Processors, NEW pc \in Working, Goto(p, pc)
    PROVE  /\ proc' \in Procs
           /\ \A q \in Processors \ {p} : proc'[q] = proc[q]
           /\ proc'[p].pc = pc /\ proc'[p].run = proc[p].run
<1>1. proc' = [proc EXCEPT ![p] = [proc[p] EXCEPT !.pc = pc]]
  BY DEF Goto, Procs
<1>2. /\ [proc[p] EXCEPT !.pc = pc] \in [pc : {"idle", "claim"} \cup Working, run : Runs \cup {NoRun}]
      /\ [proc[p] EXCEPT !.pc = pc].run = proc[p].run
      /\ [proc[p] EXCEPT !.pc = pc].pc = pc
  BY DEF Procs
<1>3. QED
  BY <1>1, <1>2 DEF Procs

\* Nothing is written.
LEMMA NoFile ==
    ASSUME file \in Files, file' = file
    PROVE  file' \in Files /\ Grows
  BY DEF Grows

LEMMA ClaimEffect ==
    ASSUME FrontierTypeOK, RunInv, MarkerInv, NormalInv, NEW p \in Processors, Claim(p)
    PROVE  ProcessorEffect(p)
<1> PICK r : r = proc[p].run
  OBVIOUS
<1>1. /\ proc[p].pc = "claim" /\ r \in Runs /\ file \in Files /\ proc \in Procs
      /\ UNCHANGED <<raw, base, exit, capture, scan>>
  BY DEF Claim, RunInv, FrontierTypeOK
<1>2. CASE Claimable(r)
  <2>1. ~Exists(r, "started") /\ Goto(p, "normalize")
        /\ file' = [file EXCEPT ![r]["started"] = "whole"]
    BY <1>2 DEF Claim, Claimable, Create
  <2>2. /\ file' \in Files /\ Grows
        /\ \A q \in Runs, m \in Names :
              file'[q][m] = IF q = r /\ m = "started" THEN "whole" ELSE file[q][m]
    BY <1>1, <2>1, NewFile DEF Names, Fates, Added
  <2>3. /\ proc' \in Procs
        /\ \A q \in Processors \ {p} : proc'[q] = proc[q]
        /\ proc'[p].pc = "normalize" /\ proc'[p].run = r
    BY <1>1, <2>1, NextPlace DEF Working
  <2>4. QED
    BY <1>1, <2>1, <2>2, <2>3 DEF ProcessorEffect, Names, Normalized
<1>3. CASE ~Claimable(r)
  <2>1. EndProcessor(p) /\ file' = file
    BY <1>3 DEF Claim
  <2>2. QED
    BY <1>1, <2>1, EndPlace, NoFile DEF ProcessorEffect, Working, Normalized
<1>4. QED
  BY <1>2, <1>3

LEMMA NormalizeEffect ==
    ASSUME FrontierTypeOK, RunInv, MarkerInv, NormalInv, NEW p \in Processors, Normalize(p)
    PROVE  ProcessorEffect(p)
<1> PICK r : r = proc[p].run
  OBVIOUS
<1>1. /\ proc[p].pc = "normalize" /\ r \in Runs /\ file \in Files /\ proc \in Procs
      /\ UNCHANGED <<raw, base, exit, capture, scan>> /\ Exists(r, "started")
  BY DEF Normalize, RunInv, FrontierTypeOK, MarkerInv, Busy, Working
<1>2. CASE Exists(r, "normalization")
  <2>1. EndProcessor(p) /\ file' = file
    BY <1>2 DEF Normalize
  <2>2. QED
    BY <1>1, <2>1, EndPlace, NoFile DEF ProcessorEffect, Working, Normalized
<1>3. CASE ~Exists(r, "normalization")
  <2>1. /\ file' = [file EXCEPT ![r]["normalization"] = "whole"]
        /\ \/ Normal(r) /\ Goto(p, "build")
           \/ EndProcessor(p)
    BY <1>3 DEF Normalize, Create
  <2>2. /\ file' \in Files /\ Grows
        /\ \A q \in Runs, m \in Names :
              file'[q][m] = IF q = r /\ m = "normalization" THEN "whole" ELSE file[q][m]
    BY <1>1, <1>3, <2>1, NewFile DEF Names, Fates, Added
  <2>3. CASE Normal(r) /\ Goto(p, "build")
    <3>1. /\ proc' \in Procs
          /\ \A q \in Processors \ {p} : proc'[q] = proc[q]
          /\ proc'[p].pc = "build" /\ proc'[p].run = r
      BY <1>1, <2>3, NextPlace DEF Working, Normalized
    <3>2. QED
      BY <1>1, <2>2, <2>3, <3>1 DEF ProcessorEffect, Names, Working, Exists
  <2>4. CASE EndProcessor(p)
    BY <1>1, <2>2, <2>4, EndPlace DEF ProcessorEffect, Names, Working, Normalized
  <2>5. QED
    BY <2>1, <2>3, <2>4
<1>4. QED
  BY <1>2, <1>3

LEMMA BuildEffect ==
    ASSUME FrontierTypeOK, RunInv, MarkerInv, NormalInv, NEW p \in Processors, Build(p)
    PROVE  ProcessorEffect(p)
<1> PICK r : r = proc[p].run
  OBVIOUS
<1>1. /\ proc[p].pc = "build" /\ r \in Runs /\ file \in Files /\ proc \in Procs
      /\ UNCHANGED <<raw, base, exit, capture, scan>> /\ Exists(r, "started") /\ Normal(r)
  BY DEF Build, RunInv, FrontierTypeOK, MarkerInv, NormalInv, Busy, Working, Normalized
<1>2. \/ /\ ~Exists(r, "temporary") /\ Goto(p, "rename")
         /\ file' = [file EXCEPT ![r]["temporary"] = "whole"]
      \/ EndProcessor(p) /\ file' = file
  BY DEF Build, Create
<1>3. CASE EndProcessor(p) /\ file' = file
  BY <1>1, <1>3, EndPlace, NoFile DEF ProcessorEffect, Working, Normalized
<1>4. CASE /\ ~Exists(r, "temporary") /\ Goto(p, "rename")
           /\ file' = [file EXCEPT ![r]["temporary"] = "whole"]
  <2>1. /\ file' \in Files /\ Grows
        /\ \A q \in Runs, m \in Names :
              file'[q][m] = IF q = r /\ m = "temporary" THEN "whole" ELSE file[q][m]
    BY <1>1, <1>4, NewFile DEF Names, Fates, Added
  <2>2. /\ proc' \in Procs
        /\ \A q \in Processors \ {p} : proc'[q] = proc[q]
        /\ proc'[p].pc = "rename" /\ proc'[p].run = r
    BY <1>1, <1>4, NextPlace DEF Working, Normalized
  <2>3. QED
    BY <1>1, <2>1, <2>2 DEF ProcessorEffect, Names, Working, Normalized, Exists
<1>5. QED
  BY <1>2, <1>3, <1>4

LEMMA RenameEffect ==
    ASSUME FrontierTypeOK, RunInv, MarkerInv, NormalInv, NEW p \in Processors, Rename(p)
    PROVE  ProcessorEffect(p)
<1> PICK r : r = proc[p].run
  OBVIOUS
<1>1. /\ proc[p].pc = "rename" /\ r \in Runs /\ file \in Files /\ proc \in Procs
      /\ UNCHANGED <<raw, base, exit, capture, scan>> /\ Exists(r, "started") /\ Normal(r)
  BY DEF Rename, RunInv, FrontierTypeOK, MarkerInv, NormalInv, Busy, Working, Normalized
<1>2. PICK fate : fate = IF Exists(r, "dataset") THEN file[r]["dataset"] ELSE "whole"
  OBVIOUS
<1>3. /\ file' = [file EXCEPT ![r] = [file[r] EXCEPT !["temporary"] = "absent",
                                                     !["dataset"] = fate]]
      /\ fate \in Fates
  BY <1>1, <1>2 DEF Rename, Files, Names, Fates
<1>4. /\ [file[r] EXCEPT !["temporary"] = "absent", !["dataset"] = fate] \in [Names -> Fates]
      /\ \A m \in Names \ {"temporary", "dataset"} :
            [file[r] EXCEPT !["temporary"] = "absent", !["dataset"] = fate][m] = file[r][m]
      /\ [file[r] EXCEPT !["temporary"] = "absent", !["dataset"] = fate]["dataset"] = fate
  BY <1>1, <1>3 DEF Files, Names, Fates
<1>5. /\ file' \in Files
      /\ \A q \in Runs \ {r} : file'[q] = file[q]
      /\ \A m \in Names \ {"temporary", "dataset"} : file'[r][m] = file[r][m]
      /\ file'[r]["dataset"] = fate
  BY <1>1, <1>3, <1>4 DEF Files
<1>6. Grows
  BY <1>2, <1>5 DEF Grows
<1>7. CASE EndProcessor(p)
  BY <1>1, <1>5, <1>6, <1>7, EndPlace DEF ProcessorEffect, Names, Working, Normalized
<1>8. CASE Goto(p, "accept")
  <2>1. /\ proc' \in Procs
        /\ \A q \in Processors \ {p} : proc'[q] = proc[q]
        /\ proc'[p].pc = "accept" /\ proc'[p].run = r
    BY <1>1, <1>8, NextPlace DEF Working, Normalized
  <2>2. QED
    BY <1>1, <1>5, <1>6, <2>1 DEF ProcessorEffect, Names, Working, Normalized, Exists
<1>9. QED
  BY <1>7, <1>8 DEF Rename

LEMMA AcceptEffect ==
    ASSUME FrontierTypeOK, RunInv, MarkerInv, NormalInv, NEW p \in Processors, Accept(p)
    PROVE  ProcessorEffect(p)
<1> PICK r : r = proc[p].run
  OBVIOUS
<1>1. /\ proc[p].pc = "accept" /\ r \in Runs /\ file \in Files /\ proc \in Procs
      /\ UNCHANGED <<raw, base, exit, capture, scan>> /\ Exists(r, "started") /\ Normal(r)
  BY DEF Accept, RunInv, FrontierTypeOK, MarkerInv, NormalInv, Busy, Working, Normalized
<1>2. \/ /\ ~Exists(r, "audit") /\ Goto(p, "publish") /\ Accepted(r)
         /\ file' = [file EXCEPT ![r]["audit"] = "whole"]
      \/ EndProcessor(p) /\ file' = file
  BY DEF Accept, Create, Accepted
<1>3. CASE EndProcessor(p) /\ file' = file
  BY <1>1, <1>3, EndPlace, NoFile DEF ProcessorEffect, Working, Normalized
<1>4. CASE /\ ~Exists(r, "audit") /\ Goto(p, "publish") /\ Accepted(r)
           /\ file' = [file EXCEPT ![r]["audit"] = "whole"]
  <2>1. /\ file' \in Files /\ Grows
        /\ \A q \in Runs, m \in Names :
              file'[q][m] = IF q = r /\ m = "audit" THEN "whole" ELSE file[q][m]
    BY <1>1, <1>4, NewFile DEF Names, Fates, Added
  <2>2. /\ proc' \in Procs
        /\ \A q \in Processors \ {p} : proc'[q] = proc[q]
        /\ proc'[p].pc = "publish" /\ proc'[p].run = r
    BY <1>1, <1>4, NextPlace DEF Working, Normalized
  <2>3. /\ Normal(r) /\ Accepted(r) /\ proc[p].pc \in Working
        /\ file'[r]["started"] # "absent"
    BY <1>1, <1>4, <2>1 DEF Names, Working, Normalized, Exists
  <2>4. /\ file'[r]["ready"] = file[r]["ready"]
        /\ file'[r]["evidence"] = file[r]["evidence"]
        /\ \A q \in Runs, m \in Names : q # r => file'[q][m] = file[q][m]
    BY <1>1, <2>1 DEF Names
  <2>5. QED
    BY <1>1, <2>1, <2>2, <2>3, <2>4 DEF ProcessorEffect
<1>5. QED
  BY <1>2, <1>3, <1>4

LEMMA PublishEffect ==
    ASSUME FrontierTypeOK, RunInv, MarkerInv, NormalInv, NEW p \in Processors, Publish(p)
    PROVE  ProcessorEffect(p)
<1> PICK r : r = proc[p].run
  OBVIOUS
<1>1. /\ proc[p].pc = "publish" /\ r \in Runs /\ file \in Files /\ proc \in Procs
      /\ UNCHANGED <<raw, base, exit, capture, scan>> /\ EndProcessor(p)
  BY DEF Publish, RunInv, FrontierTypeOK
<1>2. CASE Exists(r, "evidence")
  <2>1. file' = file
    BY <1>2 DEF Publish
  <2>2. QED
    BY <1>1, <2>1, EndPlace, NoFile DEF ProcessorEffect, Working, Normalized
<1>3. CASE ~Exists(r, "evidence")
  <2>1. file' = [file EXCEPT ![r]["evidence"] = "whole"]
    BY <1>3 DEF Publish, Create
  <2>2. /\ file' \in Files /\ Grows
        /\ \A q \in Runs, m \in Names :
              file'[q][m] = IF q = r /\ m = "evidence" THEN "whole" ELSE file[q][m]
    BY <1>1, <1>3, <2>1, NewFile DEF Names, Fates, Added
  <2>3. QED
    BY <1>1, <2>2, EndPlace DEF ProcessorEffect, Names, Working, Normalized
<1>4. QED
  BY <1>2, <1>3

\* A processor that dies leaves at most one torn file, which was not there.
LEMMA KillEffect ==
    ASSUME FrontierTypeOK, RunInv, MarkerInv, NormalInv, NEW p \in Processors,
           NEW torn \in BOOLEAN, KillProcessor(p, torn)
    PROVE  ProcessorEffect(p)
<1> PICK r : r = proc[p].run
  OBVIOUS
<1>1. /\ proc[p].pc # "idle" /\ r \in Runs /\ file \in Files /\ proc \in Procs
      /\ UNCHANGED <<raw, base, exit, capture, scan>> /\ EndProcessor(p)
  BY DEF KillProcessor, RunInv, FrontierTypeOK
<1>2. CASE proc[p].pc = "rename"
  <2>1. PICK fate \in Fates : file' = [file EXCEPT ![r]["temporary"] = fate]
    <3>1. file' = [file EXCEPT ![r]["temporary"] = IF torn THEN file[r]["temporary"] ELSE "absent"]
      BY <1>1, <1>2 DEF KillProcessor, Files, Names
    <3>2. (IF torn THEN file[r]["temporary"] ELSE "absent") \in Fates
      BY <1>1 DEF Files, Names, Fates
    <3>3. QED
      BY <3>1, <3>2
  <2>2. /\ file' \in Files
        /\ \A q \in Runs, m \in Names :
              file'[q][m] = IF q = r /\ m = "temporary" THEN fate ELSE file[q][m]
    <3>1. "temporary" \in Names
      BY DEF Names
    <3>2. QED
      BY ZenonT(30), <1>1, <2>1, <3>1, OneFile
  <2>3. Grows
    BY <2>2 DEF Grows
  <2>4. QED
    BY <1>1, <2>2, <2>3, EndPlace DEF ProcessorEffect, Names, Working, Normalized
<1>3. CASE proc[p].pc # "rename"
  <2>1. PICK name \in Names \ {"ready"} :
           /\ \/ file' = file
              \/ ~Exists(r, name) /\ file' = [file EXCEPT ![r][name] = "torn"]
           /\ name = "evidence" => proc[p].pc = "publish"
    <3>1. Creating[proc[p].pc] \in Names \ {"ready"}
      BY <1>1 DEF Creating, Procs, Working, Normalized, Names
    <3>2. Creating[proc[p].pc] = "evidence" => proc[p].pc = "publish"
      BY <1>1 DEF Creating, Procs, Working, Normalized, Names
    <3>3. \/ file' = file
          \/ /\ ~Exists(r, Creating[proc[p].pc])
             /\ file' = [file EXCEPT ![r][Creating[proc[p].pc]] = "torn"]
      BY <1>3 DEF KillProcessor, Torn
    <3>4. QED
      BY <3>1, <3>2, <3>3
  <2>2. CASE file' = file
    BY <1>1, <2>2, EndPlace, NoFile DEF ProcessorEffect, Working, Normalized
  <2>3. CASE ~Exists(r, name) /\ file' = [file EXCEPT ![r][name] = "torn"]
    <3>1. name \in Names /\ "torn" \in Fates
      BY DEF Fates
    <3>2. Added(r, name, "torn")
      BY <1>1, <2>3, <3>1, NewFile
    <3>3. QED
      BY <1>1, <2>1, <3>2, EndPlace DEF Added, ProcessorEffect, Names, Working, Normalized
  <2>4. QED
    BY <2>1, <2>2, <2>3
<1>4. QED
  BY <1>2, <1>3

\* What a raw segment normalizes to does not change with the files.
LEMMA SameNormal ==
    ASSUME UNCHANGED <<raw, base>>, NEW r
    PROVE  Normal(r)' = Normal(r) /\ Accepted(r)' = Accepted(r)
  BY DEF Normal, Accepted, OutcomeOf

\* What is loadable stays so while files only grow.
LEMMA FoundGrows ==
    ASSUME FrontierTypeOK, FoundInv, Grows, scan' = scan
    PROVE  FoundInv'
<1> SUFFICES ASSUME NEW i \in DOMAIN scan.found PROVE Loadable(scan.found[i])'
  BY DEF FoundInv
<1>1. scan.found[i] \in Runs
  BY DEF FrontierTypeOK
<1>2. Loadable(scan.found[i])
  BY DEF FoundInv
<1>3. QED
  BY <1>1, <1>2 DEF Grows, Loadable, Bound, Whole, Exists, Names

LEMMA ProcessorKeeps ==
    ASSUME FrontierInv, NEW p \in Processors, ProcessorEffect(p)
    PROVE  FrontierInv'
<1> USE DEF FrontierInv
<1> PICK r : r = proc[p].run
  OBVIOUS
<1>1. /\ proc[p].pc # "idle" /\ proc' \in Procs /\ file' \in Files /\ Grows
      /\ \A q \in Processors \ {p} : proc'[q] = proc[q]
      /\ proc'[p].pc # "idle" => proc'[p].run = r
      /\ UNCHANGED <<raw, base, exit, capture, scan>>
  BY DEF ProcessorEffect
<1>2. /\ \A q \in Runs, m \in Names : q # r => file'[q][m] = file[q][m]
      /\ file'[r]["ready"] = file[r]["ready"]
      /\ file'[r]["evidence"] # file[r]["evidence"] => proc[p].pc = "publish"
  BY DEF ProcessorEffect
<1>3. r \in Runs /\ Sealed(r) /\ exit[r]
  BY <1>1 DEF RunInv, EndInv
<1>4. FrontierTypeOK'
  BY <1>1 DEF FrontierTypeOK
<1>5. RunInv'
  BY <1>1 DEF RunInv, Sealed
<1>6. SealedInv'
  BY <1>1, <1>2, <1>3 DEF SealedInv, Sealed, Exists
<1>7. MarkerInv'
  <2>1. /\ proc'[p].pc \in Working => /\ file'[r]["started"] # "absent"
                                      /\ Busy(p) \/ ~Exists(r, "started")
    BY DEF ProcessorEffect, Busy
  <2>2. ASSUME NEW q \in Processors, Busy(q) PROVE file'[proc[q].run]["started"] # "absent"
    <3>1. proc[q].run \in Runs /\ Exists(proc[q].run, "started")
      BY <2>2 DEF MarkerInv, RunInv, Busy, Working, Normalized
    <3>2. "started" \in Names \ {"temporary"}
      BY DEF Names
    <3>3. QED
      BY <1>1, <3>1, <3>2 DEF Grows, Exists
  <2>3. ASSUME NEW q \in Processors, Busy(q)' PROVE Exists(proc[q].run, "started")'
    <3>1. CASE q = p
      BY <1>1, <2>1, <2>3, <3>1 DEF Busy, Exists, Working, Normalized
    <3>2. CASE q # p
      BY <1>1, <2>2, <2>3, <3>2 DEF Busy, Exists
    <3>3. QED
      BY <3>1, <3>2
  <2>4. ASSUME NEW q \in Processors \ {p}, Busy(p)', Busy(q)'
        PROVE  proc'[p].run # proc'[q].run
    <3>1. proc'[p].run = r /\ Busy(q) /\ proc'[q] = proc[q]
      BY <1>1, <2>4 DEF Busy, Working, Normalized
    <3>2. CASE Busy(p)
      BY <3>1, <3>2 DEF MarkerInv
    <3>3. CASE ~Exists(r, "started")
      BY <3>1, <3>3 DEF MarkerInv
    <3>4. QED
      BY <2>1, <2>4, <3>2, <3>3 DEF Busy
  <2>5. \A a, b \in Processors : a # b /\ Busy(a)' /\ Busy(b)' => proc'[a].run # proc'[b].run
    <3>1. \A a, b \in Processors \ {p} :
             a # b /\ Busy(a)' /\ Busy(b)' => proc'[a].run # proc'[b].run
      BY <1>1 DEF MarkerInv, Busy
    <3>2. QED
      BY <2>4, <3>1
  <2>6. QED
    BY <2>3, <2>5 DEF MarkerInv
<1>8. EndInv'
  <2>1. \A q \in Runs : file'[q]["ready"] = file[q]["ready"]
    BY <1>2 DEF Names
  <2>2. QED
    BY <1>1, <1>3, <2>1 DEF EndInv, Exists
<1>9. NormalInv'
  <2>1. \A q : Normal(q)' = Normal(q) /\ Accepted(q)' = Accepted(q)
    BY <1>1, SameNormal
  <2>2. proc'[p].pc \in Normalized => Normal(r)
    BY DEF ProcessorEffect
  <2>3. \A q \in Processors : proc'[q].pc \in Normalized => Normal(proc'[q].run)
    BY <1>1, <2>2 DEF NormalInv, Normalized
  <2>6. \A q \in Processors : proc'[q].pc = "publish" => Accepted(proc'[q].run)
    <3>1. proc'[p].pc = "publish" => Accepted(r)
      BY DEF ProcessorEffect
    <3>2. QED
      BY <1>1, <3>1 DEF NormalInv
  <2>4. ASSUME NEW q \in Runs, Exists(q, "evidence")'
        PROVE  exit[q] /\ Normal(q) /\ Accepted(q)
    <3>1. CASE Exists(q, "evidence")
      BY <3>1 DEF NormalInv
    <3>2. CASE ~Exists(q, "evidence")
      <4>1. q = r /\ proc[p].pc = "publish"
        BY <1>2, <2>4, <3>2 DEF Exists, Names
      <4>2. QED
        BY <1>3, <4>1 DEF NormalInv, Normalized
    <3>3. QED
      BY <3>1, <3>2
  <2>5. QED
    BY <1>1, <2>1, <2>3, <2>4, <2>6 DEF NormalInv
<1>10. FoundInv'
  BY <1>1, FoundGrows
<1>11. FreshInv'
  <2>1. capture.pc # "idle" => capture.run \in Runs \ {r}
    BY <1>1 DEF RunInv, FreshInv
  <2>2. QED
    BY <1>1, <1>2, <2>1 DEF FreshInv, Exists, Names
<1>12. QED
  BY <1>4, <1>5, <1>6, <1>7, <1>8, <1>9, <1>10, <1>11

\* A processor takes up a run: it does nothing to the files yet.
LEMMA TakeUp ==
    ASSUME FrontierInv, NEW p \in Processors, proc[p].pc = "idle",
           NEW r \in Runs, Sealed(r), exit[r],
           proc' = [proc EXCEPT ![p] = [pc |-> "claim", run |-> r]]
    PROVE  /\ proc' \in Procs
           /\ proc'[p] = [pc |-> "claim", run |-> r]
           /\ \A q \in Processors \ {p} : proc'[q] = proc[q]
  BY DEF FrontierInv, FrontierTypeOK, Procs

LEMMA PickNextKeeps ==
    ASSUME FrontierInv, NEW p \in Processors, PickNext(p)
    PROVE  FrontierInv'
<1> USE DEF FrontierInv
<1>1. PICK r \in Pending : proc' = [proc EXCEPT ![p] = [pc |-> "claim", run |-> r]]
  BY DEF PickNext
<1>2. r \in Runs /\ Sealed(r) /\ exit[r] /\ Exists(r, "ready")
  BY <1>1 DEF Pending, SealedInv, EndInv, Names
<1>3. /\ proc' \in Procs
      /\ proc'[p] = [pc |-> "claim", run |-> r]
      /\ \A q \in Processors \ {p} : proc'[q] = proc[q]
      /\ UNCHANGED <<raw, base, exit, file, capture, scan>>
  BY <1>1, <1>2, TakeUp DEF PickNext
<1>4. FrontierTypeOK' /\ RunInv' /\ SealedInv' /\ EndInv'
  BY <1>2, <1>3 DEF FrontierTypeOK, RunInv, SealedInv, EndInv, Sealed, Exists
<1>5. MarkerInv'
  BY <1>3 DEF MarkerInv, Busy, Working, Normalized, Exists
<1>6. NormalInv'
  <2>1. \A q : Normal(q)' = Normal(q) /\ Accepted(q)' = Accepted(q)
    BY <1>3, SameNormal
  <2>2. QED
    BY <1>3, <2>1 DEF NormalInv, Normalized, Exists
<1>7. FoundInv'
  BY <1>3, FoundGrows DEF Grows
<1>8. FreshInv'
  BY <1>2, <1>3 DEF FreshInv, Exists
<1>9. QED
  BY <1>4, <1>5, <1>6, <1>7, <1>8
-----------------------------------------------------------------------------
(* The captures *)

\* A run whose raw segment is new has no files, no processor and no place in a
\* report that has been found.
LEMMA RecordKeeps ==
    ASSUME FrontierInv, NEW r \in Runs, NEW c \in DOMAIN Captures, NEW start,
           NEW ok \in BOOLEAN, NEW combined \in BOOLEAN, Record(r, c, start, ok, combined)
    PROVE  FrontierInv'
<1> USE DEF FrontierInv
<1>1. /\ ~Sealed(r) /\ c # 0 /\ now + start \in Clocks
      /\ capture' = [pc |-> "summary", run |-> r, combined |-> combined]
      /\ UNCHANGED <<file, proc, scan>>
  BY FrontierAssumption DEF Record
<1>2. /\ raw' \in [Runs -> {0} \cup DOMAIN Captures]
      /\ base' \in [Runs -> {0} \cup Clocks]
      /\ exit' \in [Runs -> BOOLEAN]
      /\ raw'[r] = c /\ base'[r] = now + start
      /\ \A q \in Runs \ {r} : raw'[q] = raw[q] /\ base'[q] = base[q] /\ exit'[q] = exit[q]
  BY <1>1 DEF Record, FrontierTypeOK
<1>3. FrontierTypeOK'
  BY <1>1, <1>2 DEF FrontierTypeOK
<1>4. RunInv'
  BY <1>1, <1>2 DEF RunInv, Sealed
<1>5. SealedInv'
  BY <1>1, <1>2 DEF SealedInv, Sealed, Exists
<1>6. MarkerInv' /\ FoundInv'
  BY <1>1 DEF MarkerInv, FoundInv, Busy, Exists, Loadable, Whole
<1>7. \A q \in Runs, n \in Names : Exists(q, n) => q # r
  BY <1>1 DEF SealedInv
<1>8. \A p \in Processors : proc[p].pc # "idle" => proc[p].run \in Runs \ {r}
  BY <1>1 DEF RunInv
<1>9. EndInv'
  BY <1>1, <1>2, <1>7, <1>8 DEF EndInv, Exists, Names
<1>10. NormalInv'
  <2>1. \A q \in Runs \ {r} : Normal(q)' = Normal(q) /\ Accepted(q)' = Accepted(q)
    BY <1>2 DEF Normal, Accepted, OutcomeOf
  <2>2. \A p \in Processors : /\ proc'[p].pc \in Normalized => Normal(proc[p].run)'
                              /\ proc'[p].pc = "publish" => Accepted(proc[p].run)'
    BY <1>1, <1>8, <2>1 DEF NormalInv, Normalized
  <2>3. \A q \in Runs : Exists(q, "evidence")' => exit'[q] /\ Normal(q)' /\ Accepted(q)'
    BY <1>1, <1>2, <1>7, <2>1 DEF NormalInv, Exists, Names
  <2>4. QED
    BY <1>1, <2>2, <2>3 DEF NormalInv
<1>11. FreshInv'
  BY <1>1, <1>7, <1>8 DEF FreshInv, Exists, Names
<1>12. QED
  BY <1>3, <1>4, <1>5, <1>6, <1>9, <1>10, <1>11

\* A file that is new and neither the marker nor the evidence, at a sealed run.
HandedOver(r, n) ==
    /\ file' \in Files /\ Grows
    /\ \A q \in Runs, m \in Names \ {n} : file'[q][m] = file[q][m]
    /\ \A q \in Runs \ {r}, m \in Names : file'[q][m] = file[q][m]
    /\ UNCHANGED <<raw, base, exit, scan>>

\* A capture writes its summary, and says it is ready if it ended well.
LEMMA HandOverKeeps ==
    ASSUME FrontierInv, NEW n \in {"summary", "ready"}, capture.pc # "idle",
           HandedOver(capture.run, n), n = "ready" => exit[capture.run],
           capture' \in [pc : {"idle", "summary", "ready"}, run : Runs \cup {NoRun},
                         combined : BOOLEAN],
           capture'.pc # "idle" => n = "summary" /\ capture'.pc = "ready" /\ capture'.run = capture.run,
           capture'.pc = "ready" => exit[capture.run],
           \/ proc' = proc
           \/ \E p \in Processors :
                 /\ proc[p].pc = "idle" /\ exit[capture.run] /\ capture'.pc = "idle"
                 /\ proc' = [proc EXCEPT ![p] = [pc |-> "claim", run |-> capture.run]]
    PROVE  FrontierInv'
<1> USE DEF FrontierInv
<1> PICK r : r = capture.run
  OBVIOUS
<1>1. r \in Runs /\ Sealed(r) /\ n \in Names
  BY DEF RunInv, Names
<1>2. /\ file' \in Files /\ Grows /\ UNCHANGED <<raw, base, exit, scan>>
      /\ \A q \in Runs : /\ file'[q]["started"] = file[q]["started"]
                         /\ file'[q]["evidence"] = file[q]["evidence"]
                         /\ q # r \/ n # "ready" => file'[q]["ready"] = file[q]["ready"]
      /\ \A q \in Runs \ {r}, m \in Names : file'[q][m] = file[q][m]
  BY DEF HandedOver, Names
<1>3. /\ proc' \in Procs
      /\ \A p \in Processors :
            \/ proc'[p] = proc[p]
            \/ exit[r] /\ proc[p].pc = "idle" /\ proc'[p] = [pc |-> "claim", run |-> r]
  <2>1. CASE proc' = proc
    BY <2>1 DEF FrontierTypeOK
  <2>2. CASE \E p \in Processors :
                /\ proc[p].pc = "idle" /\ exit[r]
                /\ proc' = [proc EXCEPT ![p] = [pc |-> "claim", run |-> r]]
    BY <1>1, <2>2 DEF FrontierTypeOK, Procs
  <2>3. QED
    BY <2>1, <2>2
<1>4. FrontierTypeOK' /\ RunInv'
  BY <1>1, <1>2, <1>3 DEF FrontierTypeOK, RunInv, Sealed
<1>5. SealedInv'
  BY <1>1, <1>2 DEF SealedInv, Sealed, Exists
<1>6. MarkerInv'
  <2>1. \A p \in Processors : Busy(p)' => Busy(p) /\ proc'[p] = proc[p] /\ proc[p].run \in Runs
    BY <1>3 DEF Busy, Working, Normalized, RunInv
  <2>2. QED
    BY <1>2, <2>1 DEF MarkerInv, Exists
<1>7. EndInv'
  BY <1>1, <1>2, <1>3 DEF EndInv, Exists
<1>8. NormalInv'
  <2>1. \A q : Normal(q)' = Normal(q) /\ Accepted(q)' = Accepted(q)
    BY <1>2, SameNormal
  <2>2. QED
    BY <1>2, <1>3, <2>1 DEF NormalInv, Normalized, Exists
<1>9. FoundInv'
  BY <1>2, FoundGrows
<1>10. FreshInv'
  <2>1. CASE capture'.pc = "idle"
    BY <2>1 DEF FreshInv
  <2>2. CASE capture'.pc # "idle"
    BY <1>1, <1>2, <2>2 DEF FreshInv, Exists, FrontierTypeOK
  <2>3. QED
    BY <2>1, <2>2
<1>11. QED
  BY <1>4, <1>5, <1>6, <1>7, <1>8, <1>9, <1>10

\* One new file of a run is a hand-over.
LEMMA NewHandOver ==
    ASSUME file \in Files, NEW r \in Runs, NEW n \in Names, ~Exists(r, n), NEW fate \in Fates,
           file' = [file EXCEPT ![r][n] = fate],
           UNCHANGED <<raw, base, exit, scan>>
    PROVE  HandedOver(r, n)
<1>1. /\ file' \in Files /\ Grows
      /\ \A q \in Runs, m \in Names :
            file'[q][m] = IF q = r /\ m = n THEN fate ELSE file[q][m]
  BY NewFile DEF Added
<1>2. QED
  BY <1>1 DEF HandedOver

LEMMA WriteSummaryKeeps ==
    ASSUME FrontierInv, WriteSummary PROVE FrontierInv'
<1>1. /\ capture.pc = "summary" /\ capture.run \in Runs /\ ~Exists(capture.run, "summary")
      /\ file \in Files /\ proc' = proc /\ UNCHANGED <<raw, base, exit, scan>>
      /\ file' = [file EXCEPT ![capture.run]["summary"] = "whole"]
  BY DEF WriteSummary, Create, FrontierInv, RunInv, FreshInv, FrontierTypeOK
<1>2. HandedOver(capture.run, "summary")
  BY <1>1, NewHandOver DEF Fates, Names
<1>3. /\ capture' \in [pc : {"idle", "summary", "ready"}, run : Runs \cup {NoRun},
                       combined : BOOLEAN]
      /\ capture'.pc # "idle" => /\ capture'.pc = "ready" /\ exit[capture.run]
                                 /\ capture'.run = capture.run
  <2>1. capture \in [pc : {"idle", "summary", "ready"}, run : Runs \cup {NoRun}, combined : BOOLEAN]
    BY DEF FrontierInv, FrontierTypeOK
  <2>2. \/ exit[capture.run] /\ capture' = [capture EXCEPT !.pc = "ready"]
        \/ EndCapture
    BY DEF WriteSummary
  <2>3. CASE exit[capture.run] /\ capture' = [capture EXCEPT !.pc = "ready"]
    BY <2>1, <2>3
  <2>4. CASE EndCapture
    BY <2>4 DEF EndCapture, NoRun
  <2>5. QED
    BY <2>2, <2>3, <2>4
<1>4. QED
  BY <1>1, <1>2, <1>3, HandOverKeeps

LEMMA WriteReadyKeeps ==
    ASSUME FrontierInv, WriteReady PROVE FrontierInv'
<1>1. /\ capture.pc = "ready" /\ capture.run \in Runs /\ ~Exists(capture.run, "ready")
      /\ file \in Files /\ UNCHANGED <<raw, base, exit, scan>> /\ exit[capture.run]
      /\ file' = [file EXCEPT ![capture.run]["ready"] = "whole"]
  BY DEF WriteReady, Create, FrontierInv, RunInv, FreshInv, FrontierTypeOK, EndInv
<1>2. HandedOver(capture.run, "ready")
  BY <1>1, NewHandOver DEF Fates, Names
<1>3. /\ capture' \in [pc : {"idle", "summary", "ready"}, run : Runs \cup {NoRun},
                       combined : BOOLEAN]
      /\ capture'.pc = "idle"
  BY DEF WriteReady, EndCapture, NoRun
<1>4. \/ proc' = proc
      \/ \E p \in Processors :
            /\ proc[p].pc = "idle" /\ exit[capture.run] /\ capture'.pc = "idle"
            /\ proc' = [proc EXCEPT ![p] = [pc |-> "claim", run |-> capture.run]]
  BY <1>1, <1>3 DEF WriteReady
<1>5. QED
  BY <1>1, <1>2, <1>3, <1>4, HandOverKeeps

LEMMA KillCaptureKeeps ==
    ASSUME FrontierInv, NEW torn \in BOOLEAN, KillCapture(torn) PROVE FrontierInv'
<1>1. /\ capture.pc \in {"summary", "ready"} /\ capture.run \in Runs
      /\ ~Exists(capture.run, capture.pc)
      /\ file \in Files /\ proc' = proc /\ UNCHANGED <<raw, base, exit, scan>>
      /\ capture.pc = "ready" => exit[capture.run]
  BY DEF KillCapture, FrontierInv, RunInv, FreshInv, FrontierTypeOK, EndInv
<1>2. \/ file' = file
      \/ file' = [file EXCEPT ![capture.run][capture.pc] = "torn"]
  BY DEF KillCapture, Torn
<1>3. HandedOver(capture.run, capture.pc)
  <2>1. CASE file' = file
    BY <1>1, <2>1 DEF HandedOver, Grows
  <2>2. CASE file' = [file EXCEPT ![capture.run][capture.pc] = "torn"]
    <3>1. capture.pc \in Names /\ "torn" \in Fates
      BY <1>1 DEF Names, Fates
    <3>2. QED
      BY <1>1, <2>2, <3>1, NewHandOver
  <2>3. QED
    BY <1>2, <2>1, <2>2
<1>4. /\ capture' \in [pc : {"idle", "summary", "ready"}, run : Runs \cup {NoRun},
                       combined : BOOLEAN]
      /\ capture'.pc = "idle"
  BY DEF KillCapture, EndCapture, NoRun
<1>5. QED
  BY <1>1, <1>3, <1>4, HandOverKeeps
-----------------------------------------------------------------------------
(* The report, and losses of power *)

ScanType == [pc : {"idle", "scan"}, todo : SUBSET Runs, found : Seq(Runs)]

\* A report writes nothing that the others read.
LEMMA ReportKeeps ==
    ASSUME FrontierInv, UNCHANGED <<raw, base, exit, file, capture, proc>>,
           scan' \in ScanType, FoundInv'
    PROVE  FrontierInv'
<1> USE DEF FrontierInv
<1>1. FrontierTypeOK'
  BY DEF FrontierTypeOK, ScanType
<1>2. RunInv' /\ SealedInv' /\ EndInv' /\ FreshInv'
  BY DEF RunInv, SealedInv, EndInv, FreshInv, Sealed, Exists
<1>3. MarkerInv'
  BY DEF MarkerInv, Busy, Exists
<1>4. NormalInv'
  BY SameNormal DEF NormalInv, Exists
<1>5. QED
  BY <1>1, <1>2, <1>3, <1>4

LEMMA NoScanKeeps ==
    ASSUME FrontierInv, UNCHANGED <<raw, base, exit, file, capture, proc>>, scan' = NoScan
    PROVE  FrontierInv'
<1>1. scan' \in ScanType /\ FoundInv'
  BY DEF NoScan, ScanType, FoundInv
<1>2. QED
  BY <1>1, ReportKeeps

LEMMA StartScanKeeps ==
    ASSUME FrontierInv, StartScan PROVE FrontierInv'
<1>1. scan' \in ScanType /\ FoundInv'
  BY DEF StartScan, Directories, ScanType, FoundInv
<1>2. QED
  BY <1>1, ReportKeeps DEF StartScan

LEMMA ScanNextKeeps ==
    ASSUME FrontierInv, ScanNext PROVE FrontierInv'
<1>1. /\ UNCHANGED <<raw, base, exit, file, capture, proc>>
      /\ scan \in ScanType /\ FoundInv
  BY DEF ScanNext, FrontierInv, FrontierTypeOK, ScanType
<1>2. PICK r \in scan.todo :
         \/ scan' = [scan EXCEPT !.todo = scan.todo \ {r}]
         \/ /\ Loadable(r)
            /\ scan' = [scan EXCEPT !.todo = scan.todo \ {r}, !.found = Append(scan.found, r)]
         \/ scan' = NoScan
  BY DEF ScanNext
<1>3. r \in Runs /\ \A q : Loadable(q)' = Loadable(q)
  BY <1>1 DEF ScanType, Loadable, Whole
<1>4. CASE scan' = [scan EXCEPT !.todo = scan.todo \ {r}]
  <2>1. scan' \in ScanType /\ scan'.found = scan.found
    BY <1>1, <1>4 DEF ScanType
  <2>2. QED
    BY <1>1, <1>3, <2>1, ReportKeeps DEF FoundInv
<1>5. CASE /\ Loadable(r)
           /\ scan' = [scan EXCEPT !.todo = scan.todo \ {r}, !.found = Append(scan.found, r)]
  <2>1. scan' \in ScanType /\ scan'.found = Append(scan.found, r)
    <3>1. Append(scan.found, r) \in Seq(Runs) /\ scan.todo \ {r} \in SUBSET Runs
      BY <1>1, <1>3 DEF ScanType
    <3>2. QED
      BY <1>1, <1>5, <3>1 DEF ScanType
  <2>2. \A i \in DOMAIN scan'.found : \/ i \in DOMAIN scan.found /\ scan'.found[i] = scan.found[i]
                                      \/ scan'.found[i] = r
    BY <1>1, <1>3, <2>1 DEF ScanType
  <2>3. FoundInv'
    BY <1>1, <1>3, <1>5, <2>2 DEF FoundInv
  <2>4. QED
    BY <1>1, <2>1, <2>3, ReportKeeps
<1>6. CASE scan' = NoScan
  BY <1>1, <1>6, NoScanKeeps
<1>7. QED
  BY <1>2, <1>4, <1>5, <1>6

\* A loss of power stops everybody, and adds no file.
LEMMA PowerLossKeeps ==
    ASSUME FrontierInv, NEW r \in Runs, NEW lost \in SUBSET {n \in Names : Exists(r, n)},
           NEW fate \in {"torn", "absent"}, PowerLoss(r, lost, fate)
    PROVE  FrontierInv'
<1> USE DEF FrontierInv
<1>1. /\ UNCHANGED <<raw, base, exit>> /\ capture' = [pc |-> "idle", run |-> NoRun, combined |-> FALSE]
      /\ proc' = [p \in Processors |-> [pc |-> "idle", run |-> NoRun]] /\ scan' = NoScan
  BY DEF PowerLoss
<1>2. file' = [file EXCEPT ![r] = [n \in Names |-> IF n \in lost THEN fate ELSE file[r][n]]]
  BY DEF PowerLoss
<1>3. [n \in Names |-> IF n \in lost THEN fate ELSE file[r][n]] \in [Names -> Fates]
  BY DEF FrontierTypeOK, Files, Fates
<1>4. /\ file' \in Files
      /\ \A q \in Runs, n \in Names : Exists(q, n)' => Exists(q, n)
  BY <1>2, <1>3 DEF FrontierTypeOK, Files, Exists
<1>5. FrontierTypeOK'
  BY <1>1, <1>4 DEF FrontierTypeOK, Procs, NoScan, NoRun
<1>6. RunInv' /\ MarkerInv' /\ FreshInv' /\ FoundInv'
  BY <1>1 DEF RunInv, MarkerInv, FreshInv, FoundInv, NoScan, Busy, Working, Normalized
<1>7. SealedInv' /\ EndInv'
  BY <1>1, <1>4 DEF SealedInv, EndInv, Sealed, Names
<1>8. NormalInv'
  BY <1>1, <1>4, SameNormal DEF NormalInv, Normalized, Names
<1>9. QED
  BY <1>5, <1>6, <1>7, <1>8

\* Nothing changes.
LEMMA StutterKeeps == FrontierInv /\ UNCHANGED vars => FrontierInv'
<1> SUFFICES ASSUME FrontierInv, UNCHANGED vars PROVE FrontierInv'
  OBVIOUS
<1>1. UNCHANGED <<raw, base, exit, file, capture, proc>> /\ scan' = scan
  BY DEF vars
<1>2. scan' \in ScanType /\ FoundInv'
  BY <1>1 DEF FrontierInv, FrontierTypeOK, ScanType, FoundInv, Loadable, Whole
<1>3. QED
  BY <1>1, <1>2, ReportKeeps
-----------------------------------------------------------------------------
(* The theorems *)

\* Every step keeps the invariant.
LEMMA FrontierStep == FrontierInv /\ [Next]_vars => FrontierInv'
<1> SUFFICES ASSUME FrontierInv, [Next]_vars PROVE FrontierInv'
  OBVIOUS
<1>1. FrontierTypeOK /\ RunInv /\ MarkerInv /\ NormalInv
  BY DEF FrontierInv
<1>2. CASE CaptureStep
  <2>1. ASSUME NEW r \in Runs, NEW c \in DOMAIN Captures, NEW ok \in BOOLEAN, NEW combined \in BOOLEAN,
               NEW s, Record(r, c, s, ok, combined)
        PROVE  FrontierInv'
    BY <2>1, RecordKeeps
  <2>2. QED
    BY <1>2, <2>1, WriteSummaryKeeps, WriteReadyKeeps DEF CaptureStep
<1>3. CASE \E p \in Timed : PickNext(p)
  BY <1>3, PickNextKeeps, FrontierAssumption
<1>4. CASE \E p \in Processors : ProcessorStep(p)
  <2>1. PICK p \in Processors : ProcessorStep(p)
    BY <1>4
  <2>2. ProcessorEffect(p)
    BY <1>1, <2>1, ClaimEffect, NormalizeEffect, BuildEffect, RenameEffect, AcceptEffect, PublishEffect
       DEF ProcessorStep
  <2>3. QED
    BY <2>2, ProcessorKeeps
<1>5. CASE ReportStep
  BY <1>5, StartScanKeeps, ScanNextKeeps, NoScanKeeps DEF ReportStep, WriteRevision
<1>6. CASE Fault
  <2>1. CASE \E p \in Processors, torn \in BOOLEAN : KillProcessor(p, torn)
    BY <1>1, <2>1, KillEffect, ProcessorKeeps
  <2>2. CASE \E torn \in BOOLEAN : KillCapture(torn)
    BY <2>2, KillCaptureKeeps
  <2>3. CASE KillReport
    BY <2>3, NoScanKeeps DEF KillReport
  <2>4. ASSUME NEW r \in Runs, NEW lost \in SUBSET {n \in Names : Exists(r, n)},
               NEW fate \in {"torn", "absent"}, PowerLoss(r, lost, fate)
        PROVE  FrontierInv'
    BY <2>4, PowerLossKeeps
  <2>5. QED
    BY <1>6, <2>1, <2>2, <2>3, <2>4 DEF Fault
<1>7. CASE UNCHANGED vars
  BY <1>7, StutterKeeps
<1>8. QED
  BY <1>2, <1>3, <1>4, <1>5, <1>6, <1>7 DEF Next

\* The invariant holds in every state of every behaviour.
THEOREM FrontierInvariant == Spec => []FrontierInv
<1>1. QED
  BY FrontierInit, FrontierStep, PTL DEF Spec

\* Every variable keeps its type: in particular the files of a run are absent,
\* torn or whole, and a report finds runs only.
THEOREM FrontierTypeCorrect == Spec => []FrontierTypeOK
<1>1. FrontierInv => FrontierTypeOK
  BY DEF FrontierInv
<1>2. QED
  BY FrontierInvariant, <1>1, PTL

\* No two processors ever work on one segment, however many there are, whatever
\* they picked and whoever died (the exclusive creation of
\* processing-started.json in process_frontier_captured_segment).
THEOREM OneProcessorPerSegmentHolds == Spec => []OneProcessorPerSegment
<1>1. FrontierInv => OneProcessorPerSegment
  BY DEF FrontierInv, FrontierTypeOK, Procs, MarkerInv, Busy, Working, Normalized,
         OneProcessorPerSegment
<1>2. QED
  BY FrontierInvariant, <1>1, PTL

\* What normalizes has no errors.
LEMMA NormalHasNoErrors ==
    ASSUME FrontierInv, NEW r \in Runs, Sealed(r), Normal(r)
    PROVE  Errors(ResultsOf(raw[r], r, base[r])) = {}
<1>1. raw[r] \in DOMAIN Captures /\ base[r] \in Clocks
  BY DEF FrontierInv, SealedInv
<1>2. OutcomeOf(r) = Outcome(raw[r], r, base[r])
  BY <1>1 DEF OutcomeOf, Outcomes
<1>3. PICK results : results = ResultsOf(raw[r], r, base[r])
  OBVIOUS
<1>4. PICK outcome : outcome = Outcome(raw[r], r, base[r])
  OBVIOUS
<1>5. outcome.normal = (Errors(results) = {} /\ Cardinality(Domains(results)) = 1)
  BY <1>3, <1>4, Zenon DEF Outcome
<1>6. QED
  BY <1>2, <1>3, <1>4, <1>5 DEF Normal

\* A revision is written only over segments whose recorder ended well, whose
\* every frame normalized, and all of whose files are what was published, even
\* if processors and captures work while the report scans the directories.
THEOREM RevisionRestsHolds == Spec => RevisionRestsOnWholeSegments
<1>1. ASSUME FrontierInv, [Next]_vars, NEW v \in revisions' \ revisions
      PROVE  \A r \in ToSet(v.manifest) :
                /\ exit[r] /\ Errors(ResultsOf(raw[r], r, base[r])) = {}
                /\ Whole(r, "dataset") /\ Whole(r, "summary") /\ Whole(r, "normalization")
  <2>1. v.manifest = scan.found
    <3>1. CASE WriteRevision
      BY <1>1, <3>1 DEF WriteRevision, Revision
    <3>2. CASE KillReport
      BY <1>1, <3>2 DEF KillReport, Revision
    <3>3. CASE revisions' = revisions
      BY <1>1, <3>3
    <3>4. WriteRevision \/ KillReport \/ revisions' = revisions
      BY <1>1 DEF Next, vars, CaptureStep, Record, WriteSummary, WriteReady, PickNext, ProcessorStep,
                  Claim, Normalize, Build, Rename, Accept, Publish, ReportStep, StartScan, ScanNext,
                  Fault, KillProcessor, KillCapture, PowerLoss
    <3>5. QED
      BY <3>1, <3>2, <3>3, <3>4
  <2>2. ASSUME NEW r \in ToSet(v.manifest) PROVE r \in Runs /\ Loadable(r)
    BY <1>1, <2>1, <2>2 DEF ToSet, FrontierInv, FrontierTypeOK, FoundInv
  <2>3. ASSUME NEW r \in ToSet(v.manifest)
        PROVE  exit[r] /\ Errors(ResultsOf(raw[r], r, base[r])) = {}
    <3>1. r \in Runs /\ Exists(r, "evidence")
      BY <2>2, <2>3 DEF Loadable, Whole, Exists
    <3>2. exit[r] /\ Normal(r) /\ Sealed(r)
      BY <1>1, <3>1 DEF FrontierInv, NormalInv, SealedInv, Names
    <3>3. QED
      BY <1>1, <3>1, <3>2, NormalHasNoErrors
  <2>4. QED
    BY <2>2, <2>3 DEF Loadable, Bound
<1>2. FrontierInv /\ [Next]_vars =>
         [\A v \in revisions' \ revisions : \A r \in ToSet(v.manifest) :
             /\ exit[r] /\ Errors(ResultsOf(raw[r], r, base[r])) = {}
             /\ Whole(r, "dataset") /\ Whole(r, "summary") /\ Whole(r, "normalization")]_vars
  BY <1>1
<1>3. QED
  BY FrontierInvariant, <1>2, PTL DEF Spec, RevisionRestsOnWholeSegments
-----------------------------------------------------------------------------
(* The rows of a dataset *)

\* Results, each with its events.
Listed(results) == IsList(results) /\ \A i \in DOMAIN results : IsList(results[i].events)

LEMMA EmptyIsList == IsList(<<>>)
<1>1. <<>> \in Seq({})
  OBVIOUS
<1>2. QED
  BY <1>1, SeqIsList

\* A list of what is made of each element, or of each element and its place.
LEMMA MappedIsList ==
    ASSUME NEW s, IsList(s), NEW t, t = [i \in DOMAIN s |-> t[i]]
    PROVE  IsList(t) /\ DOMAIN t = DOMAIN s
<1>1. PICK n \in Nat : s = [i \in 1..n |-> s[i]]
  BY DEF IsList
<1>2. DOMAIN s = 1..n
  BY <1>1
<1>3. t = [i \in 1..n |-> t[i]]
  BY <1>2
<1>4. QED
  BY <1>2, <1>3 DEF IsList

LEMMA ParsedIsListed ==
    ASSUME NEW f, NEW code, NEW events, IsList(events)
    PROVE  IsList(Parsed(f, code, events).events)
<1>1. CASE code # "NONE"
  BY <1>1, EmptyIsList DEF Parsed, Result
<1>2. CASE code = "NONE" /\ events = <<>>
  BY <1>2, EmptyIsList DEF Parsed, Result
<1>3. CASE code = "NONE" /\ events # <<>>
  BY <1>3 DEF Parsed, Result
<1>4. QED
  BY <1>1, <1>2, <1>3

\* Whatever a frame normalizes to, its events are a list.
LEMMA FrameIsListed ==
    ASSUME NEW f, IsList(f.trades)
    PROVE  IsList(NormalizeFrame(f).events)
<1>1. IsList(BookEvents(f)) /\ IsList(TickerEvents(f)) /\ IsList(AggTradeEvents(f))
  <2>1. \A e : IsList(<<e>>)
    <3> SUFFICES ASSUME NEW e PROVE IsList(<<e>>)
      OBVIOUS
    <3>1. <<e>> \in Seq({e})
      OBVIOUS
    <3>2. QED
      BY <3>1, SeqIsList
  <2>2. QED
    BY <2>1 DEF BookEvents, TickerEvents, AggTradeEvents
<1>2. IsList(ContextEvents(f))
  <2> PICK a, b, c : /\ a = Event(f, "FUNDING_RATE_OBSERVATION", 0) /\ b = Event(f, "MARK_PRICE", 0)
                     /\ c = Event(f, "ORACLE_PRICE", 0)
    OBVIOUS
  <2>1. <<a, b, c>> \in Seq({a, b, c})
    OBVIOUS
  <2>2. ContextEvents(f) = <<a, b, c>>
    BY DEF ContextEvents
  <2>3. QED
    BY <2>1, <2>2, SeqIsList
<1>3. IsList(TradeEvents(f))
  <2> PICK t : t = TradeEvents(f)
    OBVIOUS
  <2>1. t = [i \in DOMAIN f.trades |-> t[i]]
    BY DEF TradeEvents
  <2>2. QED
    BY <2>1, MappedIsList
<1>4. \A code : IsList(FrameError(f, code).events)
  BY EmptyIsList DEF FrameError, Result
<1>5. IsList(NotApplicable(f).events)
  BY EmptyIsList DEF NotApplicable, Result
<1>6. \A code, parser : IsList(Result(f, "ERROR", code, parser, <<>>).events)
  BY EmptyIsList DEF Result
<1>7. IsList(NormalizeHyperliquid(f).events)
  <2> PICK code : code = FirstFailed(<< Require(f, "INVALID_JSON"), Require(f, "INVALID_ENVELOPE") >>, "NONE")
    OBVIOUS
  <2>1. NormalizeHyperliquid(f) =
          CASE code # "NONE" -> FrameError(f, code)
            [] code = "NONE" /\ f.channel \in {"l2Book", "bbo"} -> Parsed(f, BookError(f), BookEvents(f))
            [] code = "NONE" /\ f.channel = "trades" -> Parsed(f, TradesError(f), TradeEvents(f))
            [] code = "NONE" /\ f.channel = "activeAssetCtx" -> Parsed(f, ContextError(f), ContextEvents(f))
            [] OTHER -> NotApplicable(f)
    BY DEF NormalizeHyperliquid
  <2>2. \/ NormalizeHyperliquid(f) = FrameError(f, code)
        \/ NormalizeHyperliquid(f) = Parsed(f, BookError(f), BookEvents(f))
        \/ NormalizeHyperliquid(f) = Parsed(f, TradesError(f), TradeEvents(f))
        \/ NormalizeHyperliquid(f) = Parsed(f, ContextError(f), ContextEvents(f))
        \/ NormalizeHyperliquid(f) = NotApplicable(f)
    BY <2>1
  <2>3. /\ IsList(Parsed(f, BookError(f), BookEvents(f)).events)
        /\ IsList(Parsed(f, TradesError(f), TradeEvents(f)).events)
        /\ IsList(Parsed(f, ContextError(f), ContextEvents(f)).events)
    BY <1>1, <1>2, <1>3, ParsedIsListed
  <2>4. QED
    BY <1>4, <1>5, <2>2, <2>3
<1>8. IsList(NormalizeBinance(f).events)
  <2> PICK code : code = FirstFailed(<< KnownAvailability(f), Require(f, "INVALID_JSON"),
                                        Require(f, "INVALID_ENVELOPE") >>, "NONE")
    OBVIOUS
  <2>1. NormalizeBinance(f) =
          CASE code # "NONE" -> Result(f, "ERROR", "PARSER_ERROR", code, <<>>)
            [] code = "NONE" /\ f.channel = "bookTicker" -> Parsed(f, TickerError(f), TickerEvents(f))
            [] code = "NONE" /\ f.channel = "aggTrade" -> Parsed(f, AggTradeError(f), AggTradeEvents(f))
            [] OTHER -> NotApplicable(f)
    BY DEF NormalizeBinance
  <2>2. \/ NormalizeBinance(f) = Result(f, "ERROR", "PARSER_ERROR", code, <<>>)
        \/ NormalizeBinance(f) = Parsed(f, TickerError(f), TickerEvents(f))
        \/ NormalizeBinance(f) = Parsed(f, AggTradeError(f), AggTradeEvents(f))
        \/ NormalizeBinance(f) = NotApplicable(f)
    BY <2>1
  <2>3. /\ IsList(Parsed(f, TickerError(f), TickerEvents(f)).events)
        /\ IsList(Parsed(f, AggTradeError(f), AggTradeEvents(f)).events)
    BY <1>1, ParsedIsListed
  <2>4. QED
    BY <1>5, <1>6, <2>2, <2>3
<1>9. \/ \E code : NormalizeFrame(f) = FrameError(f, code)
      \/ NormalizeFrame(f) = NormalizeHyperliquid(f)
      \/ NormalizeFrame(f) = NormalizeBinance(f)
  BY DEF NormalizeFrame
<1>10. QED
  BY <1>4, <1>7, <1>8, <1>9

LEMMA ResultsAreListed ==
    ASSUME NEW c \in DOMAIN Captures, NEW r, NEW start
    PROVE  Listed(ResultsOf(c, r, start))
<1> PICK frames : frames = FramesOf(c, r, start)
  OBVIOUS
<1>1. Captures[c] \in Seq(Finds) /\ IsList(Captures[c])
  BY FrontierAssumption, SeqIsList
<1>2. frames = [i \in DOMAIN Captures[c] |-> RawFrame(Captures[c][i], r, i, start)]
  BY DEF FramesOf
<1>3. IsList(frames) /\ DOMAIN frames = DOMAIN Captures[c]
  <2>1. frames = [i \in DOMAIN Captures[c] |-> frames[i]]
    BY <1>2
  <2>2. QED
    BY <1>1, <2>1, MappedIsList
<1>4. ASSUME NEW i \in DOMAIN frames PROVE IsList(frames[i].trades)
  <2>1. Captures[c][i] \in Finds
    BY <1>1, <1>3
  <2>2. IsList(Captures[c][i].trades)
    <3> DEFINE U == [symbol : STRING, time : Nat, tid : Nat, broken : SUBSET STRING]
    <3>1. Captures[c][i].trades \in Seq(U)
      BY <2>1 DEF Finds
    <3> HIDE DEF U
    <3>2. QED
      BY <3>1, SeqIsList
  <2>3. frames[i].trades = Captures[c][i].trades
    BY <1>2, <1>3 DEF RawFrame
  <2>4. QED
    BY <2>2, <2>3
<1> PICK results : results = ResultsOf(c, r, start)
  OBVIOUS
<1>5. results = [i \in DOMAIN frames |-> NormalizeFrame(frames[i])]
  BY DEF ResultsOf, NormalizeFrames
<1>6. IsList(results) /\ DOMAIN results = DOMAIN frames
  <2>1. results = [i \in DOMAIN frames |-> results[i]]
    BY <1>5
  <2>2. QED
    BY <1>3, <2>1, MappedIsList
<1>7. ASSUME NEW i \in DOMAIN results PROVE IsList(results[i].events)
  <2>1. results[i] = NormalizeFrame(frames[i])
    BY <1>5, <1>6
  <2>2. QED
    BY <1>4, <1>6, <2>1, FrameIsListed
<1>8. QED
  BY <1>6, <1>7 DEF Listed

\* Put in the order of receipt they still are.
LEMMA ReceiptsAreListed ==
    ASSUME NEW results, Listed(results)
    PROVE  Listed(ByReceipt(results))
<1>0. PICK keys : keys = [i \in DOMAIN results |->
                           Domain(results[i].frame) \o CausalKey(results[i].frame)]
  OBVIOUS
<1> PICK sorted : sorted = ByReceipt(results)
  OBVIOUS
<1>1. sorted = Sorted(results, keys)
  BY <1>0 DEF ByReceipt
<1>2. IsList(results) /\ \A i \in DOMAIN results : IsList(results[i].events)
  BY DEF Listed
<1>3. Len(results) \in Nat /\ DOMAIN results = 1..Len(results)
  BY <1>2, ListIsSeq
<1>4. Len(keys) = Len(results)
  BY <1>0, <1>3
<1>5. /\ IsList(sorted) /\ Len(sorted) = Len(results)
      /\ SortOrder(keys) \in Bijection(1..Len(results), 1..Len(results))
      /\ \A k \in 1..Len(results) : sorted[k] = results[SortOrder(keys)[k]]
  <2>1. /\ IsList(Sorted(results, keys)) /\ Len(Sorted(results, keys)) = Len(results)
        /\ SortOrder(keys) \in Bijection(1..Len(results), 1..Len(results))
        /\ \A k \in 1..Len(results) : Sorted(results, keys)[k] = results[SortOrder(keys)[k]]
    BY <1>2, <1>4, SortedList
  <2>2. QED
    BY <1>1, <2>1, Zenon
<1>6. DOMAIN sorted = 1..Len(results)
  BY <1>5, ListIsSeq
<1>7. \A k \in 1..Len(results) : SortOrder(keys)[k] \in 1..Len(results)
  BY <1>5 DEF Bijection, Injection
<1>8. \A k \in DOMAIN sorted : IsList(sorted[k].events)
  BY <1>2, <1>3, <1>5, <1>6, <1>7
<1>9. QED
  BY <1>5, <1>8 DEF Listed

LEMMA RecordsAreListed ==
    ASSUME NEW results, Listed(results)
    PROVE  IsList(Records(results))
<1> PICK ss : ss = [i \in DOMAIN results |->
        [n \in DOMAIN results[i].events |-> [ordinal |-> n, event |-> results[i].events[n]]]]
  OBVIOUS
<1>1. IsList(results) /\ \A i \in DOMAIN results : IsList(results[i].events)
  BY DEF Listed
<1>2. IsList(ss) /\ DOMAIN ss = DOMAIN results
  <2>1. ss = [i \in DOMAIN results |-> ss[i]]
    OBVIOUS
  <2>2. QED
    BY <1>1, <2>1, MappedIsList
<1>3. ASSUME NEW i \in DOMAIN ss PROVE IsList(ss[i])
  <2>1. ss[i] = [n \in DOMAIN results[i].events |-> [ordinal |-> n, event |-> results[i].events[n]]]
    BY <1>2
  <2>2. ss[i] = [n \in DOMAIN results[i].events |-> ss[i][n]]
    BY <2>1
  <2>3. IsList(results[i].events)
    BY <1>1, <1>2
  <2>4. QED
    BY <2>2, <2>3, MappedIsList
<1>4. Records(results) = FlattenSeq(ss)
  BY DEF Records
<1>5. QED
  BY <1>2, <1>3, <1>4, FlattenList

\* The events of a dataset are a list.
LEMMA DatasetIsListed ==
    ASSUME NEW results, Listed(results)
    PROVE  IsList(Dataset(results).events)
<1> PICK sorted : sorted = ByReceipt(results)
  OBVIOUS
<1> PICK records : records = Records(sorted)
  OBVIOUS
<1> PICK events : events = [i \in DOMAIN records |-> records[i].event]
  OBVIOUS
<1>1. Dataset(results).events = events
  BY DEF Dataset
<1>2. IsList(records)
  BY ReceiptsAreListed, RecordsAreListed
<1>3. events = [i \in DOMAIN records |-> events[i]]
  OBVIOUS
<1>4. QED
  BY <1>1, <1>2, <1>3, MappedIsList

\* Observations that are numbered.
Rows(bbo) == IsList(bbo) /\ \A i \in DOMAIN bbo : bbo[i].event = i

LEMMA PrimaryBBORows ==
    ASSUME NEW ds, IsList(ds.events)
    PROVE  Rows(PrimaryBBO(ds))
<1> PICK books : books = OfType(ds, "BBO")
  OBVIOUS
<1> PICK usable : usable = Keep(books, {i \in DOMAIN books : Usable(books[i])})
  OBVIOUS
<1> PICK bbo : bbo = PrimaryBBO(ds)
  OBVIOUS
<1>1. IsList(books)
  <2> PICK P : P = {i \in DOMAIN ds.events : ds.events[i].type = "BBO"}
    OBVIOUS
  <2>1. books = Keep(ds.events, P) /\ P \subseteq DOMAIN ds.events
    BY DEF OfType
  <2>2. QED
    BY <2>1, KeepList
<1>2. IsList(usable)
  <2> PICK P : P = {i \in DOMAIN books : Usable(books[i])}
    OBVIOUS
  <2>1. usable = Keep(books, P) /\ P \subseteq DOMAIN books
    OBVIOUS
  <2>2. QED
    BY <1>1, <2>1, KeepList
<1>3. bbo = [i \in DOMAIN usable |-> Observation(usable[i], i)]
  BY DEF PrimaryBBO
<1>4. IsList(bbo) /\ DOMAIN bbo = DOMAIN usable
  <2>1. bbo = [i \in DOMAIN usable |-> bbo[i]]
    BY <1>3
  <2>2. QED
    BY <1>2, <2>1, MappedIsList
<1>5. \A i \in DOMAIN bbo : bbo[i].event = i
  BY <1>3, <1>4 DEF Observation
<1>6. QED
  BY <1>4, <1>5 DEF Rows
-----------------------------------------------------------------------------
(* What a dataset says of the books *)

\* Where no check fails, all of them hold.
LEMMA NoneFailed ==
    ASSUME NEW checks, NEW n \in Nat, DOMAIN checks = 1..n, NEW passed,
           \A i \in 1..n : checks[i].code # passed, FirstFailed(checks, passed) = passed
    PROVE  \A i \in 1..n : checks[i].holds
<1>1. PICK failed : failed = {i \in DOMAIN checks : ~checks[i].holds}
  OBVIOUS
<1>2. SUFFICES ASSUME failed # {} PROVE FALSE
  BY <1>1
<1>3. FirstFailed(checks, passed) = checks[Min(failed)].code
  BY <1>1, <1>2 DEF FirstFailed
<1>4. failed \subseteq Nat
  BY <1>1
<1>5. PICK k \in failed : \A i \in failed : k <= i
  BY <1>2, <1>4, LeastNat
<1>6. Min(failed) \in failed
  BY <1>5 DEF Min
<1>7. QED
  BY <1>1, <1>3, <1>6

\* A book that normalizes meets the requirements of a book.
LEMMA BookIsWell ==
    ASSUME NEW f, f.channel = "bbo", BookError(f) = "NONE"
    PROVE  /\ Meets(f, "INVALID_DATA") /\ Meets(f, "INVALID_TIMESTAMP")
           /\ Meets(f, "INVALID_BBO_SHAPE")
<1>1. PICK a, b, c, d, e, g :
        /\ a = Require(f, "INVALID_DATA") /\ b = Check(ListedOnHyperliquid(f.symbol), "UNSUPPORTED_COIN")
        /\ c = Require(f, "INVALID_TIMESTAMP") /\ d = KnownAvailability(f)
        /\ e = Require(f, "INVALID_BBO_SHAPE") /\ g = LevelCheck(f, "INVALID_BBO_SHAPE")
  OBVIOUS
<1>2. BookError(f) = FirstFailed(<<a, b, c, d, e, g>>, "NONE")
  BY <1>1 DEF BookError
<1>3. /\ a.code # "NONE" /\ b.code # "NONE" /\ c.code # "NONE" /\ d.code # "NONE" /\ e.code # "NONE"
      /\ a.holds = Meets(f, "INVALID_DATA") /\ c.holds = Meets(f, "INVALID_TIMESTAMP")
      /\ e.holds = Meets(f, "INVALID_BBO_SHAPE")
  BY <1>1 DEF Require, Check, KnownAvailability
<1>4. g.code # "NONE"
  BY <1>1 DEF LevelCheck, Check
<1>5. PICK checks : checks = <<a, b, c, d, e, g>>
  OBVIOUS
<1>6. DOMAIN checks = 1..6 /\ 6 \in Nat
  BY <1>5
<1>7. /\ checks[1] = a /\ checks[2] = b /\ checks[3] = c /\ checks[4] = d
      /\ checks[5] = e /\ checks[6] = g
  BY <1>5
<1>8. \A i \in 1..6 : checks[i].code # "NONE"
  <2>1. \A i \in 1..6 : i = 1 \/ i = 2 \/ i = 3 \/ i = 4 \/ i = 5 \/ i = 6
    OBVIOUS
  <2>2. QED
    BY <1>3, <1>4, <1>7, <2>1
<1>9. \A i \in 1..6 : checks[i].holds
  BY <1>2, <1>5, <1>6, <1>8, NoneFailed
<1>10. a.holds /\ c.holds /\ e.holds
  BY <1>7, <1>9
<1>11. QED
  BY <1>3, <1>10

\* A BBO is of a frame of Hyperliquid, of the channel of the books, that meets
\* the requirements of one; and such a frame that normalizes is one BBO.
OfBook(f) ==
    /\ f.src = Hyperliquid /\ f.channel = "bbo" /\ f.broken \cap BookNeeds = {}
    /\ NormalizeFrame(f).events = <<BookEvent(f, "BBO", 0)>>

LEMMA BookIsOne ==
    ASSUME NEW f, f.src = Hyperliquid, f.channel = "bbo", NormalizeFrame(f).outcome # "ERROR"
    PROVE  OfBook(f)
<1>1. Meets(f, "INVALID_PROVENANCE") /\ NormalizeFrame(f) = NormalizeHyperliquid(f)
  <2>1. Meets(f, "INVALID_PROVENANCE")
    <3> SUFFICES ASSUME ~Meets(f, "INVALID_PROVENANCE") PROVE FALSE
      OBVIOUS
    <3>1. NormalizeFrame(f) = FrameError(f, "INVALID_PROVENANCE")
      BY DEF NormalizeFrame
    <3>2. QED
      BY <3>1 DEF FrameError, Result
  <2>2. NormalizeFrame(f) = NormalizeHyperliquid(f)
    <3>1. \/ \E code : NormalizeFrame(f) = FrameError(f, code)
          \/ NormalizeFrame(f) = NormalizeHyperliquid(f)
          \/ f.src = Binance
      BY DEF NormalizeFrame
    <3>2. \A code : FrameError(f, code).outcome = "ERROR"
      BY DEF FrameError, Result
    <3>3. f.src # Binance
      BY DEF Hyperliquid, Binance
    <3>4. QED
      BY <3>1, <3>2, <3>3
  <2>3. QED
    BY <2>1, <2>2
<1>2. PICK a, b : a = Require(f, "INVALID_JSON") /\ b = Require(f, "INVALID_ENVELOPE")
  OBVIOUS
<1>3. PICK code : code = FirstFailed(<<a, b>>, "NONE")
  OBVIOUS
<1>4. NormalizeHyperliquid(f) =
        CASE code # "NONE" -> FrameError(f, code)
          [] code = "NONE" /\ f.channel \in {"l2Book", "bbo"} -> Parsed(f, BookError(f), BookEvents(f))
          [] code = "NONE" /\ f.channel = "trades" -> Parsed(f, TradesError(f), TradeEvents(f))
          [] code = "NONE" /\ f.channel = "activeAssetCtx" -> Parsed(f, ContextError(f), ContextEvents(f))
          [] OTHER -> NotApplicable(f)
  BY <1>2, <1>3 DEF NormalizeHyperliquid
<1>5. code = "NONE"
  BY <1>1, <1>4 DEF FrameError, Result
<1>6. NormalizeFrame(f) = Parsed(f, BookError(f), BookEvents(f))
  BY <1>1, <1>4, <1>5
<1>7. BookError(f) = "NONE"
  BY <1>6 DEF Parsed, Result
<1>8. BookEvents(f) = <<BookEvent(f, "BBO", 0)>>
  BY DEF BookEvents
<1>9. NormalizeFrame(f).events = <<BookEvent(f, "BBO", 0)>>
  <2>1. PICK events : events = BookEvents(f)
    OBVIOUS
  <2>2. events # <<>>
    BY <1>8, <2>1
  <2>3. NormalizeFrame(f) = Result(f, "EVENTS", "NONE", "NONE", events)
    BY <1>6, <1>7, <2>1, <2>2 DEF Parsed
  <2>4. QED
    BY <1>8, <2>1, <2>3 DEF Result
<1>10. Meets(f, "INVALID_JSON") /\ Meets(f, "INVALID_ENVELOPE")
  <2>1. PICK checks : checks = <<a, b>>
    OBVIOUS
  <2>2. DOMAIN checks = 1..2 /\ 2 \in Nat /\ checks[1] = a /\ checks[2] = b
    BY <2>1
  <2>3. a.code # "NONE" /\ b.code # "NONE"
    BY <1>2 DEF Require, Check
  <2>4. \A i \in 1..2 : checks[i].code # "NONE"
    <3>1. \A i \in 1..2 : i = 1 \/ i = 2
      OBVIOUS
    <3>2. QED
      BY <2>2, <2>3, <3>1
  <2>5. \A i \in 1..2 : checks[i].holds
    BY <1>3, <1>5, <2>1, <2>2, <2>4, NoneFailed
  <2>6. a.holds /\ b.holds
    BY <2>2, <2>5
  <2>7. QED
    BY <1>2, <2>6 DEF Require, Check
<1>11. f.broken \cap BookNeeds = {}
  BY <1>1, <1>7, <1>10, BookIsWell DEF Meets, BookNeeds
<1>12. QED
  BY <1>9, <1>11 DEF OfBook

\* Nothing that did not go through a parser has events.
LEMMA ErrorIsEmpty ==
    ASSUME NEW f
    PROVE  /\ \A code : FrameError(f, code).events = <<>>
           /\ \A code, parser : Result(f, "ERROR", code, parser, <<>>).events = <<>>
           /\ NotApplicable(f).events = <<>>
           /\ \A code, events : \/ Parsed(f, code, events).events = <<>>
                                \/ Parsed(f, code, events).events = events
BY DEF FrameError, Result, NotApplicable, Parsed

\* The types of events.
LEMMA EventTypes ==
    ASSUME NEW f
    PROVE  /\ f.channel = "l2Book" => \A e \in ToSet(BookEvents(f)) : e.type = "L2_SNAPSHOT"
           /\ \A e \in ToSet(TradeEvents(f)) : e.type = "TRADE"
           /\ \A e \in ToSet(ContextEvents(f)) : e.type # "BBO"
           /\ \A e \in ToSet(TickerEvents(f)) : e.type = "REFERENCE_BBO"
           /\ \A e \in ToSet(AggTradeEvents(f)) : e.type = "REFERENCE_TRADE"
<1>1. \A type, native : Event(f, type, native).type = type
  BY DEF Event
<1>2. \A type, native : BookEvent(f, type, native).type = type
  BY DEF BookEvent, Event
<1>3. \A e, x : x \in ToSet(<<e>>) => x = e
  <2> SUFFICES ASSUME NEW e, NEW x \in ToSet(<<e>>) PROVE x = e
    OBVIOUS
  <2>1. DOMAIN <<e>> = {1} /\ <<e>>[1] = e
    OBVIOUS
  <2>2. QED
    BY <2>1 DEF ToSet
<1>4. ASSUME NEW e \in ToSet(BookEvents(f)), f.channel = "l2Book" PROVE e.type = "L2_SNAPSHOT"
  <2>1. BookEvents(f) = <<BookEvent(f, "L2_SNAPSHOT", 0)>>
    BY <1>4 DEF BookEvents
  <2>2. e = BookEvent(f, "L2_SNAPSHOT", 0)
    BY <1>3, <1>4, <2>1
  <2>3. QED
    BY <1>2, <2>2
<1>5. ASSUME NEW e \in ToSet(TradeEvents(f)) PROVE e.type = "TRADE"
  <2>1. PICK i \in DOMAIN f.trades :
           e = [Event(f, "TRADE", i) EXCEPT !.symbol = f.trades[i].symbol, !.trade = TradeId(f.trades[i])]
    BY DEF TradeEvents, ToSet
  <2>2. QED
    BY <2>1 DEF Event
<1>6. ASSUME NEW e \in ToSet(ContextEvents(f)) PROVE e.type # "BBO"
  <2>1. PICK a, b, c : /\ a = Event(f, "FUNDING_RATE_OBSERVATION", 0) /\ b = Event(f, "MARK_PRICE", 0)
                       /\ c = Event(f, "ORACLE_PRICE", 0)
    OBVIOUS
  <2>2. PICK s : s = ContextEvents(f)
    OBVIOUS
  <2>3. s = <<a, b, c>>
    BY <2>1, <2>2 DEF ContextEvents
  <2>4. DOMAIN s = 1..3 /\ s[1] = a /\ s[2] = b /\ s[3] = c
    BY <2>3
  <2>5. PICK i \in 1..3 : e = s[i]
    BY <1>6, <2>2, <2>4 DEF ToSet
  <2>6. e = a \/ e = b \/ e = c
    BY <2>4, <2>5
  <2>7. a.type # "BBO" /\ b.type # "BBO" /\ c.type # "BBO"
    BY <1>1, <2>1
  <2>8. QED
    BY <2>6, <2>7
<1>7. ASSUME NEW e \in ToSet(TickerEvents(f)) PROVE e.type = "REFERENCE_BBO"
  <2>1. e = BookEvent(f, "REFERENCE_BBO", f.native)
    BY <1>3, <1>7 DEF TickerEvents
  <2>2. QED
    BY <1>2, <2>1
<1>8. ASSUME NEW e \in ToSet(AggTradeEvents(f)) PROVE e.type = "REFERENCE_TRADE"
  <2>1. e = [Event(f, "REFERENCE_TRADE", f.native) EXCEPT !.trade = <<f.symbol, 0, f.native>>]
    BY <1>3, <1>8 DEF AggTradeEvents
  <2>2. QED
    BY <2>1 DEF Event
<1>9. QED
  BY <1>4, <1>5, <1>6, <1>7, <1>8

\* No other parser makes a BBO.
LEMMA OnlyBooks ==
    ASSUME NEW f, NEW e \in ToSet(NormalizeFrame(f).events), e.type = "BBO"
    PROVE  OfBook(f)
<1>1. PICK result : result = NormalizeFrame(f)
  OBVIOUS
<1>2. PICK events : events = result.events
  OBVIOUS
<1>3. e \in ToSet(events) /\ events # <<>>
  BY <1>1, <1>2 DEF ToSet
<1>4. /\ \/ f.src = Hyperliquid /\ result = NormalizeHyperliquid(f)
         \/ f.src = Binance /\ result = NormalizeBinance(f)
      /\ \A code : result # FrameError(f, code)
  <2>1. \A code : result # FrameError(f, code)
    BY <1>2, <1>3, ErrorIsEmpty
  <2>2. QED
    BY <1>1, <2>1 DEF NormalizeFrame
<1>5. ASSUME f.src = Binance, result = NormalizeBinance(f) PROVE FALSE
  <2>1. PICK code : code = FirstFailed(<< KnownAvailability(f), Require(f, "INVALID_JSON"),
                                          Require(f, "INVALID_ENVELOPE") >>, "NONE")
    OBVIOUS
  <2>2. NormalizeBinance(f) =
          CASE code # "NONE" -> Result(f, "ERROR", "PARSER_ERROR", code, <<>>)
            [] code = "NONE" /\ f.channel = "bookTicker" -> Parsed(f, TickerError(f), TickerEvents(f))
            [] code = "NONE" /\ f.channel = "aggTrade" -> Parsed(f, AggTradeError(f), AggTradeEvents(f))
            [] OTHER -> NotApplicable(f)
    BY <2>1 DEF NormalizeBinance
  <2>3. \/ result = Result(f, "ERROR", "PARSER_ERROR", code, <<>>)
        \/ result = Parsed(f, TickerError(f), TickerEvents(f))
        \/ result = Parsed(f, AggTradeError(f), AggTradeEvents(f))
        \/ result = NotApplicable(f)
    BY <1>5, <2>2
  <2>4. events = TickerEvents(f) \/ events = AggTradeEvents(f)
    BY <1>2, <1>3, <2>3, ErrorIsEmpty
  <2>5. QED
    BY <1>3, <2>4, EventTypes
<1>6. f.src = Hyperliquid /\ result = NormalizeHyperliquid(f)
  BY <1>4, <1>5
<1>7. f.channel = "bbo" /\ result.outcome # "ERROR"
  <2>1. PICK code : code = FirstFailed(<< Require(f, "INVALID_JSON"), Require(f, "INVALID_ENVELOPE") >>, "NONE")
    OBVIOUS
  <2>2. NormalizeHyperliquid(f) =
          CASE code # "NONE" -> FrameError(f, code)
            [] code = "NONE" /\ f.channel \in {"l2Book", "bbo"} -> Parsed(f, BookError(f), BookEvents(f))
            [] code = "NONE" /\ f.channel = "trades" -> Parsed(f, TradesError(f), TradeEvents(f))
            [] code = "NONE" /\ f.channel = "activeAssetCtx" -> Parsed(f, ContextError(f), ContextEvents(f))
            [] OTHER -> NotApplicable(f)
    BY <2>1 DEF NormalizeHyperliquid
  <2>3. \/ result = FrameError(f, code)
        \/ f.channel \in {"l2Book", "bbo"} /\ result = Parsed(f, BookError(f), BookEvents(f))
        \/ result = Parsed(f, TradesError(f), TradeEvents(f))
        \/ result = Parsed(f, ContextError(f), ContextEvents(f))
        \/ result = NotApplicable(f)
    BY <1>6, <2>2
  <2>4. \/ f.channel \in {"l2Book", "bbo"} /\ result = Parsed(f, BookError(f), BookEvents(f))
        \/ events = TradeEvents(f)
        \/ events = ContextEvents(f)
    <3>1. result # FrameError(f, code) /\ result # NotApplicable(f)
      BY <1>2, <1>3, ErrorIsEmpty
    <3>2. CASE result = Parsed(f, TradesError(f), TradeEvents(f))
      BY <1>2, <1>3, <3>2, ErrorIsEmpty
    <3>3. CASE result = Parsed(f, ContextError(f), ContextEvents(f))
      BY <1>2, <1>3, <3>3, ErrorIsEmpty
    <3>4. QED
      BY <2>3, <3>1, <3>2, <3>3
  <2>5. f.channel \in {"l2Book", "bbo"} /\ result = Parsed(f, BookError(f), BookEvents(f))
    BY <1>3, <2>4, EventTypes
  <2>6. events = BookEvents(f)
    BY <1>2, <1>3, <2>5, ErrorIsEmpty
  <2>7. f.channel # "l2Book"
    BY <1>3, <2>6, EventTypes
  <2>8. result.outcome # "ERROR"
    <3> SUFFICES ASSUME BookError(f) # "NONE" PROVE FALSE
      BY <2>5 DEF Parsed, Result
    <3>1. events = <<>>
      BY <1>2, <2>5 DEF Parsed, Result
    <3>2. QED
      BY <1>3, <3>1
  <2>9. QED
    BY <2>5, <2>7, <2>8
<1>8. QED
  BY <1>1, <1>6, <1>7, BookIsOne

\* The events of a dataset are those of the results.
LEMMA DatasetHolds ==
    ASSUME NEW results, Listed(results)
    PROVE  ToSet(Dataset(results).events) = UNION {ToSet(results[i].events) : i \in DOMAIN results}
<1>1. PICK sorted : sorted = ByReceipt(results)
  OBVIOUS
<1>2. PICK ss : ss = [i \in DOMAIN sorted |->
        [n \in DOMAIN sorted[i].events |-> [ordinal |-> n, event |-> sorted[i].events[n]]]]
  OBVIOUS
<1>3. PICK records : records = Records(sorted)
  OBVIOUS
<1>4. PICK events : events = [i \in DOMAIN records |-> records[i].event]
  OBVIOUS
<1>5. Dataset(results).events = events
  BY <1>1, <1>3, <1>4 DEF Dataset
<1>6. ToSet(sorted) = ToSet(results)
  <2>1. PICK keys : keys = [i \in DOMAIN results |->
                             Domain(results[i].frame) \o CausalKey(results[i].frame)]
    OBVIOUS
  <2>2. sorted = Sorted(results, keys)
    BY <1>1, <2>1 DEF ByReceipt
  <2>3. IsList(results) /\ Len(results) \in Nat /\ DOMAIN results = 1..Len(results)
    BY ListIsSeq DEF Listed
  <2>4. Len(keys) = Len(results)
    BY <2>1, <2>3
  <2>5. QED
    BY <2>2, <2>3, <2>4, SortedHolds
<1>7. IsList(sorted) /\ \A i \in DOMAIN sorted : IsList(sorted[i].events)
  BY <1>1, ReceiptsAreListed DEF Listed
<1>8. IsList(ss) /\ DOMAIN ss = DOMAIN sorted
  <2>1. ss = [i \in DOMAIN sorted |-> ss[i]]
    BY <1>2
  <2>2. QED
    BY <1>7, <2>1, MappedIsList
<1>9. \A i \in DOMAIN ss : IsList(ss[i])
  <2> SUFFICES ASSUME NEW i \in DOMAIN ss PROVE IsList(ss[i])
    OBVIOUS
  <2>1. ss[i] = [n \in DOMAIN sorted[i].events |-> ss[i][n]]
    BY <1>2, <1>8
  <2>2. IsList(sorted[i].events)
    BY <1>7, <1>8
  <2>3. QED
    BY <2>1, <2>2, MappedIsList
<1>10. ToSet(records) = UNION {ToSet(ss[i]) : i \in DOMAIN ss}
  <2>1. records = FlattenSeq(ss)
    BY <1>2, <1>3 DEF Records
  <2>2. QED
    BY <1>8, <1>9, <2>1, FlattenHolds
<1>11. ASSUME NEW i \in DOMAIN sorted, NEW x
       PROVE  x \in ToSet(sorted[i].events) <=> \E record \in ToSet(ss[i]) : x = record.event
  <2>1. ss[i] = [n \in DOMAIN sorted[i].events |-> [ordinal |-> n, event |-> sorted[i].events[n]]]
    BY <1>2, <1>8
  <2>2. \A n \in DOMAIN sorted[i].events : ss[i][n].event = sorted[i].events[n]
    BY <2>1
  <2>3. DOMAIN ss[i] = DOMAIN sorted[i].events
    BY <2>1
  <2>4. QED
    BY <2>2, <2>3 DEF ToSet
<1>12. ASSUME NEW x
       PROVE  x \in ToSet(events) <=> \E record \in ToSet(records) : x = record.event
  <2>1. DOMAIN events = DOMAIN records /\ \A i \in DOMAIN records : events[i] = records[i].event
    BY <1>4
  <2>2. QED
    BY <2>1 DEF ToSet
<1>13. ASSUME NEW x
       PROVE  x \in ToSet(events) <=> \E i \in DOMAIN sorted : x \in ToSet(sorted[i].events)
  <2>1. x \in ToSet(events) <=> \E i \in DOMAIN ss : \E record \in ToSet(ss[i]) : x = record.event
    BY <1>10, <1>12
  <2>2. \A i \in DOMAIN ss : x \in ToSet(sorted[i].events) <=> \E record \in ToSet(ss[i]) : x = record.event
    BY <1>8, <1>11
  <2>3. QED
    BY <1>8, <2>1, <2>2
<1>14. ASSUME NEW x
       PROVE  (\E i \in DOMAIN sorted : x \in ToSet(sorted[i].events))
                 <=> \E i \in DOMAIN results : x \in ToSet(results[i].events)
  <2>1. (\E i \in DOMAIN sorted : x \in ToSet(sorted[i].events))
           <=> \E result \in ToSet(sorted) : x \in ToSet(result.events)
    BY DEF ToSet
  <2>2. (\E i \in DOMAIN results : x \in ToSet(results[i].events))
           <=> \E result \in ToSet(results) : x \in ToSet(result.events)
    BY DEF ToSet
  <2>3. QED
    BY <1>6, <2>1, <2>2
<1>15. QED
  BY <1>5, <1>13, <1>14

\* Its usable books are the observations of the evidence.
Book(e) == e.type = "BBO" /\ Usable(e)

LEMMA PrimaryBBOHolds ==
    ASSUME NEW ds, IsList(ds.events)
    PROVE  /\ \A k \in DOMAIN PrimaryBBO(ds) :
                 \E e \in ToSet(ds.events) : Book(e) /\ PrimaryBBO(ds)[k] = Observation(e, k)
           /\ \A e \in ToSet(ds.events) : Book(e) =>
                 \E k \in DOMAIN PrimaryBBO(ds) : PrimaryBBO(ds)[k] = Observation(e, k)
<1>1. PICK books : books = OfType(ds, "BBO")
  OBVIOUS
<1>2. PICK usable : usable = Keep(books, {i \in DOMAIN books : Usable(books[i])})
  OBVIOUS
<1>3. PICK bbo : bbo = PrimaryBBO(ds)
  OBVIOUS
<1>4. IsList(books) /\ ToSet(books) = {e \in ToSet(ds.events) : e.type = "BBO"}
  <2>1. PICK P : P = {i \in DOMAIN ds.events : ds.events[i].type = "BBO"}
    OBVIOUS
  <2>2. books = Keep(ds.events, P) /\ P \subseteq DOMAIN ds.events
    BY <1>1, <2>1 DEF OfType
  <2>3. IsList(books) /\ ToSet(books) = {ds.events[i] : i \in P}
    BY <2>2, KeepList, KeepHolds
  <2>4. QED
    BY <2>1, <2>3 DEF ToSet
<1>5. IsList(usable) /\ ToSet(usable) = {e \in ToSet(books) : Usable(e)}
  <2>1. PICK P : P = {i \in DOMAIN books : Usable(books[i])}
    OBVIOUS
  <2>2. usable = Keep(books, P) /\ P \subseteq DOMAIN books
    BY <1>2, <2>1
  <2>3. IsList(usable) /\ ToSet(usable) = {books[i] : i \in P}
    BY <1>4, <2>2, KeepList, KeepHolds
  <2>4. QED
    BY <2>1, <2>3 DEF ToSet
<1>6. bbo = [k \in DOMAIN usable |-> Observation(usable[k], k)]
  BY <1>1, <1>2, <1>3 DEF PrimaryBBO
<1>7. ToSet(usable) = {e \in ToSet(ds.events) : Book(e)}
  BY <1>4, <1>5 DEF Book
<1>8. DOMAIN bbo = DOMAIN usable /\ \A k \in DOMAIN usable : bbo[k] = Observation(usable[k], k)
  BY <1>6
<1>9. /\ \A k \in DOMAIN bbo : \E e \in ToSet(ds.events) : Book(e) /\ bbo[k] = Observation(e, k)
      /\ \A e \in ToSet(ds.events) : Book(e) => \E k \in DOMAIN bbo : bbo[k] = Observation(e, k)
  BY <1>7, <1>8 DEF ToSet
<1>10. QED
  BY <1>3, <1>9

\* A frame as a recorder leaves it at a place of the raw segment.
Raw(f, i) ==
    /\ f.bids \in Seq(Int) /\ f.asks \in Seq(Int)
    /\ f.mono \in Int /\ f.wall \in Int /\ f.host = 1 /\ f.boot = 1 /\ f.offset = i

\* The BBO of such a frame is usable exactly if the frame is a proper book.
LEMMA ProperIsBook ==
    ASSUME NEW f, NEW i, Raw(f, i), OfBook(f), NEW e, e = BookEvent(f, "BBO", 0)
    PROVE  /\ Book(e) <=> Proper(f)
           /\ e.host = 1 /\ e.boot = 1 /\ e.offset = i
           /\ e.mono = f.mono /\ e.wall = f.wall /\ e.bids = f.bids /\ e.asks = f.asks
<1>1. PICK suspect : suspect = Suspect(f.bids, f.asks)
  OBVIOUS
<1>2. PICK availability : availability = Availability(f)
  OBVIOUS
<1>3. e = [[id |-> <<"BBO", f.segment, f.offset, 0>>, type |-> "BBO", src |-> f.src,
            symbol |-> f.symbol, host |-> f.host, boot |-> f.boot, conn |-> f.conn, seq |-> f.seq,
            mono |-> f.mono, wall |-> f.wall, segment |-> f.segment, offset |-> f.offset,
            availability |-> availability, suspect |-> FALSE, bids |-> <<>>, asks |-> <<>>,
            trade |-> <<>>] EXCEPT !.bids = f.bids, !.asks = f.asks, !.suspect = suspect]
  BY <1>1, <1>2, Zenon DEF BookEvent, Event
<1>4. /\ e.type = "BBO" /\ e.src = f.src /\ e.symbol = f.symbol /\ e.suspect = suspect
      /\ e.host = f.host /\ e.boot = f.boot /\ e.offset = f.offset
      /\ e.mono = f.mono /\ e.wall = f.wall /\ e.bids = f.bids /\ e.asks = f.asks
  BY <1>3
<1>5. ~e.suspect <=> ~Suspect(f.bids, f.asks)
  BY <1>1, <1>4, Zenon
<1>6. PICK bids, asks : bids = f.bids /\ asks = f.asks
  OBVIOUS
<1>7. bids \in Seq(Int) /\ asks \in Seq(Int)
  BY <1>6 DEF Raw
<1>8. /\ \A k \in 1..(Len(bids) - 1) : bids[k] \in Int /\ bids[k + 1] \in Int
      /\ \A k \in 1..(Len(asks) - 1) : asks[k] \in Int /\ asks[k + 1] \in Int
  BY <1>7
<1>9. PICK bid, ask : bid = Side(bids) /\ ask = Side(asks)
  OBVIOUS
<1>10. /\ bids # <<>> => bid = bids[1] /\ bids[1] \in Int
       /\ asks # <<>> => ask = asks[1] /\ asks[1] \in Int
       /\ bids = <<>> => bid = 0
       /\ asks = <<>> => ask = 0
  BY <1>7, <1>9 DEF Side, NoLevel
<1>11. ASSUME bid > 0, ask > bid
       PROVE  Suspect(bids, asks) <=> ~(Falling(bids) /\ Rising(asks))
  <2>1. ~(bids[1] >= asks[1])
    BY <1>10, <1>11
  <2>2. Falling(bids) <=> ~\E k \in 1..(Len(bids) - 1) : bids[k] < bids[k + 1]
    BY <1>8 DEF Falling
  <2>3. Rising(asks) <=> ~\E k \in 1..(Len(asks) - 1) : asks[k] > asks[k + 1]
    BY <1>8 DEF Rising
  <2>4. QED
    BY <2>1, <2>2, <2>3 DEF Suspect
<1>12. (bid > 0 /\ ask > bid) <=> (bids # <<>> /\ asks # <<>> /\ 0 < bids[1] /\ bids[1] < asks[1])
  BY <1>10
<1>13. Book(e) <=> /\ f.symbol = Primary /\ ~Suspect(bids, asks) /\ bid > 0 /\ ask > bid
  BY <1>4, <1>5, <1>6, <1>9 DEF Book, Usable, OfBook
<1>14. Proper(f) <=> /\ f.symbol = Primary /\ Falling(bids) /\ Rising(asks)
                     /\ bids # <<>> /\ asks # <<>> /\ 0 < bids[1] /\ bids[1] < asks[1]
  BY <1>6 DEF Proper, OfBook
<1>15. Book(e) <=> Proper(f)
  BY <1>11, <1>12, <1>13, <1>14
<1>16. QED
  BY <1>4, <1>15 DEF Raw

\* The observations of a capture show its proper books, and nothing else.
Shown(bbo, frames) ==
    /\ \A k \in DOMAIN bbo :
          /\ <<bbo[k].host, bbo[k].boot>> = <<1, 1>> /\ bbo[k].offset \in DOMAIN frames
          /\ bbo[k].mono \in Int /\ bbo[k].wall \in Int
          /\ Stands(bbo[k], frames[bbo[k].offset])
    /\ \A i \in DOMAIN frames : Proper(frames[i]) =>
          \E k \in DOMAIN bbo : bbo[k].mono = frames[i].mono

LEMMA FramesAreRaw ==
    ASSUME NEW c \in DOMAIN Captures, NEW r, NEW start \in Int, NEW i \in DOMAIN FramesOf(c, r, start)
    PROVE  Raw(FramesOf(c, r, start)[i], i)
<1>1. PICK f : f = FramesOf(c, r, start)[i]
  OBVIOUS
<1>2. Captures[c] \in Seq(Finds)
  BY FrontierAssumption
<1>3. i \in DOMAIN Captures[c] /\ f = RawFrame(Captures[c][i], r, i, start)
  BY <1>1 DEF FramesOf
<1>4. Captures[c][i] \in Finds
  BY <1>2, <1>3
<1>5. PICK find : find = Captures[c][i]
  OBVIOUS
<1>6. find.bids \in Seq(Int) /\ find.asks \in Seq(Int) /\ find.mono \in Nat /\ find.lapse \in Int
  BY <1>4, <1>5 DEF Finds
<1>7. /\ f.bids = find.bids /\ f.asks = find.asks /\ f.mono = find.mono /\ f.wall = start + find.lapse
      /\ f.host = 1 /\ f.boot = 1 /\ f.offset = i
  BY <1>3, <1>5 DEF RawFrame
<1>8. Raw(f, i)
  BY <1>6, <1>7 DEF Raw
<1>9. QED
  BY <1>1, <1>8

LEMMA BooksAreShown ==
    ASSUME NEW c \in DOMAIN Captures, NEW r, NEW start \in Int, Errors(ResultsOf(c, r, start)) = {}
    PROVE  Shown(PrimaryBBO(Dataset(ResultsOf(c, r, start))), FramesOf(c, r, start))
<1>1. PICK frames : frames = FramesOf(c, r, start)
  OBVIOUS
<1>2. PICK results : results = ResultsOf(c, r, start)
  OBVIOUS
<1>3. PICK ds : ds = Dataset(results)
  OBVIOUS
<1>4. PICK bbo : bbo = PrimaryBBO(ds)
  OBVIOUS
<1>5. results = [i \in DOMAIN frames |-> NormalizeFrame(frames[i])]
  BY <1>1, <1>2 DEF ResultsOf, NormalizeFrames
<1>6. DOMAIN results = DOMAIN frames /\ \A i \in DOMAIN frames : results[i] = NormalizeFrame(frames[i])
  BY <1>5
<1>7. \A i \in DOMAIN frames : NormalizeFrame(frames[i]).outcome # "ERROR"
  BY <1>2, <1>6 DEF Errors
<1>8. \A i \in DOMAIN frames : Raw(frames[i], i)
  BY <1>1, FramesAreRaw
<1>9. Listed(results)
  BY <1>2, ResultsAreListed
<1>10. IsList(ds.events) /\ ToSet(ds.events) = UNION {ToSet(results[i].events) : i \in DOMAIN results}
  BY <1>3, <1>9, DatasetIsListed, DatasetHolds
<1>11. /\ \A k \in DOMAIN bbo : \E e \in ToSet(ds.events) : Book(e) /\ bbo[k] = Observation(e, k)
       /\ \A e \in ToSet(ds.events) : Book(e) => \E k \in DOMAIN bbo : bbo[k] = Observation(e, k)
  BY <1>4, <1>10, PrimaryBBOHolds
<1>12. ASSUME NEW e, NEW k
       PROVE  /\ Observation(e, k).host = e.host /\ Observation(e, k).boot = e.boot
              /\ Observation(e, k).offset = e.offset
              /\ Observation(e, k).mono = e.mono /\ Observation(e, k).wall = e.wall
              /\ Observation(e, k).bid = Side(e.bids) /\ Observation(e, k).ask = Side(e.asks)
  BY DEF Observation
<1>13. ASSUME NEW k \in DOMAIN bbo
       PROVE  /\ <<bbo[k].host, bbo[k].boot>> = <<1, 1>> /\ bbo[k].offset \in DOMAIN frames
              /\ bbo[k].mono \in Int /\ bbo[k].wall \in Int
              /\ Stands(bbo[k], frames[bbo[k].offset])
  <2>1. PICK e \in ToSet(ds.events) : Book(e) /\ bbo[k] = Observation(e, k)
    BY <1>11
  <2>2. PICK i \in DOMAIN frames : e \in ToSet(NormalizeFrame(frames[i]).events)
    BY <1>6, <1>10
  <2>3. PICK f : f = frames[i]
    OBVIOUS
  <2>4. OfBook(f)
    <3>1. e.type = "BBO" /\ e \in ToSet(NormalizeFrame(f).events)
      BY <2>1, <2>2, <2>3 DEF Book
    <3>2. QED
      BY <3>1, OnlyBooks
  <2>5. e = BookEvent(f, "BBO", 0)
    <3>1. PICK b : b = BookEvent(f, "BBO", 0)
      OBVIOUS
    <3>2. e \in ToSet(<<b>>)
      BY <2>2, <2>3, <2>4, <3>1 DEF OfBook
    <3>3. DOMAIN <<b>> = {1} /\ <<b>>[1] = b
      OBVIOUS
    <3>4. QED
      BY <3>1, <3>2, <3>3 DEF ToSet
  <2>6. Raw(f, i)
    BY <1>8, <2>3
  <2>7. /\ Book(e) <=> Proper(f)
        /\ e.host = 1 /\ e.boot = 1 /\ e.offset = i
        /\ e.mono = f.mono /\ e.wall = f.wall /\ e.bids = f.bids /\ e.asks = f.asks
    BY <2>4, <2>5, <2>6, ProperIsBook
  <2>8. /\ bbo[k].host = 1 /\ bbo[k].boot = 1 /\ bbo[k].offset = i
        /\ bbo[k].mono = f.mono /\ bbo[k].wall = f.wall
        /\ bbo[k].bid = Side(f.bids) /\ bbo[k].ask = Side(f.asks)
    BY <1>12, <2>1, <2>7
  <2>9. Proper(f)
    BY <2>1, <2>7
  <2>10. Side(f.bids) = f.bids[1] /\ Side(f.asks) = f.asks[1]
    BY <2>9 DEF Proper, Side
  <2>11. f.mono \in Int /\ f.wall \in Int
    BY <2>6 DEF Raw
  <2>12. Stands(bbo[k], f)
    BY <2>8, <2>9, <2>10 DEF Stands
  <2>13. QED
    BY <2>3, <2>8, <2>11, <2>12
<1>14. ASSUME NEW i \in DOMAIN frames, Proper(frames[i])
       PROVE  \E k \in DOMAIN bbo : bbo[k].mono = frames[i].mono
  <2>1. PICK f : f = frames[i]
    OBVIOUS
  <2>2. OfBook(f)
    <3>1. f.src = Hyperliquid /\ f.channel = "bbo" /\ NormalizeFrame(f).outcome # "ERROR"
      BY <1>7, <1>14, <2>1 DEF Proper
    <3>2. QED
      BY <3>1, BookIsOne
  <2>3. PICK e : e = BookEvent(f, "BBO", 0)
    OBVIOUS
  <2>4. e \in ToSet(ds.events)
    <3>1. NormalizeFrame(f).events = <<e>>
      BY <2>2, <2>3 DEF OfBook
    <3>2. DOMAIN <<e>> = {1} /\ <<e>>[1] = e
      OBVIOUS
    <3>3. e \in ToSet(NormalizeFrame(f).events)
      BY <3>1, <3>2 DEF ToSet
    <3>4. QED
      BY <1>6, <1>10, <2>1, <3>3
  <2>5. Raw(f, i)
    BY <1>8, <2>1
  <2>6. Book(e) /\ e.mono = f.mono
    BY <1>14, <2>1, <2>2, <2>3, <2>5, ProperIsBook
  <2>7. PICK k \in DOMAIN bbo : bbo[k] = Observation(e, k)
    BY <1>11, <2>4, <2>6
  <2>8. QED
    BY <1>12, <2>1, <2>6, <2>7
<1>15. Shown(bbo, frames)
  BY <1>13, <1>14 DEF Shown
<1>16. QED
  BY <1>1, <1>2, <1>3, <1>4, <1>15
-----------------------------------------------------------------------------
(* The walk *)

\* A list for each of n places: it stops there, or goes on with that of a place
\* behind it.
Onward(n, stops, next) == \A i \in 1..n : i \notin stops => next[i] \in (i + 1)..n
Built(f, n, stops, head, next) ==
    f = [i \in 1..n |-> IF i \in stops THEN <<>> ELSE <<head[i]>> \o f[next[i]]]

LEMMA BuiltExists ==
    ASSUME NEW n \in Nat, NEW stops, NEW head, NEW next, Onward(n, stops, next)
    PROVE  \E f : Built(f, n, stops, head, next)
<1> DEFINE Body(f, i) == IF i \in stops THEN <<>> ELSE <<head[i]>> \o f[next[i]]
<1> DEFINE S == {k \in 0..n : \E f : \A i \in 1..n : n - k < i => f[i] = Body(f, i)}
<1>1. 0 \in S
  <2>1. \A i \in 1..n : ~(n - 0 < i)
    OBVIOUS
  <2>2. 0 \in 0..n
    OBVIOUS
  <2> HIDE DEF Body
  <2>3. QED
    BY <2>1, <2>2
<1>2. \A k \in 0..n : k < n /\ k \in S => k + 1 \in S
  <2> SUFFICES ASSUME NEW k \in 0..n, k < n, k \in S PROVE k + 1 \in S
    OBVIOUS
  <2>1. PICK f : \A i \in 1..n : n - k < i => f[i] = Body(f, i)
    OBVIOUS
  <2> DEFINE m == n - k
  <2> DEFINE g == [i \in 1..n |-> IF i = m THEN Body(f, m) ELSE f[i]]
  <2>2. /\ m \in 1..n /\ k + 1 \in 0..n
        /\ \A i \in 1..n : n - (k + 1) < i => i = m \/ (n - k < i /\ i # m)
        /\ \A i \in Int : i \in (m + 1)..n => i # m
    <3> HIDE DEF S, g, Body
    <3>1. QED
      OBVIOUS
  <2>3. \A i \in 1..n : g[i] = IF i = m THEN Body(f, m) ELSE f[i]
    OBVIOUS
  <2> HIDE DEF g, S
  <2>4. ASSUME NEW i \in 1..n, n - (k + 1) < i PROVE Body(g, i) = Body(f, i)
    <3>1. CASE i \in stops
      BY <3>1
    <3>2. CASE i \notin stops
      <4>1. next[i] \in (i + 1)..n
        BY <3>2 DEF Onward
      <4>2. next[i] \in 1..n /\ next[i] # m
        BY <2>2, <2>4, <4>1
      <4>3. g[next[i]] = f[next[i]]
        BY <2>3, <4>2
      <4>4. QED
        BY <4>3
    <3>3. QED
      BY <3>1, <3>2
  <2> HIDE DEF Body
  <2>5. \A i \in 1..n : n - (k + 1) < i => g[i] = Body(g, i)
    <3> SUFFICES ASSUME NEW i \in 1..n, n - (k + 1) < i PROVE g[i] = Body(g, i)
      OBVIOUS
    <3>1. CASE i = m
      BY <2>3, <2>4, <3>1
    <3>2. CASE i # m
      <4>1. f[i] = Body(f, i)
        BY <2>1, <2>2, <3>2
      <4>2. QED
        BY <2>3, <2>4, <3>2, <4>1
    <3>3. QED
      BY <3>1, <3>2
  <2>6. QED
    BY <2>2, <2>5 DEF S
<1>3. PICK f : \A i \in 1..n : n - n < i => f[i] = Body(f, i)
  <2> HIDE DEF S
  <2>1. \A k \in 0..n : k \in S
    BY <1>1, <1>2, UpTo
  <2>2. n \in S
    BY <2>1
  <2>3. QED
    BY <2>2 DEF S
<1> DEFINE g == [i \in 1..n |-> f[i]]
<1>4. \A i \in 1..n : f[i] = Body(f, i) /\ g[i] = f[i]
  BY <1>3
<1>5. \A i \in 1..n : Body(g, i) = Body(f, i)
  <2> HIDE DEF g
  <2> SUFFICES ASSUME NEW i \in 1..n PROVE Body(g, i) = Body(f, i)
    OBVIOUS
  <2>1. i \notin stops => next[i] \in 1..n
    <3>1. i \notin stops => next[i] \in (i + 1)..n
      BY DEF Onward
    <3>2. QED
      BY <3>1
  <2>2. QED
    BY <1>4, <2>1
<1>6. g = [i \in 1..n |-> Body(g, i)]
  <2>1. [i \in 1..n |-> f[i]] = [i \in 1..n |-> Body(g, i)]
    <3> HIDE DEF Body, g
    <3>1. QED
      BY <1>4, <1>5
  <2>2. QED
    BY <2>1
<1>7. Built(g, n, stops, head, next)
  <2> HIDE DEF g
  <2>1. QED
    BY <1>6 DEF Built
<1>8. QED
  BY <1>7

\* The places a list is of, each at or behind the one the place before goes on at.
Visits(s, at, i, n, stops, head, next) ==
    /\ s \in Seq({head[p] : p \in 1..n}) /\ at \in [1..Len(s) -> i..n]
    /\ \A k \in 1..Len(s) : at[k] \notin stops /\ s[k] = head[at[k]]
    /\ \A k, l \in 1..Len(s) : k < l => next[at[k]] <= at[l]

LEMMA OneMoreVisit ==
    ASSUME NEW n \in Nat, NEW i \in 1..n, NEW stops, NEW head, NEW next,
           i \notin stops, next[i] \in (i + 1)..n,
           NEW s, NEW at, Visits(s, at, next[i], n, stops, head, next)
    PROVE  \E to : Visits(<<head[i]>> \o s, to, i, n, stops, head, next)
<1>1. PICK S : S = {head[p] : p \in 1..n}
  OBVIOUS
<1>2. /\ s \in Seq(S) /\ at \in [1..Len(s) -> next[i]..n]
      /\ \A k \in 1..Len(s) : at[k] \notin stops /\ s[k] = head[at[k]]
      /\ \A k, l \in 1..Len(s) : k < l => next[at[k]] <= at[l]
  BY <1>1 DEF Visits
<1>3. PICK m : m = Len(s)
  OBVIOUS
<1>4. m \in Nat /\ next[i] \in Int /\ i < next[i] /\ i \in Int
  BY <1>2, <1>3
<1>5. PICK r : r = <<head[i]>> \o s
  OBVIOUS
<1>6. /\ r \in Seq(S) /\ Len(r) = m + 1 /\ r[1] = head[i]
      /\ \A k \in 2..(m + 1) : r[k] = s[k - 1]
  <2>1. <<head[i]>> \in Seq(S) /\ Len(<<head[i]>>) = 1 /\ <<head[i]>>[1] = head[i]
    BY <1>1
  <2>2. r \in Seq(S) /\ Len(r) = 1 + m
    BY <1>2, <1>3, <1>5, <2>1, ConcatProperties
  <2>3. \A k \in 1..(1 + m) : r[k] = IF k <= 1 THEN <<head[i]>>[k] ELSE s[k - 1]
    BY <1>2, <1>3, <1>5, <2>1, ConcatProperties
  <2>4. QED
    BY <1>4, <2>1, <2>2, <2>3
<1>7. PICK to : to = [k \in 1..(m + 1) |-> IF k = 1 THEN i ELSE at[k - 1]]
  OBVIOUS
<1>8. to[1] = i /\ \A k \in 2..(m + 1) : to[k] = at[k - 1] /\ k - 1 \in 1..m /\ at[k - 1] \in next[i]..n
  <2>1. \A k \in 2..(m + 1) : k - 1 \in 1..m /\ k \in 1..(m + 1) /\ k # 1
    BY <1>4
  <2>2. \A k \in 1..m : at[k] \in next[i]..n
    BY <1>2, <1>3
  <2>3. 1 \in 1..(m + 1)
    BY <1>4
  <2>4. QED
    BY <1>7, <2>1, <2>2, <2>3
<1>9. \A k \in 1..(m + 1) : k = 1 \/ k \in 2..(m + 1)
  BY <1>4
<1>10. to \in [1..Len(r) -> i..n]
  <2>1. \A k \in 1..(m + 1) : to[k] \in i..n
    BY <1>4, <1>8, <1>9
  <2>2. to \in [1..(m + 1) -> i..n]
    BY <1>7, <2>1
  <2>3. QED
    BY <1>6, <2>2
<1>11. ASSUME NEW k \in 1..Len(r) PROVE to[k] \notin stops /\ r[k] = head[to[k]]
  <2>1. CASE k = 1
    BY <1>6, <1>8, <2>1
  <2>2. CASE k \in 2..(m + 1)
    <3>1. k - 1 \in 1..Len(s) /\ to[k] = at[k - 1] /\ r[k] = s[k - 1]
      BY <1>3, <1>6, <1>8, <2>2
    <3>2. QED
      BY <1>2, <3>1
  <2>3. QED
    BY <1>6, <1>9, <2>1, <2>2
<1>12. ASSUME NEW k \in 1..Len(r), NEW l \in 1..Len(r), k < l PROVE next[to[k]] <= to[l]
  <2>1. l \in 2..(m + 1) /\ to[l] = at[l - 1] /\ l - 1 \in 1..m /\ at[l - 1] \in next[i]..n
    BY <1>4, <1>6, <1>8, <1>12
  <2>2. CASE k = 1
    BY <1>4, <1>8, <2>1, <2>2
  <2>3. CASE k \in 2..(m + 1)
    <3>1. k - 1 \in 1..m /\ to[k] = at[k - 1] /\ k - 1 < l - 1
      BY <1>8, <1>12, <2>1, <2>3
    <3>2. QED
      BY <1>2, <1>3, <2>1, <3>1
  <2>4. QED
    BY <1>6, <1>9, <2>2, <2>3
<1>13. r \in Seq({head[p] : p \in 1..n})
  BY <1>1, <1>6
<1>14. Visits(r, to, i, n, stops, head, next)
  BY <1>10, <1>11, <1>12, <1>13 DEF Visits
<1>15. QED
  BY <1>5, <1>14

\* Each of the lists goes through places in that order.
LEMMA BuiltVisits ==
    ASSUME NEW n \in Nat, NEW stops, NEW head, NEW next, Onward(n, stops, next),
           NEW f, Built(f, n, stops, head, next)
    PROVE  \A i \in 1..n : \E at : Visits(f[i], at, i, n, stops, head, next)
<1> DEFINE S == {k \in 0..n : \A i \in 1..n : n - k < i =>
                                 \E at : Visits(f[i], at, i, n, stops, head, next)}
<1>1. \A i \in 1..n : f[i] = IF i \in stops THEN <<>> ELSE <<head[i]>> \o f[next[i]]
  BY DEF Built
<1>2. 0 \in S
  OBVIOUS
<1>3. \A k \in 0..n : k < n /\ k \in S => k + 1 \in S
  <2> SUFFICES ASSUME NEW k \in 0..n, k < n, k \in S PROVE k + 1 \in S
    OBVIOUS
  <2>1. \A j \in 1..n : n - k < j => \E at : Visits(f[j], at, j, n, stops, head, next)
    OBVIOUS
  <2>0. k + 1 \in 0..n
    OBVIOUS
  <2> SUFFICES ASSUME NEW i \in 1..n, n - (k + 1) < i
               PROVE  \E at : Visits(f[i], at, i, n, stops, head, next)
    BY <2>0
  <2> HIDE DEF S
  <2>2. CASE i \in stops
    <3>1. f[i] = <<>>
      BY <1>1, <2>2
    <3>2. PICK S0 : S0 = {head[p] : p \in 1..n}
      OBVIOUS
    <3>3. f[i] \in Seq(S0) /\ 1..Len(f[i]) = {}
      BY <3>1
    <3>4. f[i] \in Seq({head[p] : p \in 1..n})
      BY <3>2, <3>3
    <3>5. <<>> \in [1..Len(f[i]) -> i..n]
      BY <3>1
    <3>6. Visits(f[i], <<>>, i, n, stops, head, next)
      BY <3>3, <3>4, <3>5 DEF Visits
    <3>7. QED
      BY <3>6
  <2>3. CASE i \notin stops
    <3>1. next[i] \in (i + 1)..n
      BY <2>3 DEF Onward
    <3>2. next[i] \in 1..n /\ n - k < next[i]
      BY <3>1
    <3>3. PICK at : Visits(f[next[i]], at, next[i], n, stops, head, next)
      BY <2>1, <3>2
    <3>4. \E to : Visits(<<head[i]>> \o f[next[i]], to, i, n, stops, head, next)
      BY <2>3, <3>1, <3>3, OneMoreVisit
    <3>5. QED
      BY <1>1, <2>3, <3>4
  <2>4. QED
    BY <2>2, <2>3
<1>4. n \in S
  <2> HIDE DEF S
  <2>1. \A k \in 0..n : k \in S
    BY <1>2, <1>3, UpTo
  <2>2. QED
    BY <2>1
<1>5. QED
  BY <1>4

\* The end of a window is behind its start.
LEMMA EndIsBehind ==
    ASSUME NEW q, NEW n \in Nat, Len(q) = n, NEW i \in 1..n, NEW horizon, EndsOf(q, i, horizon) # {}
    PROVE  EndOf(q, i, horizon) \in (i + 1)..n
<1> PICK E : E = EndsOf(q, i, horizon)
  OBVIOUS
<1>1. E \subseteq (i + 1)..n /\ E # {}
  BY DEF EndsOf
<1>2. \A j \in (i + 1)..n : j \in Nat
  OBVIOUS
<1>3. \E j \in E : \A k \in E : j <= k
  <2>1. E \subseteq Nat
    BY <1>1, <1>2
  <2>2. QED
    BY <1>1, <2>1, LeastNat
<1>4. Min(E) \in E
  BY <1>3 DEF Min
<1>5. QED
  BY <1>1, <1>4 DEF EndOf

\* What the walk over q is built from.
WalkStops(q) ==
    {i \in 1..Len(q) : \/ i = Len(q) \/ q[i].mono + Horizon > q[Len(q)].mono
                       \/ EndsOf(q, i, Horizon) = {}}
WalkHead(q) == [i \in 1..Len(q) |-> Candidate(q, i)]
WalkNext(q) ==
    [i \in 1..Len(q) |-> IF Candidate(q, i).gap THEN i + 1 ELSE Resume(i, EndOf(q, i, Horizon))]

LEMMA WalkIsBuilt ==
    ASSUME NEW q, IsList(q)
    PROVE  /\ Len(q) \in Nat /\ Onward(Len(q), WalkStops(q), WalkNext(q))
           /\ \E f : /\ Built(f, Len(q), WalkStops(q), WalkHead(q), WalkNext(q))
                     /\ WalkLoop(q) = f[1]
<1> DEFINE n == Len(q)
<1> DEFINE stops == WalkStops(q)
<1> DEFINE head == WalkHead(q)
<1> DEFINE next == WalkNext(q)
<1> DEFINE from == CHOOSE f : f = [i \in 1..Len(q) |->
        IF \/ i = Len(q) \/ q[i].mono + Horizon > q[Len(q)].mono
           \/ EndsOf(q, i, Horizon) = {}
        THEN <<>>
        ELSE <<Candidate(q, i)>>
             \o f[IF Candidate(q, i).gap THEN i + 1 ELSE Resume(i, EndOf(q, i, Horizon))]]
<1>1. n \in Nat
  BY ListIsSeq
<1>2. WalkLoop(q) = from[1]
  BY DEF WalkLoop
<1>3. ASSUME NEW f
      PROVE  Built(f, n, stops, head, next) <=> f = [i \in 1..Len(q) |->
                IF \/ i = Len(q) \/ q[i].mono + Horizon > q[Len(q)].mono
                   \/ EndsOf(q, i, Horizon) = {}
                THEN <<>>
                ELSE <<Candidate(q, i)>>
                     \o f[IF Candidate(q, i).gap THEN i + 1 ELSE Resume(i, EndOf(q, i, Horizon))]]
  <2>1. \A i \in 1..n : (IF i \in stops THEN <<>> ELSE <<head[i]>> \o f[next[i]]) =
            IF \/ i = Len(q) \/ q[i].mono + Horizon > q[Len(q)].mono
               \/ EndsOf(q, i, Horizon) = {}
            THEN <<>>
            ELSE <<Candidate(q, i)>>
                 \o f[IF Candidate(q, i).gap THEN i + 1 ELSE Resume(i, EndOf(q, i, Horizon))]
    BY DEF WalkStops, WalkHead, WalkNext
  <2>2. [i \in 1..n |-> IF i \in stops THEN <<>> ELSE <<head[i]>> \o f[next[i]]] =
        [i \in 1..Len(q) |->
            IF \/ i = Len(q) \/ q[i].mono + Horizon > q[Len(q)].mono
               \/ EndsOf(q, i, Horizon) = {}
            THEN <<>>
            ELSE <<Candidate(q, i)>>
                 \o f[IF Candidate(q, i).gap THEN i + 1 ELSE Resume(i, EndOf(q, i, Horizon))]]
    BY <2>1
  <2> HIDE DEF stops, head, next
  <2>3. QED
    BY <2>2 DEF Built
<1>4. Onward(n, stops, next)
  <2> SUFFICES ASSUME NEW i \in 1..n, i \notin stops PROVE next[i] \in (i + 1)..n
    BY DEF Onward
  <2>1. i # n /\ EndsOf(q, i, Horizon) # {}
    BY DEF WalkStops
  <2>2. EndOf(q, i, Horizon) \in (i + 1)..n
    BY <1>1, <2>1, EndIsBehind
  <2>3. i + 1 \in (i + 1)..n
    BY <1>1, <2>1
  <2>4. QED
    BY <2>2, <2>3 DEF Resume, WalkNext
<1> HIDE DEF stops, head, next
<1>5. \E f : Built(f, n, stops, head, next)
  BY <1>1, <1>4, BuiltExists
<1>6. Built(from, n, stops, head, next)
  BY <1>3, <1>5
<1> HIDE DEF from
<1>7. QED
  BY <1>1, <1>2, <1>4, <1>6 DEF stops, head, next

LEMMA WalkVisits ==
    ASSUME NEW q, IsList(q)
    PROVE  \/ Walk(q) = <<>>
           \/ \E at : Visits(Walk(q), at, 1, Len(q), WalkStops(q), WalkHead(q), WalkNext(q))
<1>1. CASE Len(q) < 2 \/ Deltas(q) = <<>>
  BY <1>1 DEF Walk
<1>2. CASE ~(Len(q) < 2 \/ Deltas(q) = <<>>)
  <2>1. PICK n, stops, head, next :
           n = Len(q) /\ stops = WalkStops(q) /\ head = WalkHead(q) /\ next = WalkNext(q)
    OBVIOUS
  <2>2. n \in Nat /\ Onward(n, stops, next)
    BY <2>1, WalkIsBuilt
  <2>3. PICK f : Built(f, n, stops, head, next) /\ WalkLoop(q) = f[1]
    BY <2>1, WalkIsBuilt
  <2>4. Walk(q) = f[1] /\ 1 \in 1..n
    BY <1>2, <2>1, <2>2, <2>3 DEF Walk
  <2>5. \A i \in 1..n : \E at : Visits(f[i], at, i, n, stops, head, next)
    BY <2>2, <2>3, BuiltVisits
  <2>6. \E at : Visits(Walk(q), at, 1, n, stops, head, next)
    BY <2>4, <2>5
  <2>7. QED
    BY <2>1, <2>6
<1>3. QED
  BY <1>1, <1>2

\* The starts the walk may have, and its candidates.
Starting(q) == {i \in 1..Len(q) : EndsOf(q, i, Horizon) # {}}
CandidatesOf(q) == {Candidate(q, i) : i \in Starting(q)}

LEMMA WalkHolds ==
    ASSUME NEW q, IsList(q)
    PROVE  ToSet(Walk(q)) \subseteq CandidatesOf(q)
<1>1. CASE Walk(q) = <<>>
  BY <1>1 DEF ToSet
<1>2. CASE Walk(q) # <<>>
  <2> SUFFICES ASSUME NEW c \in ToSet(Walk(q)) PROVE c \in CandidatesOf(q)
    OBVIOUS
  <2>1. PICK at : Visits(Walk(q), at, 1, Len(q), WalkStops(q), WalkHead(q), WalkNext(q))
    BY <1>2, WalkVisits
  <2>2. PICK s : s = Walk(q)
    OBVIOUS
  <2>3. /\ s \in Seq({WalkHead(q)[p] : p \in 1..Len(q)}) /\ at \in [1..Len(s) -> 1..Len(q)]
        /\ \A k \in 1..Len(s) : at[k] \notin WalkStops(q) /\ s[k] = WalkHead(q)[at[k]]
    BY <2>1, <2>2, Zenon DEF Visits
  <2>4. DOMAIN s = 1..Len(s)
    BY <2>3
  <2>5. PICK k \in 1..Len(s) : c = s[k]
    BY <2>2, <2>4 DEF ToSet
  <2>6. at[k] \in 1..Len(q) /\ at[k] \notin WalkStops(q) /\ c = WalkHead(q)[at[k]]
    BY <2>3, <2>5
  <2>7. c = Candidate(q, at[k]) /\ EndsOf(q, at[k], Horizon) # {}
    BY <2>6 DEF WalkStops, WalkHead
  <2>8. QED
    BY <2>6, <2>7 DEF CandidatesOf, Starting
<1>3. QED
  BY <1>1, <1>2

\* Observations by monotonic time.
ByTime(q) == /\ \A k \in 1..Len(q) : q[k].mono \in Int
             /\ \A k, l \in 1..Len(q) : k < l => q[k].mono <= q[l].mono

\* The candidates of a walk that are no gaps do not overlap.
LEMMA WalkIsApart ==
    ASSUME NEW q, IsList(q), ByTime(q), NEW b \in ToSet(Walk(q)), NEW c \in ToSet(Walk(q)),
           ~b.gap, ~c.gap, b # c
    PROVE  b.end.mono <= c.start.mono \/ c.end.mono <= b.start.mono
<1>1. Walk(q) # <<>>
  BY DEF ToSet
<1>2. PICK at : Visits(Walk(q), at, 1, Len(q), WalkStops(q), WalkHead(q), WalkNext(q))
  BY <1>1, WalkVisits
<1>3. PICK s : s = Walk(q)
  OBVIOUS
<1>4. /\ s \in Seq({WalkHead(q)[p] : p \in 1..Len(q)}) /\ at \in [1..Len(s) -> 1..Len(q)]
      /\ \A k \in 1..Len(s) : at[k] \notin WalkStops(q) /\ s[k] = WalkHead(q)[at[k]]
      /\ \A k, l \in 1..Len(s) : k < l => WalkNext(q)[at[k]] <= at[l]
  BY <1>2, <1>3, Zenon DEF Visits
<1>5. DOMAIN s = 1..Len(s) /\ Len(s) \in Nat /\ Len(q) \in Nat
  BY <1>4, ListIsSeq
<1>6. ASSUME NEW k \in 1..Len(s), NEW l \in 1..Len(s), k < l, ~s[k].gap
      PROVE  s[k].end.mono <= s[l].start.mono
  <2>1. PICK i, j : i = at[k] /\ j = at[l]
    OBVIOUS
  <2>2. i \in 1..Len(q) /\ j \in 1..Len(q) /\ i \notin WalkStops(q)
    BY <1>4, <2>1
  <2>3. s[k] = Candidate(q, i) /\ s[l] = Candidate(q, j)
    BY <1>4, <2>1, <2>2 DEF WalkHead
  <2>4. EndsOf(q, i, Horizon) # {}
    BY <2>2 DEF WalkStops
  <2>5. PICK e : e = EndOf(q, i, Horizon)
    OBVIOUS
  <2>6. e \in (i + 1)..Len(q)
    BY <1>5, <2>2, <2>4, <2>5, EndIsBehind
  <2>7. WalkNext(q)[i] = e
    BY <1>6, <2>2, <2>3, <2>5 DEF WalkNext, Resume
  <2>8. e <= j /\ e \in 1..Len(q)
    BY <1>4, <1>6, <2>1, <2>2, <2>6, <2>7
  <2>9. q[e].mono <= q[j].mono
    BY <2>2, <2>8 DEF ByTime
  <2>10. s[k].end = q[e] /\ s[l].start = q[j]
    BY <2>3, <2>5 DEF Candidate
  <2>11. QED
    BY <2>9, <2>10
<1>7. PICK k \in 1..Len(s) : b = s[k]
  BY <1>3, <1>5 DEF ToSet
<1>8. PICK l \in 1..Len(s) : c = s[l]
  BY <1>3, <1>5 DEF ToSet
<1>9. k < l \/ l < k
  BY <1>5, <1>7, <1>8
<1>10. QED
  BY <1>6, <1>7, <1>8, <1>9

\* The observations of one domain, in the order of the walk.
Queue(bbo, d) == ByMono(InDomain(bbo, d))

\* Observations of a domain, each once.
Drawn(q, bbo, d) ==
    /\ IsList(q)
    /\ \A k \in 1..Len(q) : <<q[k].host, q[k].boot>> = d /\ \E i \in DOMAIN bbo : q[k] = bbo[i]
    /\ \A k, l \in 1..Len(q) : q[k].event = q[l].event => k = l

LEMMA QueueIsDrawn ==
    ASSUME NEW bbo, Rows(bbo), NEW d
    PROVE  Drawn(Queue(bbo, d), bbo, d)
<1>1. PICK P : P = {i \in DOMAIN bbo : <<bbo[i].host, bbo[i].boot>> = d}
  OBVIOUS
<1>2. PICK s : s = InDomain(bbo, d)
  OBVIOUS
<1>3. PICK keys : keys = [i \in DOMAIN s |-> <<s[i].mono, s[i].wall, s[i].event>>]
  OBVIOUS
<1>4. IsList(bbo) /\ (\A i \in DOMAIN bbo : bbo[i].event = i) /\ DOMAIN bbo = 1..Len(bbo)
  BY ListIsSeq DEF Rows
<1>5. P \subseteq DOMAIN bbo /\ \A i \in P : <<bbo[i].host, bbo[i].boot>> = d
  BY <1>1
<1>6. s = Keep(bbo, P)
  BY <1>1, <1>2 DEF InDomain
<1>7. IsList(Keep(bbo, P)) /\ \E g : Kept(Keep(bbo, P), bbo, P, g)
  BY <1>4, <1>5, KeepList
<1>8. PICK g : Kept(s, bbo, P, g)
  BY <1>6, <1>7
<1>9. /\ g \in [1..Len(s) -> P]
      /\ \A k \in 1..Len(s) : s[k] = bbo[g[k]]
      /\ \A k, l \in 1..Len(s) : k < l => g[k] < g[l]
  BY <1>8, Zenon DEF Kept
<1>10. IsList(s) /\ Len(s) \in Nat /\ DOMAIN s = 1..Len(s)
  <2>1. IsList(s)
    BY <1>6, <1>7
  <2>2. QED
    BY <2>1, ListIsSeq
<1>11. \A k \in 1..Len(s) : g[k] \in P /\ g[k] \in DOMAIN bbo /\ s[k].event = g[k]
  BY <1>4, <1>5, <1>9
<1>12. \A k, l \in 1..Len(s) : s[k].event = s[l].event => k = l
  <2> SUFFICES ASSUME NEW k \in 1..Len(s), NEW l \in 1..Len(s), s[k].event = s[l].event
               PROVE  k = l
    OBVIOUS
  <2>1. g[k] = g[l] /\ g[k] \in Int
    BY <1>4, <1>11
  <2>2. ~(g[k] < g[l]) /\ ~(g[l] < g[k])
    BY <2>1
  <2>3. ~(k < l) /\ ~(l < k)
    BY <1>9, <2>2
  <2>4. QED
    BY <2>3
<1>13. Len(keys) = Len(s)
  BY <1>3, <1>10
<1>14. /\ IsList(Sorted(s, keys)) /\ Len(Sorted(s, keys)) = Len(s)
       /\ SortOrder(keys) \in Bijection(1..Len(s), 1..Len(s))
       /\ \A k \in 1..Len(s) : Sorted(s, keys)[k] = s[SortOrder(keys)[k]]
  BY <1>10, <1>13, SortedList
<1>15. PICK t : t = SortOrder(keys)
  OBVIOUS
<1>16. PICK q : q = Queue(bbo, d)
  OBVIOUS
<1>17. q = Sorted(s, keys)
  BY <1>2, <1>3, <1>16 DEF Queue, ByMono
<1>18. /\ IsList(q) /\ Len(q) = Len(s)
       /\ t \in Bijection(1..Len(s), 1..Len(s))
       /\ \A k \in 1..Len(s) : q[k] = s[t[k]]
  BY <1>14, <1>15, <1>17
<1>19. /\ \A k \in 1..Len(s) : t[k] \in 1..Len(s)
       /\ \A k, l \in 1..Len(s) : t[k] = t[l] => k = l
  BY <1>18 DEF Bijection, Injection, IsInjective
<1>20. ASSUME NEW k \in 1..Len(q)
       PROVE  <<q[k].host, q[k].boot>> = d /\ \E i \in DOMAIN bbo : q[k] = bbo[i]
  <2>1. k \in 1..Len(s) /\ t[k] \in 1..Len(s)
    BY <1>18, <1>19
  <2>2. g[t[k]] \in P /\ g[t[k]] \in DOMAIN bbo /\ q[k] = bbo[g[t[k]]]
    BY <1>9, <1>11, <1>18, <2>1
  <2>3. QED
    BY <1>5, <2>2
<1>21. ASSUME NEW k \in 1..Len(q), NEW l \in 1..Len(q), q[k].event = q[l].event
       PROVE  k = l
  <2>1. k \in 1..Len(s) /\ l \in 1..Len(s) /\ t[k] \in 1..Len(s) /\ t[l] \in 1..Len(s)
    BY <1>18, <1>19
  <2>2. s[t[k]].event = s[t[l]].event
    BY <1>18, <1>21, <2>1
  <2>3. t[k] = t[l]
    BY <1>12, <2>1, <2>2
  <2>4. QED
    BY <1>19, <2>1, <2>3
<1>22. Drawn(q, bbo, d)
  BY <1>18, <1>20, <1>21 DEF Drawn
<1>23. QED
  BY <1>16, <1>22

\* The observations of a domain are by monotonic time, and all there.
LEMMA QueueIsByTime ==
    ASSUME NEW bbo, Rows(bbo), NEW d, \A i \in DOMAIN bbo : bbo[i].mono \in Int /\ bbo[i].wall \in Int
    PROVE  /\ ByTime(Queue(bbo, d))
           /\ \A i \in DOMAIN bbo : <<bbo[i].host, bbo[i].boot>> = d =>
                 \E k \in 1..Len(Queue(bbo, d)) : Queue(bbo, d)[k] = bbo[i]
<1>1. PICK P : P = {i \in DOMAIN bbo : <<bbo[i].host, bbo[i].boot>> = d}
  OBVIOUS
<1>2. PICK s : s = InDomain(bbo, d)
  OBVIOUS
<1>3. PICK keys : keys = [i \in DOMAIN s |-> <<s[i].mono, s[i].wall, s[i].event>>]
  OBVIOUS
<1>4. IsList(bbo) /\ (\A i \in DOMAIN bbo : bbo[i].event = i) /\ DOMAIN bbo = 1..Len(bbo)
  BY ListIsSeq DEF Rows
<1>5. P \subseteq DOMAIN bbo
  BY <1>1
<1>6. s = Keep(bbo, P)
  BY <1>1, <1>2 DEF InDomain
<1>7. IsList(Keep(bbo, P)) /\ \E g : Kept(Keep(bbo, P), bbo, P, g)
  BY <1>4, <1>5, KeepList
<1>8. PICK g : Kept(s, bbo, P, g)
  BY <1>6, <1>7
<1>9. /\ g \in [1..Len(s) -> P]
      /\ \A k \in 1..Len(s) : s[k] = bbo[g[k]]
      /\ \A p \in P : \E k \in 1..Len(s) : g[k] = p
  BY <1>8, Zenon DEF Kept
<1>10. IsList(s) /\ Len(s) \in Nat /\ DOMAIN s = 1..Len(s)
  <2>1. IsList(s)
    BY <1>6, <1>7
  <2>2. QED
    BY <2>1, ListIsSeq
<1>11. \A k \in 1..Len(s) : s[k].mono \in Int /\ s[k].wall \in Int /\ s[k].event \in Int
  BY <1>4, <1>5, <1>9
<1>12. Len(keys) = Len(s) /\ Len(keys) \in Nat
  BY <1>3, <1>10
<1>13. \A i \in 1..Len(keys) : keys[i] \in Tuples(3) /\ keys[i][1] = s[i].mono /\ 1 \in DOMAIN keys[i]
  <2> SUFFICES ASSUME NEW i \in 1..Len(keys)
               PROVE  keys[i] \in Tuples(3) /\ keys[i][1] = s[i].mono /\ 1 \in DOMAIN keys[i]
    OBVIOUS
  <2>1. PICK a, b, c : a = s[i].mono /\ b = s[i].wall /\ c = s[i].event
    OBVIOUS
  <2>2. a \in Int /\ b \in Int /\ c \in Int /\ keys[i] = <<a, b, c>>
    BY <1>3, <1>10, <1>11, <1>12, <2>1
  <2>3. <<a, b, c>> \in [1..3 -> Int]
    BY <2>2
  <2>4. QED
    BY <2>1, <2>2, <2>3 DEF Tuples
<1>14. PICK t : t = SortOrder(keys)
  OBVIOUS
<1>15. Settled(keys, t)
  <2>1. 3 \in Nat /\ \A i \in 1..Len(keys) : keys[i] \in Tuples(3)
    BY <1>13
  <2>2. QED
    BY <1>12, <1>14, <2>1, SortIsSettled
<1>16. PICK q : q = Queue(bbo, d)
  OBVIOUS
<1>17. q = Sorted(s, keys)
  BY <1>2, <1>3, <1>16 DEF Queue, ByMono
<1>18. /\ Len(q) = Len(s) /\ t \in Bijection(1..Len(s), 1..Len(s))
       /\ \A k \in 1..Len(s) : q[k] = s[t[k]]
  <2>1. /\ Len(Sorted(s, keys)) = Len(s)
        /\ SortOrder(keys) \in Bijection(1..Len(s), 1..Len(s))
        /\ \A k \in 1..Len(s) : Sorted(s, keys)[k] = s[SortOrder(keys)[k]]
    BY <1>10, <1>12, SortedList
  <2>2. QED
    BY <1>14, <1>17, <2>1
<1>19. Len(t) = Len(s) /\ \A k \in 1..Len(s) : t[k] \in 1..Len(s)
  <2>1. IsOrder(t, Len(s))
    BY <1>12, <1>14, SortIsOrder
  <2>2. t \in [1..Len(s) -> 1..Len(s)]
    BY <1>18 DEF Bijection, Injection
  <2>3. QED
    BY <2>1, <2>2 DEF IsOrder
<1>20. ASSUME NEW k \in 1..Len(q) PROVE q[k].mono \in Int
  <2>1. k \in 1..Len(s) /\ t[k] \in 1..Len(s) /\ q[k] = s[t[k]]
    BY <1>18, <1>19
  <2>2. QED
    BY <1>11, <2>1
<1>21. ASSUME NEW k \in 1..Len(q), NEW l \in 1..Len(q), k < l PROVE q[k].mono <= q[l].mono
  <2>1. PICK i, j : i = t[k] /\ j = t[l]
    OBVIOUS
  <2>2. i \in 1..Len(s) /\ j \in 1..Len(s) /\ q[k] = s[i] /\ q[l] = s[j]
    BY <1>18, <1>19, <2>1
  <2>3. ~Precedes(keys[j], keys[i])
    BY <1>15, <1>18, <1>19, <1>21, <2>1 DEF Settled
  <2>4. SUFFICES ASSUME q[l].mono < q[k].mono PROVE FALSE
    BY <1>20
  <2>5. keys[j][1] < keys[i][1] /\ 1 \in DOMAIN keys[j] /\ 1..(1 - 1) = {}
    BY <1>12, <1>13, <2>2, <2>4
  <2>6. Precedes(keys[j], keys[i])
    BY <2>5 DEF Precedes
  <2>7. QED
    BY <2>3, <2>6
<1>22. ASSUME NEW i \in DOMAIN bbo, <<bbo[i].host, bbo[i].boot>> = d
       PROVE  \E k \in 1..Len(q) : q[k] = bbo[i]
  <2>1. i \in P
    BY <1>1, <1>22
  <2>2. PICK m \in 1..Len(s) : g[m] = i
    BY <1>9, <2>1
  <2>3. PICK k \in 1..Len(s) : t[k] = m
    BY <1>18 DEF Bijection, Surjection
  <2>4. q[k] = bbo[i]
    BY <1>9, <1>18, <2>2, <2>3
  <2>5. QED
    BY <1>18, <2>4
<1>23. ByTime(q)
  BY <1>20, <1>21 DEF ByTime
<1>24. QED
  BY <1>16, <1>22, <1>23
-----------------------------------------------------------------------------
(* The cadence *)

LEMMA TimesOver ==
    ASSUME NEW a \in Nat, NEW b \in Nat, a <= b, NEW d \in Nat
    PROVE  a * d <= b * d
OBVIOUS

\* The same with the factors of the larger product exchanged.
LEMMA TimesUnder ==
    ASSUME NEW a \in Nat, NEW b \in Nat, a <= b, NEW d \in Nat
    PROVE  d * b >= a * d
<1>1. a * d <= b * d
  BY TimesOver
<1>2. d * b = b * d
  OBVIOUS
<1>3. a * d \in Int /\ b * d \in Int
  OBVIOUS
<1>4. QED
  BY <1>1, <1>2, <1>3

\* Of some numbers one is the largest.
LEMMA LargestOf ==
    ASSUME NEW f, NEW S, S # {}, NEW b \in Int, \A i \in S : f[i] \in Int /\ f[i] <= b
    PROVE  \E k \in S : \A i \in S : f[i] <= f[k]
<1> DEFINE G == {b - f[i] : i \in S}
<1>1. \A i \in S : b - f[i] \in Nat
  OBVIOUS
<1>2. G \subseteq Nat /\ G # {}
  BY <1>1
<1>3. PICK g \in G : \A h \in G : g <= h
  <2> HIDE DEF G
  <2>1. QED
    BY <1>2, LeastNat
<1>4. PICK k \in S : g = b - f[k]
  OBVIOUS
<1>5. \A i \in S : b - f[k] <= b - f[i]
  BY <1>3, <1>4
<1>6. \A i \in S : f[i] <= f[k]
  BY <1>5
<1>7. QED
  BY <1>6

\* Fewer numbers are below the one at a rank than the rank asks for.
LEMMA RankIsHigh ==
    ASSUME NEW s \in Seq(Nat), Len(s) > 0, NEW num \in Nat \ {0}, NEW den \in Nat \ {0},
           NEW o \in Int, o <= NearestRank(s, num, den)
    PROVE  Cardinality({i \in 1..Len(s) : s[i] < o}) * den < num * Len(s)
<1> DEFINE n == Len(s)
<1> DEFINE upto(u) == {i \in 1..n : s[i] <= u}
<1> DEFINE C == {u \in ToSet(s) : Cardinality(upto(u)) * den >= num * n}
<1> DEFINE B == {i \in 1..n : s[i] < o}
<1>1. n \in Nat /\ n > 0 /\ DOMAIN s = 1..n /\ \A i \in 1..n : s[i] \in Nat
  OBVIOUS
<1>2. NearestRank(s, num, den) = Min(C)
  BY <1>1 DEF NearestRank
<1>3. IsFiniteSet(1..n)
  BY <1>1, FS_Interval
<1>4. Cardinality(B) \in Nat /\ \A u : IsFiniteSet(upto(u)) /\ Cardinality(upto(u)) \in Nat
  <2>1. IsFiniteSet(B) /\ \A u : IsFiniteSet(upto(u))
    BY <1>3, FS_Subset
  <2>2. QED
    BY <2>1, FS_CardinalityType
<1>5. SUFFICES ASSUME Cardinality(B) * den >= num * n PROVE FALSE
  <2> HIDE DEF B, C, n
  <2>1. Cardinality(B) * den \in Nat /\ num * n \in Nat
    BY <1>1, <1>4
  <2>2. Cardinality(B) * den < num * n
    BY <1>5, <2>1
  <2>3. QED
    BY <2>2 DEF B, n
<1>6. B # {}
  <2> SUFFICES ASSUME B = {} PROVE FALSE
    OBVIOUS
  <2>1. Cardinality(B) = 0
    BY FS_EmptySet
  <2> HIDE DEF B, C, n
  <2>2. 0 >= num * n
    BY <1>5, <2>1
  <2>3. num * n > 0
    BY <1>1
  <2>4. num * n \in Int
    BY <1>1
  <2>5. QED
    BY <2>2, <2>3, <2>4
<1>7. PICK k \in B : \A i \in B : s[i] <= s[k]
  <2>1. \A i \in B : s[i] \in Int /\ s[i] <= o
    BY <1>1
  <2> HIDE DEF B
  <2>2. QED
    BY <1>6, <2>1, LargestOf
<1>8. k \in 1..n /\ s[k] < o /\ s[k] \in Nat /\ s[k] \in ToSet(s)
  BY <1>1 DEF ToSet
<1>9. B \subseteq upto(s[k])
  BY <1>7
<1>10. Cardinality(B) <= Cardinality(upto(s[k]))
  <2> HIDE DEF upto, B
  <2>1. QED
    BY <1>4, <1>9, FS_Subset
<1>11. Cardinality(upto(s[k])) * den >= num * n
  <2> HIDE DEF B, C, n, upto
  <2>1. Cardinality(B) * den <= Cardinality(upto(s[k])) * den
    BY <1>4, <1>10, TimesOver
  <2>2. Cardinality(B) * den \in Int /\ Cardinality(upto(s[k])) * den \in Int /\ num * n \in Int
    BY <1>1, <1>4
  <2>3. QED
    BY <1>5, <2>1, <2>2
<1>12. s[k] \in C
  BY <1>8, <1>11
<1>13. C \subseteq Nat
  BY <1>1 DEF ToSet
<1> HIDE DEF C
<1>14. PICK v \in C : \A u \in C : v <= u
  BY <1>12, <1>13, LeastNat
<1>15. Min(C) \in C /\ \A u \in C : Min(C) <= u
  BY <1>14 DEF Min
<1>16. o <= s[k]
  <2>1. Min(C) \in Nat /\ Min(C) <= s[k] /\ o <= Min(C)
    BY <1>2, <1>12, <1>13, <1>15
  <2>2. QED
    BY <1>8, <2>1
<1>17. QED
  BY <1>8, <1>16

\* The number at a rank is one of the numbers.
LEMMA RankIsOne ==
    ASSUME NEW s \in Seq(Nat), Len(s) > 0, NEW num \in Nat \ {0}, NEW den \in Nat \ {0}, num <= den
    PROVE  NearestRank(s, num, den) \in ToSet(s)
<1> DEFINE n == Len(s)
<1> DEFINE upto(u) == {i \in 1..n : s[i] <= u}
<1> DEFINE C == {u \in ToSet(s) : Cardinality(upto(u)) * den >= num * n}
<1>1. n \in Nat /\ n > 0 /\ DOMAIN s = 1..n /\ \A i \in 1..n : s[i] \in Nat
  OBVIOUS
<1>2. NearestRank(s, num, den) = Min(C)
  BY <1>1 DEF NearestRank
<1>3. PICK k \in 1..n : \A i \in 1..n : s[i] <= s[k]
  <2>1. \E b \in Nat : \A i \in 1..n : s[i] <= b
    <3> DEFINE T == {j \in 0..n : \E b \in Nat : \A i \in 1..j : s[i] <= b}
    <3>1. 0 \in T
      OBVIOUS
    <3>2. \A j \in 0..n : j < n /\ j \in T => j + 1 \in T
      <4> SUFFICES ASSUME NEW j \in 0..n, j < n, j \in T PROVE j + 1 \in T
        OBVIOUS
      <4>1. PICK b \in Nat : \A i \in 1..j : s[i] <= b
        OBVIOUS
      <4>2. j + 1 \in 1..n /\ j + 1 \in 0..n /\ s[j + 1] \in Nat
        BY <1>1
      <4>3. \A i \in 1..(j + 1) : i \in 1..j \/ i = j + 1
        OBVIOUS
      <4>4. b + s[j + 1] \in Nat /\ \A i \in 1..(j + 1) : s[i] <= b + s[j + 1]
        <5> SUFFICES ASSUME NEW i \in 1..(j + 1) PROVE s[i] <= b + s[j + 1]
          BY <4>2
        <5>1. CASE i = j + 1
          BY <4>2, <5>1
        <5>2. CASE i \in 1..j
          <6>1. s[i] <= b /\ s[i] \in Nat
            BY <1>1, <4>1, <5>2
          <6>2. QED
            BY <4>2, <6>1
        <5>3. QED
          BY <4>3, <5>1, <5>2
      <4>5. QED
        BY <4>2, <4>4
    <3>3. \A j \in 0..n : j \in T
      <4> HIDE DEF T
      <4>1. QED
        BY <1>1, <3>1, <3>2, UpTo
    <3>4. n \in T
      <4> HIDE DEF T
      <4>1. n \in 0..n
        BY <1>1
      <4>2. QED
        BY <3>3, <4>1
    <3>5. QED
      BY <3>4
  <2>2. PICK b \in Nat : \A i \in 1..n : s[i] <= b
    BY <2>1
  <2>3. 1..n # {} /\ b \in Int /\ \A i \in 1..n : s[i] \in Int /\ s[i] <= b
    BY <1>1, <2>2
  <2>4. QED
    BY <2>3, LargestOf
<1>4. upto(s[k]) = 1..n
  BY <1>3
<1>5. Cardinality(upto(s[k])) = n
  <2>1. Cardinality(1..n) = n
    <3>1. 1 \in Int /\ n \in Int /\ ~(1 > n) /\ n - 1 + 1 = n
      BY <1>1
    <3> HIDE DEF n
    <3>2. QED
      BY <3>1, FS_Interval
  <2> HIDE DEF upto, n
  <2>2. QED
    BY <1>4, <2>1
<1>6. n * den >= num * n
  <2>1. num \in Nat /\ den \in Nat /\ num <= den /\ n \in Nat
    BY <1>1
  <2> HIDE DEF n, upto, C
  <2>2. QED
    BY <2>1, TimesUnder
<1>7. s[k] \in C
  BY <1>1, <1>3, <1>5, <1>6 DEF ToSet
<1>8. C \subseteq ToSet(s) /\ C \subseteq Nat
  BY <1>1 DEF ToSet
<1> HIDE DEF C
<1>9. PICK v \in C : \A u \in C : v <= u
  BY <1>7, <1>8, LeastNat
<1>10. Min(C) \in C
  BY <1>9 DEF Min
<1>11. QED
  BY <1>2, <1>8, <1>10

LEMMA SameSize ==
    ASSUME NEW S, NEW T, IsFiniteSet(S), NEW f \in Bijection(S, T)
    PROVE  Cardinality(T) = Cardinality(S)
BY FS_Bijection DEF ExistsBijection

\* The number at a rank is the element of the sorted list at that rank: the
\* least place that is so much of the way up (_nearest_rank_int).
THEOREM NearestRankIsSorted ==
    ASSUME NEW s \in Seq(Nat), NEW num \in Nat \ {0}, NEW den \in Nat \ {0}, NEW k \in 1..Len(s),
           k * den >= num * Len(s), (k - 1) * den < num * Len(s)
    PROVE  NearestRank(s, num, den) = Sorted(s, [i \in DOMAIN s |-> <<s[i]>>])[k]
<1>1. PICK n : n = Len(s)
  OBVIOUS
<1>2. PICK keys : keys = [i \in DOMAIN s |-> <<s[i]>>]
  OBVIOUS
<1>3. PICK t : t = SortOrder(keys)
  OBVIOUS
<1>4. PICK q : q = Sorted(s, keys)
  OBVIOUS
<1>5. n \in Nat /\ DOMAIN s = 1..n /\ k \in 1..n /\ \A i \in 1..n : s[i] \in Nat
  BY <1>1
<1>6. /\ Len(keys) = n
      /\ \A i \in 1..n : keys[i] \in Tuples(1) /\ keys[i][1] = s[i] /\ 1 \in DOMAIN keys[i]
  <2>1. keys = [i \in 1..n |-> <<s[i]>>]
    BY <1>2, <1>5
  <2>2. Len(keys) = n
    BY <1>5, <2>1
  <2>3. ASSUME NEW i \in 1..n
        PROVE  keys[i] \in Tuples(1) /\ keys[i][1] = s[i] /\ 1 \in DOMAIN keys[i]
    <3>1. PICK x : x = s[i]
      OBVIOUS
    <3>2. x \in Int /\ keys[i] = <<x>>
      BY <1>5, <2>1, <3>1
    <3>3. <<x>> \in [1..1 -> Int] /\ <<x>>[1] = x /\ 1 \in DOMAIN <<x>>
      BY <3>2
    <3>4. QED
      BY <3>1, <3>2, <3>3 DEF Tuples
  <2>4. QED
    BY <2>2, <2>3
<1>7. /\ t \in Bijection(1..n, 1..n) /\ \A j \in 1..n : q[j] = s[t[j]]
  <2>1. IsList(s)
    BY SeqIsList
  <2>2. /\ SortOrder(keys) \in Bijection(1..Len(s), 1..Len(s))
        /\ \A j \in 1..Len(s) : Sorted(s, keys)[j] = s[SortOrder(keys)[j]]
    BY <1>1, <1>6, <2>1, SortedList
  <2>3. QED
    BY <1>1, <1>3, <1>4, <2>2
<1>8. /\ \A j \in 1..n : t[j] \in 1..n
      /\ \A i, j \in 1..n : t[i] = t[j] => i = j
      /\ \A i \in 1..n : \E j \in 1..n : t[j] = i
  BY <1>7 DEF Bijection, Injection, Surjection, IsInjective
<1>9. ASSUME NEW i \in 1..n, NEW j \in 1..n, i <= j PROVE q[i] <= q[j] /\ q[i] \in Nat /\ q[j] \in Nat
  <2>1. /\ t[i] \in 1..n /\ t[j] \in 1..n /\ q[i] = s[t[i]] /\ q[j] = s[t[j]]
        /\ q[i] \in Nat /\ q[j] \in Nat
    BY <1>5, <1>7, <1>8
  <2>2. CASE i = j
    BY <2>1, <2>2
  <2>3. CASE i < j
    <3>1. Settled(keys, t)
      <4>1. 1 \in Nat /\ Len(keys) \in Nat /\ \A l \in 1..Len(keys) : keys[l] \in Tuples(1)
        BY <1>5, <1>6
      <4>2. QED
        BY <1>3, <4>1, SortIsSettled
    <3>2. Len(t) = n
      BY <1>3, <1>5, <1>6, SortIsOrder DEF IsOrder
    <3>3. ~Precedes(keys[t[j]], keys[t[i]])
      BY <2>3, <3>1, <3>2 DEF Settled
    <3>4. keys[t[j]][1] = q[j] /\ keys[t[i]][1] = q[i] /\ 1 \in DOMAIN keys[t[j]]
      BY <1>6, <2>1
    <3>5. 1..(1 - 1) = {}
      OBVIOUS
    <3>6. ~(q[j] < q[i])
      BY <3>3, <3>4, <3>5 DEF Precedes
    <3>7. \A a, b \in Nat : ~(b < a) => a <= b
      OBVIOUS
    <3>8. QED
      BY <2>1, <3>6, <3>7, Zenon
  <2>4. QED
    BY <1>9, <2>2, <2>3
<1> DEFINE upto(u) == {i \in 1..n : s[i] <= u}
<1> DEFINE below(u) == {j \in 1..n : q[j] <= u}
<1> DEFINE C == {u \in ToSet(s) : Cardinality(upto(u)) * den >= num * n}
<1>10. ASSUME NEW u
       PROVE  /\ Cardinality(upto(u)) = Cardinality(below(u)) /\ IsFiniteSet(below(u))
              /\ Cardinality(below(u)) \in Nat
  <2>1. PICK A, B : A = below(u) /\ B = upto(u)
    OBVIOUS
  <2>2. IsFiniteSet(1..n)
    BY <1>5, FS_Interval
  <2>3. IsFiniteSet(A)
    <3>1. A \subseteq 1..n
      BY <2>1
    <3>2. QED
      BY <2>2, <3>1, FS_Subset
  <2>4. PICK f : f = [j \in A |-> t[j]]
    OBVIOUS
  <2>5. A \subseteq 1..n /\ \A j \in 1..n : j \in A <=> t[j] \in B
    BY <1>7, <1>8, <2>1
  <2>6. f \in [A -> B] /\ \A j \in A : f[j] = t[j]
    BY <2>4, <2>5
  <2>7. \A i, j \in A : f[i] = f[j] => i = j
    BY <1>8, <2>5, <2>6
  <2>8. \A i \in B : \E j \in A : f[j] = i
    <3> SUFFICES ASSUME NEW i \in B PROVE \E j \in A : f[j] = i
      OBVIOUS
    <3>1. i \in 1..n
      BY <2>1
    <3>2. PICK j \in 1..n : t[j] = i
      BY <1>8, <3>1
    <3>3. QED
      BY <2>5, <2>6, <3>2
  <2>9. f \in Bijection(A, B)
    BY <2>6, <2>7, <2>8 DEF Bijection, Injection, Surjection, IsInjective
  <2>10. Cardinality(B) = Cardinality(A) /\ Cardinality(A) \in Nat
    BY <2>3, <2>9, SameSize, FS_CardinalityType
  <2>11. QED
    BY <2>1, <2>3, <2>10
<1>11. PICK v : v = q[k]
  OBVIOUS
<1>12. v \in C
  <2>1. v \in ToSet(s)
    <3>1. t[k] \in 1..n /\ v = s[t[k]]
      BY <1>5, <1>7, <1>8, <1>11
    <3>2. QED
      BY <1>5, <3>1 DEF ToSet
  <2>2. 1..k \subseteq below(v)
    BY <1>5, <1>9, <1>11
  <2>3. IsFiniteSet(1..k) /\ Cardinality(1..k) = k
    BY <1>5, FS_Interval
  <2>4. PICK c : c = Cardinality(below(v))
    OBVIOUS
  <2>5. k <= c /\ c \in Nat
    <3>1. PICK A : A = below(v)
      OBVIOUS
    <3>2. IsFiniteSet(A) /\ 1..k \subseteq A /\ c = Cardinality(A) /\ c \in Nat
      BY <1>10, <2>2, <2>4, <3>1
    <3>3. QED
      BY <2>3, <3>2, FS_Subset
  <2>6. k * den <= c * den
    BY <1>5, <2>5, TimesOver
  <2>7. c * den >= num * n
    <3>1. k * den \in Int /\ c * den \in Int /\ num * n \in Int /\ k * den >= num * n
      BY <1>1, <1>5, <2>5
    <3>2. QED
      BY <2>6, <3>1
  <2>8. Cardinality(upto(v)) = c
    BY <1>10, <2>4
  <2>9. QED
    BY <2>1, <2>7, <2>8
<1>13. ASSUME NEW u \in C PROVE v <= u
  <2>1. u \in Nat /\ v \in Nat
    BY <1>5, <1>9, <1>11 DEF ToSet
  <2>2. SUFFICES ASSUME u < v PROVE FALSE
    BY <2>1
  <2>3. below(u) \subseteq 1..(k - 1)
    <3> SUFFICES ASSUME NEW j \in 1..n, q[j] <= u, ~(j <= k - 1) PROVE FALSE
      OBVIOUS
    <3>1. k <= j
      BY <1>5
    <3>2. v <= q[j] /\ q[j] \in Nat
      BY <1>5, <1>9, <1>11, <3>1
    <3>3. QED
      BY <2>1, <2>2, <3>2
  <2>4. IsFiniteSet(1..(k - 1)) /\ Cardinality(1..(k - 1)) = k - 1
    <3>1. CASE k = 1
      <4>1. 1..(k - 1) = {} /\ k - 1 = 0
        BY <3>1
      <4>2. QED
        BY <4>1, FS_EmptySet
    <3>2. CASE k # 1
      <4>1. 1 \in Int /\ k - 1 \in Int /\ ~(1 > k - 1) /\ (k - 1) - 1 + 1 = k - 1
        BY <1>5, <3>2
      <4>2. PICK m : m = k - 1
        OBVIOUS
      <4>3. IsFiniteSet(1..m) /\ Cardinality(1..m) = m
        BY <4>1, <4>2, FS_Interval
      <4>4. QED
        BY <4>2, <4>3
    <3>3. QED
      BY <3>1, <3>2
  <2>5. PICK c : c = Cardinality(below(u))
    OBVIOUS
  <2>6. c <= k - 1 /\ c \in Nat /\ k - 1 \in Nat
    <3>1. PICK A : A = below(u)
      OBVIOUS
    <3>2. A \subseteq 1..(k - 1) /\ c = Cardinality(A) /\ c \in Nat
      BY <1>10, <2>3, <2>5, <3>1
    <3>3. k - 1 \in Nat
      BY <1>5
    <3>4. QED
      BY <2>4, <3>2, <3>3, FS_Subset
  <2>7. c * den <= (k - 1) * den
    BY <2>6, TimesOver
  <2>8. c * den >= num * n
    BY <1>10, <2>5
  <2>9. c * den \in Int /\ (k - 1) * den \in Int /\ num * n \in Int /\ (k - 1) * den < num * n
    BY <1>1, <1>5, <2>6
  <2>10. QED
    BY <2>7, <2>8, <2>9
<1>14. NearestRank(s, num, den) = Min(C)
  BY <1>1, <1>5 DEF NearestRank
<1>15. C \subseteq Nat
  BY <1>5 DEF ToSet
<1> HIDE DEF C
<1>16. Min(C) \in C /\ \A u \in C : Min(C) <= u
  BY <1>12, <1>13 DEF Min
<1>17. Min(C) = v
  <2>1. Min(C) <= v /\ v <= Min(C) /\ v \in Nat /\ Min(C) \in Nat
    BY <1>12, <1>13, <1>15, <1>16
  <2>2. QED
    BY <2>1
<1>18. QED
  BY <1>2, <1>4, <1>11, <1>14, <1>17

\* The times of some observations.
TimesOf(q) == {q[k].mono : k \in 1..Len(q)}

\* Between two times that follow each other there is one step of the observations.
LEMMA StepOver ==
    ASSUME NEW q, Len(q) \in Nat, ByTime(q), NEW x \in Cadence(TimesOf(q))
    PROVE  \E i \in 1..(Len(q) - 1) : x[1] = q[i].mono /\ x[2] = q[i + 1].mono
<1>1. PICK n : n = Len(q)
  OBVIOUS
<1>2. /\ \A k \in 1..n : q[k].mono \in Int
      /\ \A k, l \in 1..n : k < l => q[k].mono <= q[l].mono
  BY <1>1 DEF ByTime
<1>3. PICK a, b : a = x[1] /\ b = x[2]
  OBVIOUS
<1>4. /\ a \in TimesOf(q) /\ b \in TimesOf(q) /\ a < b
      /\ \A t \in TimesOf(q) : t <= a \/ b <= t
  BY <1>3 DEF Cadence
<1>5. PICK k \in 1..n : a = q[k].mono
  BY <1>1, <1>4 DEF TimesOf
<1>6. PICK m \in 1..n : b = q[m].mono
  BY <1>1, <1>4 DEF TimesOf
<1>7. \A t \in 1..n : q[t].mono <= a \/ b <= q[t].mono
  BY <1>1, <1>4 DEF TimesOf
<1> DEFINE J == {j \in 1..n : a < q[j].mono}
<1>8. PICK j \in J : \A l \in J : j <= l
  <2>1. J \subseteq Nat /\ m \in J
    BY <1>1, <1>4, <1>6
  <2> HIDE DEF J
  <2>2. QED
    BY <2>1, LeastNat
<1>9. j \in 1..n /\ a < q[j].mono /\ n \in Nat /\ a \in Int /\ b \in Int
  BY <1>1, <1>2, <1>5, <1>6
<1>10. k < j
  <2> SUFFICES ASSUME j <= k PROVE FALSE
    BY <1>9
  <2>1. j = k \/ j < k
    BY <1>9
  <2>2. q[j].mono <= q[k].mono
    BY <1>2, <1>9, <2>1
  <2>3. QED
    BY <1>2, <1>5, <1>9, <2>2
<1>11. PICK i : i = j - 1
  OBVIOUS
<1>12. i \in 1..(n - 1) /\ i \in 1..n /\ k <= i /\ j = i + 1 /\ i < j
  BY <1>9, <1>10, <1>11
<1>13. q[i].mono = a
  <2>1. i \notin J
    BY <1>8, <1>9, <1>12
  <2>2. q[i].mono <= a
    BY <1>2, <1>9, <1>12, <2>1
  <2>3. q[k].mono <= q[i].mono
    <3>1. k = i \/ k < i
      BY <1>12
    <3>2. QED
      BY <1>2, <1>12, <3>1
  <2>4. QED
    BY <1>2, <1>5, <1>12, <2>2, <2>3
<1>14. q[j].mono = b
  <2>1. b <= q[j].mono
    BY <1>2, <1>7, <1>9
  <2>2. m \in J
    BY <1>4, <1>6
  <2>3. j = m \/ j < m
    BY <1>8, <1>9, <2>2
  <2>4. q[j].mono <= q[m].mono
    BY <1>2, <1>9, <2>3
  <2>5. QED
    BY <1>2, <1>6, <1>9, <2>1, <2>4
<1>15. QED
  BY <1>1, <1>3, <1>12, <1>13, <1>14

\* The deltas are the steps of the cadence, each once.
StepsOf(h, q) ==
    /\ h \in Bijection(1..Len(Deltas(q)), Cadence(TimesOf(q)))
    /\ \A k \in 1..Len(Deltas(q)) : Deltas(q)[k] = h[k][2] - h[k][1]

LEMMA DeltasAreSteps ==
    ASSUME NEW q, Len(q) \in Nat, ByTime(q)
    PROVE  Deltas(q) \in Seq(Nat) /\ \E h : StepsOf(h, q)
<1>1. PICK n : n = Len(q) - 1
  OBVIOUS
<1>2. PICK s : s = Steps(q)
  OBVIOUS
<1>3. s = [i \in 1..n |-> q[i + 1].mono - q[i].mono]
  BY <1>1, <1>2 DEF Steps
<1>4. /\ \A i \in 1..n : i \in 1..Len(q) /\ i + 1 \in 1..Len(q) /\ i < i + 1
      /\ \A i \in 1..n : q[i].mono \in Int /\ q[i + 1].mono \in Int /\ q[i].mono <= q[i + 1].mono
  <2>1. \A i \in 1..n : i \in 1..Len(q) /\ i + 1 \in 1..Len(q) /\ i < i + 1
    BY <1>1
  <2>2. QED
    BY <2>1 DEF ByTime
<1>5. \A i \in 1..n : s[i] \in Nat /\ s[i] = q[i + 1].mono - q[i].mono
  BY <1>3, <1>4
<1>6. s \in Seq(Nat) /\ DOMAIN s = 1..n
  <2>1. CASE n \in Nat
    <3>1. s \in [1..n -> Nat]
      BY <1>3, <1>5
    <3>2. QED
      BY <2>1, <3>1
  <2>2. CASE n \notin Nat
    <3>1. 1..n = {}
      BY <1>1, <2>2
    <3>2. s = <<>>
      BY <1>3, <3>1
    <3>3. <<>> \in Seq(Nat)
      OBVIOUS
    <3>4. QED
      BY <1>3, <3>1, <3>2, <3>3
  <2>3. QED
    BY <2>1, <2>2
<1>7. PICK P : P = {i \in 1..n : s[i] > 0}
  OBVIOUS
<1>8. PICK D : D = Deltas(q)
  OBVIOUS
<1>9. D = Keep(s, P) /\ P \subseteq DOMAIN s
  BY <1>1, <1>2, <1>6, <1>7, <1>8 DEF Deltas
<1>10. D \in Seq(Nat) /\ \E g : Kept(D, s, P, g)
  <2>1. Keep(s, P) \in Seq(Nat) /\ \E g : Kept(Keep(s, P), s, P, g)
    BY <1>6, <1>9, KeepIsOrdered
  <2>2. QED
    BY <1>9, <2>1
<1>11. PICK g : Kept(D, s, P, g)
  BY <1>10
<1>12. PICK m : m = Len(D)
  OBVIOUS
<1>13. /\ g \in [1..m -> P] /\ m \in Nat
       /\ \A k \in 1..m : D[k] = s[g[k]]
       /\ \A k, l \in 1..m : k < l => g[k] < g[l]
       /\ \A p \in P : \E k \in 1..m : g[k] = p
  BY <1>10, <1>11, <1>12, Zenon, LenProperties DEF Kept
<1>14. PICK h : h = [k \in 1..m |-> <<q[g[k]].mono, q[g[k] + 1].mono>>]
  OBVIOUS
<1>15. PICK Q : Q = Cadence(TimesOf(q))
  OBVIOUS
<1>16. \A k \in 1..m : /\ g[k] \in 1..n /\ h[k][1] = q[g[k]].mono /\ h[k][2] = q[g[k] + 1].mono
                       /\ h[k][1] < h[k][2] /\ D[k] = h[k][2] - h[k][1]
  <2> SUFFICES ASSUME NEW k \in 1..m
               PROVE  /\ g[k] \in 1..n /\ h[k][1] = q[g[k]].mono /\ h[k][2] = q[g[k] + 1].mono
                      /\ h[k][1] < h[k][2] /\ D[k] = h[k][2] - h[k][1]
    OBVIOUS
  <2>1. g[k] \in 1..n /\ s[g[k]] > 0
    BY <1>7, <1>13
  <2>2. s[g[k]] = q[g[k] + 1].mono - q[g[k]].mono /\ q[g[k]].mono \in Int /\ q[g[k] + 1].mono \in Int
    BY <1>4, <1>5, <2>1
  <2>3. h[k] = <<q[g[k]].mono, q[g[k] + 1].mono>> /\ D[k] = s[g[k]]
    BY <1>13, <1>14
  <2>4. QED
    BY <2>1, <2>2, <2>3
<1>17. ASSUME NEW k \in 1..m PROVE h[k] \in Q
  <2>1. PICK i : i = g[k]
    OBVIOUS
  <2>2. i \in 1..Len(q) /\ i + 1 \in 1..Len(q) /\ i \in Int
    BY <1>4, <1>16, <2>1
  <2>3. h[k] = <<q[i].mono, q[i + 1].mono>> /\ q[i].mono < q[i + 1].mono
    BY <1>14, <1>16, <2>1
  <2>4. q[i].mono \in TimesOf(q) /\ q[i + 1].mono \in TimesOf(q)
    BY <2>2 DEF TimesOf
  <2>5. ASSUME NEW t \in TimesOf(q) PROVE t <= q[i].mono \/ q[i + 1].mono <= t
    <3>1. PICK l \in 1..Len(q) : t = q[l].mono
      BY DEF TimesOf
    <3>2. l < i \/ l = i \/ l = i + 1 \/ i + 1 < l
      BY <2>2
    <3>3. QED
      BY <2>2, <3>1, <3>2 DEF ByTime
  <2>6. QED
    BY <1>15, <2>3, <2>4, <2>5 DEF Cadence
<1>18. ASSUME NEW k \in 1..m, NEW l \in 1..m, k < l PROVE h[k][1] < h[l][1]
  <2>1. g[k] < g[l] /\ g[k] \in 1..n /\ g[l] \in 1..n
    BY <1>13, <1>16, <1>18
  <2>2. g[k] + 1 = g[l] \/ g[k] + 1 < g[l]
    BY <2>1
  <2>3. q[g[k] + 1].mono <= q[g[l]].mono
    <3>1. g[k] + 1 \in 1..Len(q) /\ g[l] \in 1..Len(q)
      BY <1>4, <2>1
    <3>2. QED
      BY <2>2, <3>1 DEF ByTime
  <2>4. q[g[k]].mono \in Int /\ q[g[k] + 1].mono \in Int /\ q[g[l]].mono \in Int
    BY <1>4, <2>1
  <2>5. q[g[k]].mono < q[g[k] + 1].mono
    BY <1>16
  <2>6. h[k][1] = q[g[k]].mono /\ h[l][1] = q[g[l]].mono
    BY <1>16
  <2>7. \A a, b, c \in Int : a < b /\ b <= c => a < c
    OBVIOUS
  <2>8. QED
    BY <2>3, <2>4, <2>5, <2>6, <2>7, Zenon
<1>19. h \in Injection(1..m, Q)
  <2>1. h \in [1..m -> Q]
    BY <1>14, <1>17
  <2>2. ASSUME NEW k \in 1..m, NEW l \in 1..m, h[k] = h[l] PROVE k = l
    <3>1. ~(k < l) /\ ~(l < k)
      <4>1. h[k][1] \in Int /\ h[k][1] = h[l][1]
        BY <1>4, <1>16, <2>2
      <4>2. QED
        BY <1>18, <4>1
    <3>2. QED
      BY <1>13, <3>1
  <2>3. QED
    BY <2>1, <2>2 DEF Injection, IsInjective
<1>20. ASSUME NEW x \in Q PROVE \E k \in 1..m : h[k] = x
  <2>1. PICK i \in 1..(Len(q) - 1) : x[1] = q[i].mono /\ x[2] = q[i + 1].mono
    BY <1>15, StepOver
  <2>2. x = <<x[1], x[2]>> /\ x[1] < x[2]
    BY <1>15 DEF Cadence
  <2>3. i \in 1..n /\ s[i] > 0
    BY <1>1, <1>4, <1>5, <2>1, <2>2
  <2>4. i \in P
    BY <1>7, <2>3
  <2>5. PICK k \in 1..m : g[k] = i
    BY <1>13, <2>4
  <2>6. h[k] = x
    BY <1>14, <2>1, <2>2, <2>5
  <2>7. QED
    BY <2>6
<1>21. h \in Bijection(1..m, Q)
  <2>1. h \in Surjection(1..m, Q)
    BY <1>19, <1>20 DEF Injection, Surjection
  <2>2. QED
    BY <1>19, <2>1 DEF Bijection
<1>22. StepsOf(h, q)
  BY <1>8, <1>12, <1>15, <1>16, <1>21 DEF StepsOf
<1>23. QED
  BY <1>8, <1>10, <1>22

\* The tolerance of a walk is its cadence, or the least there is.
LEMMA ToleranceIsOf ==
    ASSUME NEW q, Len(q) \in Nat, ByTime(q), Deltas(q) # <<>>
    PROVE  P99(q) \in Nat /\ Tolerance(q) \in {P99(q), 1}
<1>1. PICK s : s = Deltas(q)
  OBVIOUS
<1>2. s \in Seq(Nat) /\ Len(s) > 0
  <2>1. s \in Seq(Nat) /\ s # <<>>
    BY <1>1, DeltasAreSteps
  <2>2. QED
    BY <2>1
<1>3. PICK num, den : num = CadenceRank[1] /\ den = CadenceRank[2]
  OBVIOUS
<1>4. num \in Nat \ {0} /\ den \in Nat \ {0} /\ num <= den
  BY <1>3, GateAssumption
<1>5. PICK p : p = NearestRank(s, num, den)
  OBVIOUS
<1>6. P99(q) = p /\ Tolerance(q) = Max({p, 1})
  BY <1>1, <1>3, <1>5 DEF Tolerance, P99
<1>7. p \in Nat
  <2>1. p \in ToSet(s)
    BY <1>2, <1>4, <1>5, RankIsOne
  <2>2. QED
    BY <1>2, <2>1 DEF ToSet
<1>8. PICK x \in {p, 1} : \A y \in {p, 1} : x >= y
  <2>1. p <= 1 \/ 1 <= p
    BY <1>7
  <2>2. QED
    BY <1>7, <2>1
<1>9. Tolerance(q) \in {p, 1}
  BY <1>6, <1>8 DEF Max
<1>10. QED
  BY <1>6, <1>7, <1>9

\* A delay within the tolerance of a walk is regular.
LEMMA ToleratedIsRegular ==
    ASSUME NEW q, Len(q) \in Nat, ByTime(q), Deltas(q) # <<>>, NEW d \in Int, d <= Tolerance(q)
    PROVE  Regular(d, Cadence(TimesOf(q)))
<1>1. PICK s : s = Deltas(q)
  OBVIOUS
<1>2. s \in Seq(Nat) /\ Len(s) > 0 /\ Len(s) \in Nat
  <2>1. s \in Seq(Nat) /\ s # <<>>
    BY <1>1, DeltasAreSteps
  <2>2. QED
    BY <2>1
<1>3. PICK num, den : num = CadenceRank[1] /\ den = CadenceRank[2]
  OBVIOUS
<1>4. num \in Nat \ {0} /\ den \in Nat \ {0} /\ num <= den
  BY <1>3, GateAssumption
<1>5. PICK p : p = NearestRank(s, num, den)
  OBVIOUS
<1>7. PICK Q : Q = Cadence(TimesOf(q))
  OBVIOUS
<1>8. PICK h : StepsOf(h, q)
  BY DeltasAreSteps
<1>9. h \in Bijection(1..Len(s), Q) /\ \A k \in 1..Len(s) : s[k] = h[k][2] - h[k][1]
  BY <1>1, <1>7, <1>8 DEF StepsOf
<1>10. IsFiniteSet(1..Len(s)) /\ Cardinality(1..Len(s)) = Len(s)
  <2>1. PICK n : n = Len(s)
    OBVIOUS
  <2>2. 1 \in Int /\ n \in Int /\ ~(1 > n) /\ n - 1 + 1 = n
    BY <1>2, <2>1
  <2>3. IsFiniteSet(1..n) /\ Cardinality(1..n) = n
    BY <2>2, FS_Interval
  <2>4. QED
    BY <2>1, <2>3, Zenon
<1>11. Cardinality(Q) = Len(s)
  BY <1>9, <1>10, SameSize
<1>12. Cardinality(Shorter(Q, d)) = Cardinality({k \in 1..Len(s) : s[k] < d})
  <2>1. PICK A, B : A = {k \in 1..Len(s) : s[k] < d} /\ B = Shorter(Q, d)
    OBVIOUS
  <2>2. PICK f : f = [k \in A |-> h[k]]
    OBVIOUS
  <2>3. A \subseteq 1..Len(s) /\ \A k \in A : f[k] = h[k] /\ s[k] < d
    BY <2>1, <2>2
  <2>4. /\ \A k \in 1..Len(s) : h[k] \in Q
        /\ \A k, l \in 1..Len(s) : h[k] = h[l] => k = l
        /\ \A x \in Q : \E k \in 1..Len(s) : h[k] = x
    BY <1>9 DEF Bijection, Injection, Surjection, IsInjective
  <2>5. \A k \in 1..Len(s) : k \in A <=> h[k] \in B
    BY <1>9, <2>1, <2>4 DEF Shorter
  <2>6. f \in Bijection(A, B)
    <3>1. f \in [A -> B]
      BY <2>2, <2>3, <2>5
    <3>2. \A k, l \in A : f[k] = f[l] => k = l
      BY <2>3, <2>4
    <3>3. \A x \in B : \E k \in A : f[k] = x
      <4> SUFFICES ASSUME NEW x \in B PROVE \E k \in A : f[k] = x
        OBVIOUS
      <4>1. x \in Q
        BY <2>1 DEF Shorter
      <4>2. PICK k \in 1..Len(s) : h[k] = x
        BY <2>4, <4>1
      <4>3. k \in A
        BY <2>5, <4>2
      <4>4. QED
        BY <2>3, <4>2, <4>3
    <3>4. QED
      BY <3>1, <3>2, <3>3 DEF Bijection, Injection, Surjection, IsInjective
  <2>7. IsFiniteSet(A)
    BY <1>10, <2>3, FS_Subset
  <2>8. QED
    BY <2>1, <2>6, <2>7, SameSize
<1>13. d <= 1 \/ d <= p
  BY <1>1, <1>3, <1>5, ToleranceIsOf DEF P99
<1>14. CASE d <= 1
  BY <1>14 DEF Regular
<1>15. CASE d <= p
  <2>1. Cardinality({k \in 1..Len(s) : s[k] < d}) * den < num * Len(s)
    BY <1>2, <1>4, <1>5, <1>15, RankIsHigh
  <2>2. Cardinality(Shorter(Q, d)) * den < num * Cardinality(Q)
    BY <1>11, <1>12, <2>1
  <2>3. QED
    BY <1>3, <1>7, <2>2 DEF Regular
<1>16. QED
  BY <1>13, <1>14, <1>15
-----------------------------------------------------------------------------
(* The windows of a segment *)

\* A window starts and ends at observations of one domain, its end is the first
\* at the horizon; it is a candidate of the walk, and no gap.
WindowAt(w, data, d, i) ==
    LET q == Queue(data.bbo, d) IN
    /\ i \in Starting(q) /\ w = Window(Candidate(q, i), data.segment)
    /\ Candidate(q, i) \in ToSet(Walk(q)) /\ ~Candidate(q, i).gap

LEMMA WindowIsAt ==
    ASSUME NEW data, Rows(data.bbo), NEW w \in Windows(data)
    PROVE  \E d, i : WindowAt(w, data, d, i)
<1>1. PICK c \in Candidates(data) : w = Window(c, data.segment) /\ ~c.gap
  BY DEF Windows
<1>2. PICK d : c \in ToSet(Walk(ByMono(InDomain(data.bbo, d))))
  BY <1>1 DEF Candidates
<1>3. PICK q : q = Queue(data.bbo, d)
  OBVIOUS
<1>4. IsList(q) /\ c \in ToSet(Walk(q))
  BY <1>2, <1>3, QueueIsDrawn DEF Drawn, Queue
<1>5. c \in CandidatesOf(q)
  BY <1>4, WalkHolds
<1>6. PICK i \in Starting(q) : c = Candidate(q, i)
  BY <1>5 DEF CandidatesOf
<1>7. QED
  BY <1>1, <1>3, <1>4, <1>6 DEF WindowAt

\* What a window is made of.
LEMMA WindowParts ==
    ASSUME NEW data, Rows(data.bbo), NEW w, NEW d, NEW i, WindowAt(w, data, d, i)
    PROVE  /\ i \in 1..Len(Queue(data.bbo, d)) /\ w.start = Queue(data.bbo, d)[i]
           /\ w.segment = data.segment
           /\ \E j \in 1..Len(Queue(data.bbo, d)) : w.end = Queue(data.bbo, d)[j]
<1>1. PICK q : q = Queue(data.bbo, d)
  OBVIOUS
<1>2. i \in Starting(q) /\ w = Window(Candidate(q, i), data.segment)
  BY <1>1 DEF WindowAt
<1>3. IsList(q)
  BY <1>1, QueueIsDrawn DEF Drawn
<1>4. Len(q) \in Nat
  BY <1>3, ListIsSeq
<1>5. i \in 1..Len(q) /\ EndsOf(q, i, Horizon) # {}
  BY <1>2 DEF Starting
<1>6. PICK j : j = EndOf(q, i, Horizon)
  OBVIOUS
<1>7. j \in 1..Len(q)
  <2>1. j \in (i + 1)..Len(q)
    BY <1>4, <1>5, <1>6, EndIsBehind
  <2>2. QED
    BY <1>4, <1>5, <2>1
<1>8. Candidate(q, i).start = q[i] /\ Candidate(q, i).end = q[j]
  BY <1>6 DEF Candidate
<1>9. w.start = q[i] /\ w.end = q[j] /\ w.segment = data.segment
  BY <1>2, <1>8 DEF Window
<1>10. QED
  BY <1>1, <1>5, <1>7, <1>9

\* A segment has finitely many windows, each by the row of its start.
LEMMA WindowsOfSegment ==
    ASSUME NEW data, Rows(data.bbo)
    PROVE  /\ \A w \in Windows(data) :
                 /\ w.segment = data.segment
                 /\ \E i \in DOMAIN data.bbo : w.start = data.bbo[i]
                 /\ \E i \in DOMAIN data.bbo : w.end = data.bbo[i]
           /\ \A v, w \in Windows(data) : v.start.event = w.start.event => v = w
           /\ IsFiniteSet(Windows(data))
<1>1. ASSUME NEW w \in Windows(data)
      PROVE  /\ w.segment = data.segment
             /\ \E i \in DOMAIN data.bbo : w.start = data.bbo[i]
             /\ \E i \in DOMAIN data.bbo : w.end = data.bbo[i]
  <2>1. PICK d, i : WindowAt(w, data, d, i)
    BY WindowIsAt
  <2>2. PICK q : q = Queue(data.bbo, d)
    OBVIOUS
  <2>3. /\ i \in 1..Len(q) /\ w.start = q[i] /\ w.segment = data.segment
        /\ \E j \in 1..Len(q) : w.end = q[j]
    BY <2>1, <2>2, WindowParts
  <2>4. \A k \in 1..Len(q) : \E m \in DOMAIN data.bbo : q[k] = data.bbo[m]
    BY <2>2, QueueIsDrawn DEF Drawn
  <2>5. QED
    BY <2>3, <2>4
<1>2. ASSUME NEW v \in Windows(data), NEW w \in Windows(data), v.start.event = w.start.event
      PROVE  v = w
  <2>1. PICK d, i : WindowAt(v, data, d, i)
    BY WindowIsAt
  <2>2. PICK e, k : WindowAt(w, data, e, k)
    BY WindowIsAt
  <2>3. PICK q : q = Queue(data.bbo, d)
    OBVIOUS
  <2>4. PICK p : p = Queue(data.bbo, e)
    OBVIOUS
  <2>5. i \in 1..Len(q) /\ v.start = q[i] /\ k \in 1..Len(p) /\ w.start = p[k]
    BY <2>1, <2>2, <2>3, <2>4, WindowParts
  <2>6. Drawn(q, data.bbo, d) /\ Drawn(p, data.bbo, e)
    BY <2>3, <2>4, QueueIsDrawn
  <2>7. v.start = w.start
    <3>1. PICK m \in DOMAIN data.bbo : q[i] = data.bbo[m]
      BY <2>5, <2>6 DEF Drawn
    <3>2. PICK n \in DOMAIN data.bbo : p[k] = data.bbo[n]
      BY <2>5, <2>6 DEF Drawn
    <3>3. data.bbo[m].event = m /\ data.bbo[n].event = n
      BY DEF Rows
    <3>4. m = n
      BY <1>2, <2>5, <3>1, <3>2, <3>3
    <3>5. QED
      BY <2>5, <3>1, <3>2, <3>4
  <2>8. d = e
    <3>1. <<q[i].host, q[i].boot>> = d /\ <<p[k].host, p[k].boot>> = e
      BY <2>5, <2>6 DEF Drawn
    <3>2. QED
      BY <2>5, <2>7, <3>1
  <2>9. i = k
    BY <2>3, <2>4, <2>5, <2>6, <2>7, <2>8 DEF Drawn
  <2>10. QED
    BY <2>1, <2>2, <2>8, <2>9 DEF WindowAt
<1>3. IsFiniteSet(Windows(data))
  <2>1. PICK W : W = Windows(data)
    OBVIOUS
  <2>2. Len(data.bbo) \in Nat /\ DOMAIN data.bbo = 1..Len(data.bbo)
    BY ListIsSeq DEF Rows
  <2> DEFINE f == [w \in W |-> w.start.event]
  <2>3. \A w \in W : w.start.event \in 1..Len(data.bbo)
    <3> SUFFICES ASSUME NEW w \in W PROVE w.start.event \in 1..Len(data.bbo)
      OBVIOUS
    <3>1. PICK i \in DOMAIN data.bbo : w.start = data.bbo[i]
      BY <1>1, <2>1
    <3>2. data.bbo[i].event = i
      BY DEF Rows
    <3>3. QED
      BY <2>2, <3>1, <3>2
  <2>4. \A v, w \in W : f[v] = f[w] => v = w
    BY <1>2, <2>1
  <2>5. f \in Injection(W, 1..Len(data.bbo))
    BY <2>3, <2>4 DEF Injection, IsInjective
  <2>6. IsFiniteSet(1..Len(data.bbo))
    BY <2>2, FS_Interval
  <2>7. IsFiniteSet(W)
    BY <2>5, <2>6, FS_Injection
  <2>8. QED
    BY <2>1, <2>7
<1>4. QED
  BY <1>1, <1>2, <1>3

\* A candidate that is no gap ends at the first time at the horizon, and not
\* late for the cadence.
LEMMA CandidateIsSound ==
    ASSUME NEW q, Len(q) \in Nat, ByTime(q), Deltas(q) # <<>>,
           NEW i \in Starting(q), ~Candidate(q, i).gap
    PROVE  \E j \in 1..Len(q) :
              /\ Candidate(q, i).start = q[i] /\ Candidate(q, i).end = q[j]
              /\ q[j].mono >= q[i].mono + Horizon
              /\ Regular(q[j].mono - (q[i].mono + Horizon), Cadence(TimesOf(q)))
              /\ \A t \in TimesOf(q) : t < q[i].mono + Horizon \/ q[j].mono <= t
<1>1. PICK j : j = EndOf(q, i, Horizon)
  OBVIOUS
<1>2. PICK E : E = EndsOf(q, i, Horizon)
  OBVIOUS
<1>3. i \in 1..Len(q) /\ E # {} /\ Horizon \in Nat /\ Horizon > 0
  BY <1>2, GateAssumption DEF Starting
<1>4. E = {k \in (i + 1)..Len(q) : q[k].mono >= q[i].mono + Horizon}
  BY <1>2 DEF EndsOf
<1>5. j \in E /\ \A k \in E : j <= k
  <2>1. E \subseteq Nat
    BY <1>3, <1>4
  <2>2. PICK k \in E : \A m \in E : k <= m
    BY <1>3, <2>1, LeastNat
  <2>3. j = Min(E)
    BY <1>1, <1>2 DEF EndOf
  <2>4. QED
    BY <2>2, <2>3 DEF Min
<1>6. j \in (i + 1)..Len(q) /\ j \in 1..Len(q) /\ q[j].mono >= q[i].mono + Horizon
  BY <1>3, <1>4, <1>5
<1>7. /\ \A k \in 1..Len(q) : q[k].mono \in Int
      /\ \A k, l \in 1..Len(q) : k < l => q[k].mono <= q[l].mono
  BY DEF ByTime
<1>8. PICK d : d = q[j].mono - (q[i].mono + Horizon)
  OBVIOUS
<1>9. d \in Int
  BY <1>3, <1>6, <1>7, <1>8
<1>10. d <= Tolerance(q)
  <2>1. PICK gap : gap = (d > Tolerance(q))
    OBVIOUS
  <2>2. Candidate(q, i).gap = gap
    <3>1. Candidate(q, i) = [start |-> q[i], end |-> q[j], gap |-> gap]
      BY <1>1, <1>8, <2>1, Zenon DEF Candidate
    <3>2. QED
      BY <3>1
  <2>3. ~gap
    BY <2>2
  <2>4. ~(d > Tolerance(q))
    BY <2>1, <2>3, Zenon
  <2>5. Tolerance(q) \in Int
    BY ToleranceIsOf
  <2>6. QED
    BY <1>9, <2>4, <2>5
<1>11. Regular(d, Cadence(TimesOf(q)))
  BY <1>9, <1>10, ToleratedIsRegular
<1>12. ASSUME NEW t \in TimesOf(q), ~(t < q[i].mono + Horizon) PROVE q[j].mono <= t
  <2>1. PICK k \in 1..Len(q) : t = q[k].mono
    BY DEF TimesOf
  <2>2. q[k].mono >= q[i].mono + Horizon /\ q[k].mono > q[i].mono
    BY <1>3, <1>7, <1>12, <2>1
  <2>3. ~(k < i) /\ k # i
    BY <1>3, <1>7, <2>2
  <2>4. k \in E
    BY <1>3, <1>4, <2>2, <2>3
  <2>5. j = k \/ j < k
    BY <1>5, <1>6, <2>4
  <2>6. CASE j = k
    BY <1>7, <2>1, <2>6
  <2>7. CASE j < k
    BY <1>6, <1>7, <2>1, <2>7
  <2>8. QED
    BY <2>5, <2>6, <2>7
<1>13. Candidate(q, i).start = q[i] /\ Candidate(q, i).end = q[j]
  BY <1>1 DEF Candidate
<1>14. QED
  BY <1>6, <1>8, <1>11, <1>12, <1>13

\* The times of the walk are those of the proper books.
LEMMA TimesAreShown ==
    ASSUME NEW bbo, Rows(bbo), NEW frames, Shown(bbo, frames)
    PROVE  /\ ByTime(Queue(bbo, <<1, 1>>)) /\ IsList(Queue(bbo, <<1, 1>>))
           /\ TimesOf(Queue(bbo, <<1, 1>>)) = Times(frames)
<1>1. PICK q : q = Queue(bbo, <<1, 1>>)
  OBVIOUS
<1>2. \A i \in DOMAIN bbo : bbo[i].mono \in Int /\ bbo[i].wall \in Int
  BY DEF Shown
<1>3. /\ ByTime(q)
      /\ \A i \in DOMAIN bbo : <<bbo[i].host, bbo[i].boot>> = <<1, 1>> =>
            \E k \in 1..Len(q) : q[k] = bbo[i]
  BY <1>1, <1>2, QueueIsByTime
<1>4. IsList(q) /\ \A k \in 1..Len(q) : \E i \in DOMAIN bbo : q[k] = bbo[i]
  BY <1>1, QueueIsDrawn DEF Drawn
<1>5. ASSUME NEW t \in TimesOf(q) PROVE t \in Times(frames)
  <2>1. PICK k \in 1..Len(q) : t = q[k].mono
    BY DEF TimesOf
  <2>2. PICK i \in DOMAIN bbo : q[k] = bbo[i]
    BY <1>4
  <2>3. PICK f : f = frames[bbo[i].offset]
    OBVIOUS
  <2>4. bbo[i].offset \in DOMAIN frames /\ Stands(bbo[i], f)
    BY <2>3 DEF Shown
  <2>5. Proper(f) /\ bbo[i].mono = f.mono
    BY <2>4 DEF Stands
  <2>6. QED
    BY <2>1, <2>2, <2>3, <2>4, <2>5 DEF Times
<1>6. ASSUME NEW t \in Times(frames) PROVE t \in TimesOf(q)
  <2>1. PICK i \in DOMAIN frames : Proper(frames[i]) /\ t = frames[i].mono
    BY DEF Times
  <2>2. PICK k \in DOMAIN bbo : bbo[k].mono = frames[i].mono
    BY <2>1 DEF Shown
  <2>3. <<bbo[k].host, bbo[k].boot>> = <<1, 1>>
    BY DEF Shown
  <2>4. PICK l \in 1..Len(q) : q[l] = bbo[k]
    BY <1>3, <2>3
  <2>5. QED
    BY <2>1, <2>2, <2>4 DEF TimesOf
<1>7. TimesOf(q) = Times(frames)
  BY <1>5, <1>6
<1>8. QED
  BY <1>1, <1>3, <1>4, <1>7

\* The windows of a segment are sound, and do not overlap.
LEMMA SegmentIsSound ==
    ASSUME NEW data, Rows(data.bbo), NEW frames, Shown(data.bbo, frames)
    PROVE  /\ \A w \in Windows(data) : SoundIn(w, frames, Times(frames))
           /\ \A v, w \in Windows(data) : v # w => Apart(v, w)
<1>1. PICK q : q = Queue(data.bbo, <<1, 1>>)
  OBVIOUS
<1>2. IsList(q) /\ ByTime(q) /\ TimesOf(q) = Times(frames)
  BY <1>1, TimesAreShown
<1>3. Len(q) \in Nat
  BY <1>2, ListIsSeq
<1>4. \A k \in 1..Len(q) : \E m \in DOMAIN data.bbo : q[k] = data.bbo[m]
  BY <1>1, QueueIsDrawn DEF Drawn
<1>5. ASSUME NEW w \in Windows(data)
      PROVE  \E i : /\ i \in Starting(q) /\ w = Window(Candidate(q, i), data.segment)
                    /\ Candidate(q, i) \in ToSet(Walk(q)) /\ ~Candidate(q, i).gap
  <2>1. PICK d, i : WindowAt(w, data, d, i)
    BY WindowIsAt
  <2>2. PICK p : p = Queue(data.bbo, d)
    OBVIOUS
  <2>3. i \in Starting(p)
    BY <2>1, <2>2 DEF WindowAt
  <2>4. i \in 1..Len(p)
    BY <2>3 DEF Starting
  <2>5. <<p[i].host, p[i].boot>> = d /\ \E m \in DOMAIN data.bbo : p[i] = data.bbo[m]
    BY <2>2, <2>4, QueueIsDrawn DEF Drawn
  <2>6. d = <<1, 1>>
    BY <2>5 DEF Shown
  <2>7. QED
    BY <1>1, <2>1, <2>6 DEF WindowAt
<1>6. ASSUME NEW w \in Windows(data) PROVE SoundIn(w, frames, Times(frames))
  <2>1. PICK i : /\ i \in Starting(q) /\ w = Window(Candidate(q, i), data.segment)
                 /\ Candidate(q, i) \in ToSet(Walk(q)) /\ ~Candidate(q, i).gap
    BY <1>5
  <2>2. Deltas(q) # <<>>
    <3> SUFFICES ASSUME Deltas(q) = <<>> PROVE FALSE
      OBVIOUS
    <3>1. Walk(q) = <<>>
      BY DEF Walk
    <3>2. QED
      BY <2>1, <3>1 DEF ToSet
  <2>3. PICK j \in 1..Len(q) :
              /\ Candidate(q, i).start = q[i] /\ Candidate(q, i).end = q[j]
              /\ q[j].mono >= q[i].mono + Horizon
              /\ Regular(q[j].mono - (q[i].mono + Horizon), Cadence(TimesOf(q)))
              /\ \A t \in TimesOf(q) : t < q[i].mono + Horizon \/ q[j].mono <= t
    BY <1>2, <1>3, <2>1, <2>2, CandidateIsSound
  <2>4. w.start = q[i] /\ w.end = q[j] /\ i \in 1..Len(q)
    BY <2>1, <2>3 DEF Window, Starting
  <2>5. PICK k \in DOMAIN data.bbo : q[i] = data.bbo[k]
    BY <1>4, <2>4
  <2>6. PICK l \in DOMAIN data.bbo : q[j] = data.bbo[l]
    BY <1>4
  <2>7. Stands(w.start, frames[w.start.offset]) /\ Stands(w.end, frames[w.end.offset])
    BY <2>4, <2>5, <2>6 DEF Shown
  <2>8. /\ w.end.mono >= w.start.mono + Horizon
        /\ Regular(w.end.mono - (w.start.mono + Horizon), Cadence(Times(frames)))
        /\ \A t \in Times(frames) : t < w.start.mono + Horizon \/ w.end.mono <= t
    BY <1>2, <2>3, <2>4
  <2>9. QED
    BY <2>7, <2>8 DEF SoundIn
<1>7. ASSUME NEW v \in Windows(data), NEW w \in Windows(data), v # w PROVE Apart(v, w)
  <2>1. PICK i : /\ v = Window(Candidate(q, i), data.segment)
                 /\ Candidate(q, i) \in ToSet(Walk(q)) /\ ~Candidate(q, i).gap
    BY <1>5
  <2>2. PICK j : /\ w = Window(Candidate(q, j), data.segment)
                 /\ Candidate(q, j) \in ToSet(Walk(q)) /\ ~Candidate(q, j).gap
    BY <1>5
  <2>3. PICK b, c : b = Candidate(q, i) /\ c = Candidate(q, j)
    OBVIOUS
  <2>4. b # c
    BY <1>7, <2>1, <2>2, <2>3
  <2>5. b.end.mono <= c.start.mono \/ c.end.mono <= b.start.mono
    BY <1>2, <2>1, <2>2, <2>3, <2>4, WalkIsApart
  <2>6. v.start = b.start /\ v.end = b.end /\ w.start = c.start /\ w.end = c.end
    BY <2>1, <2>2, <2>3 DEF Window
  <2>7. QED
    BY <2>5, <2>6 DEF Apart
<1>8. QED
  BY <1>6, <1>7
-----------------------------------------------------------------------------
(* The sample *)

\* The evidence of an accepted segment: its books are received while it is
\* captured.
Proved(e) ==
    /\ Rows(e.bbo) /\ e.segment \in Nat
    /\ e.wall_start \in Nat /\ e.wall_end \in Nat
    /\ \A i \in DOMAIN e.bbo : e.bbo[i].wall \in e.wall_start..e.wall_end

LEMMA EvidenceIsProved ==
    ASSUME NEW c \in DOMAIN Captures, NEW r \in Runs, NEW start, Outcome(c, r, start).acceptable
    PROVE  /\ Proved(Outcome(c, r, start).evidence) /\ Outcome(c, r, start).evidence.segment = r
           /\ Outcome(c, r, start).evidence.bbo = PrimaryBBO(Dataset(ResultsOf(c, r, start)))
<1>1. PICK results : results = ResultsOf(c, r, start)
  OBVIOUS
<1>2. PICK ds : ds = Dataset(results)
  OBVIOUS
<1>3. PICK out : out = Outcome(c, r, start)
  OBVIOUS
<1>4. /\ out.acceptable = (Acceptable(ds) /\ ~AuditRefused(ds))
      /\ out.evidence = IF Acceptable(ds) THEN Evidence(ds, r) ELSE [segment |-> r]
  <2>1. PICK normal, buildable, audit :
            out = [normal |-> normal, buildable |-> buildable,
                   acceptable |-> Acceptable(ds) /\ ~AuditRefused(ds),
                   evidence |-> IF Acceptable(ds) THEN Evidence(ds, r) ELSE [segment |-> r],
                   audit |-> audit]
    BY <1>1, <1>2, <1>3, Zenon DEF Outcome
  <2>2. QED
    BY <2>1
<1>5. Acceptable(ds) /\ out.evidence = Evidence(ds, r)
  <2>1. out.acceptable
    BY <1>3
  <2>2. QED
    BY <1>4, <2>1, Zenon
<1>6. PICK lo, hi : lo = Min(Walls(ds)) /\ hi = Max(Walls(ds))
  OBVIOUS
<1>7. PICK bbo : bbo = PrimaryBBO(ds)
  OBVIOUS
<1>8. lo \in Nat /\ hi \in Nat /\ \A i \in DOMAIN bbo : bbo[i].wall \in lo..hi
  BY <1>5, <1>6, <1>7 DEF Acceptable
<1>9. Rows(bbo)
  <2>1. IsList(ds.events)
    BY <1>1, <1>2, ResultsAreListed, DatasetIsListed
  <2>2. QED
    BY <1>7, <2>1, PrimaryBBORows
<1>10. PICK e : e = out.evidence
  OBVIOUS
<1>11. e.bbo = bbo /\ e.wall_start = lo /\ e.wall_end = hi /\ e.segment = r
  BY <1>5, <1>6, <1>7, <1>10 DEF Evidence
<1>12. r \in Nat
  BY FrontierAssumption
<1>13. Proved(e)
  BY <1>8, <1>9, <1>11, <1>12 DEF Proved
<1>14. e.bbo = PrimaryBBO(Dataset(ResultsOf(c, r, start)))
  BY <1>1, <1>2, <1>7, <1>11
<1>15. QED
  BY <1>3, <1>10, <1>11, <1>13, <1>14

\* Evidence of several segments, which can be gathered.
Gathered(E) ==
    /\ IsFiniteSet(E) /\ \A e \in E : Proved(e)
    /\ \A e, f \in E : e.segment = f.segment => e = f
WindowsOf(E) == UNION {Windows(e) : e \in E}

\* The order of the sample on windows.
InTime(W) == {p \in W \X W : Precedes(WindowKey(p[1]), WindowKey(p[2]))}

LEMMA WindowOf ==
    ASSUME NEW E, Gathered(E), NEW w \in WindowsOf(E)
    PROVE  \E e \in E : /\ w \in Windows(e) /\ w.segment = e.segment
                        /\ w.start.event \in Nat
                        /\ w.start.wall \in e.wall_start..e.wall_end
                        /\ w.end.wall \in e.wall_start..e.wall_end
<1>1. PICK e \in E : w \in Windows(e)
  BY DEF WindowsOf
<1>2. Proved(e)
  BY DEF Gathered
<1>3. Rows(e.bbo) /\ \A i \in DOMAIN e.bbo : e.bbo[i].wall \in e.wall_start..e.wall_end
  BY <1>2 DEF Proved
<1>4. /\ w.segment = e.segment
      /\ \E i \in DOMAIN e.bbo : w.start = e.bbo[i]
      /\ \E i \in DOMAIN e.bbo : w.end = e.bbo[i]
  BY <1>1, <1>3, WindowsOfSegment
<1>5. \A i \in DOMAIN e.bbo : e.bbo[i].event \in Nat
  <2>1. IsList(e.bbo) /\ \A i \in DOMAIN e.bbo : e.bbo[i].event = i
    BY <1>3 DEF Rows
  <2>2. DOMAIN e.bbo = 1..Len(e.bbo) /\ Len(e.bbo) \in Nat
    BY <2>1, ListIsSeq
  <2>3. \A i \in DOMAIN e.bbo : i \in Nat
    BY <2>2
  <2>4. QED
    BY <2>1, <2>3
<1>6. QED
  BY <1>1, <1>3, <1>4, <1>5

\* The key of a window is its own.
LEMMA KeysAreTuples ==
    ASSUME NEW E, Gathered(E)
    PROVE  /\ \A w \in WindowsOf(E) : WindowKey(w) \in Tuples(4)
           /\ \A v, w \in WindowsOf(E) : WindowKey(v) = WindowKey(w) => v = w
<1>1. ASSUME NEW w \in WindowsOf(E) PROVE WindowKey(w) \in Tuples(4)
  <2>1. PICK e \in E : /\ w \in Windows(e) /\ w.segment = e.segment
                       /\ w.start.event \in Nat
                       /\ w.start.wall \in e.wall_start..e.wall_end
                       /\ w.end.wall \in e.wall_start..e.wall_end
    BY WindowOf
  <2>2. e.segment \in Nat /\ e.wall_start \in Nat /\ e.wall_end \in Nat
    BY DEF Gathered, Proved
  <2>3. PICK a, b, c, d : a = w.start.wall /\ b = w.end.wall /\ c = w.segment /\ d = w.start.event
    OBVIOUS
  <2>4. a \in Int /\ b \in Int /\ c \in Int /\ d \in Int
    BY <2>1, <2>2, <2>3
  <2>5. <<a, b, c, d>> \in [1..4 -> Int]
    BY <2>4
  <2>6. QED
    BY <2>3, <2>5 DEF WindowKey, Tuples
<1>2. ASSUME NEW v \in WindowsOf(E), NEW w \in WindowsOf(E), WindowKey(v) = WindowKey(w)
      PROVE  v = w
  <2>1. v.segment = w.segment /\ v.start.event = w.start.event
    BY <1>2 DEF WindowKey
  <2>2. PICK e \in E : v \in Windows(e) /\ v.segment = e.segment
    BY WindowOf
  <2>3. PICK f \in E : w \in Windows(f) /\ w.segment = f.segment
    BY WindowOf
  <2>4. e = f
    BY <2>1, <2>2, <2>3 DEF Gathered
  <2>5. Rows(e.bbo)
    BY DEF Gathered, Proved
  <2>6. QED
    BY <2>1, <2>2, <2>3, <2>4, <2>5, WindowsOfSegment
<1>3. QED
  BY <1>1, <1>2

LEMMA WindowsAreFinite ==
    ASSUME NEW E, Gathered(E)
    PROVE  IsFiniteSet(WindowsOf(E))
<1>1. \A e \in E : IsFiniteSet(Windows(e))
  BY WindowsOfSegment DEF Gathered, Proved
<1>2. PICK S : S = {Windows(e) : e \in E}
  OBVIOUS
<1>3. IsFiniteSet(S)
  <2>1. PICK f : f = [e \in E |-> Windows(e)]
    OBVIOUS
  <2>2. f \in Surjection(E, S)
    BY <1>2, <2>1 DEF Surjection
  <2>3. IsFiniteSet(E)
    BY DEF Gathered
  <2>4. QED
    BY <2>2, <2>3, FS_Surjection
<1>4. \A W \in S : IsFiniteSet(W)
  BY <1>1, <1>2
<1>5. IsFiniteSet(UNION S)
  BY <1>3, <1>4, FS_UNION
<1>6. QED
  BY <1>2, <1>5 DEF WindowsOf

\* The windows in the order of the sample are all of them, rising in time.
LEMMA OrderIsRanking ==
    ASSUME NEW E, Gathered(E), NEW R, InTime(WindowsOf(E)) \subseteq R
    PROVE  Ranking(InOrder(WindowsOf(E)), WindowsOf(E), R)
<1>1. PICK W : W = WindowsOf(E)
  OBVIOUS
<1>2. PICK s : s = SetToSeq(W)
  OBVIOUS
<1>3. PICK keys : keys = [i \in DOMAIN s |-> WindowKey(s[i])]
  OBVIOUS
<1>4. /\ s \in Seq(W)
      /\ \A i, j \in 1..Len(s) : s[i] = s[j] => i = j
      /\ \A x \in W : \E i \in 1..Len(s) : s[i] = x
  BY <1>1, <1>2, WindowsAreFinite, ListOfSet
<1>5. IsList(s) /\ Len(s) \in Nat /\ DOMAIN s = 1..Len(s) /\ \A i \in 1..Len(s) : s[i] \in W
  BY <1>4, SeqIsList
<1>6. Len(keys) = Len(s) /\ \A i \in 1..Len(s) : keys[i] = WindowKey(s[i])
  BY <1>3, <1>5
<1>7. \A i \in 1..Len(s) : keys[i] \in Tuples(4)
  BY <1>1, <1>5, <1>6, KeysAreTuples
<1>8. \A i, j \in 1..Len(s) : keys[i] = keys[j] => i = j
  <2> SUFFICES ASSUME NEW i \in 1..Len(s), NEW j \in 1..Len(s), keys[i] = keys[j] PROVE i = j
    OBVIOUS
  <2>1. s[i] \in W /\ s[j] \in W /\ WindowKey(s[i]) = WindowKey(s[j])
    BY <1>5, <1>6
  <2>2. s[i] = s[j]
    BY <1>1, <2>1, KeysAreTuples
  <2>3. QED
    BY <1>4, <2>2
<1>9. \A i, j \in 1..Len(s) : Precedes(keys[i], keys[j]) => <<s[i], s[j]>> \in R
  <2> SUFFICES ASSUME NEW i \in 1..Len(s), NEW j \in 1..Len(s), Precedes(keys[i], keys[j])
               PROVE  <<s[i], s[j]>> \in R
    OBVIOUS
  <2>1. Precedes(WindowKey(s[i]), WindowKey(s[j])) /\ s[i] \in W /\ s[j] \in W
    BY <1>5, <1>6
  <2>2. <<s[i], s[j]>> \in InTime(W)
    BY <2>1 DEF InTime
  <2>3. QED
    BY <1>1, <2>2
<1>10. PICK q : q = Sorted(s, keys)
  OBVIOUS
<1>11. RisingBy(q, R)
  <2>1. 4 \in Nat
    OBVIOUS
  <2>2. RisingBy(Sorted(s, keys), R)
    BY <1>5, <1>6, <1>7, <1>8, <1>9, <2>1, SortedIsRising
  <2>3. QED
    BY <1>10, <2>2
<1>12. /\ q \in Seq(W) /\ Len(q) = Len(s)
       /\ \A i \in 1..Len(s) : \E k \in 1..Len(s) : q[k] = s[i]
  <2>1. s \in Seq(W) /\ Len(keys) = Len(s)
    BY <1>4, <1>6
  <2>2. Rearranged(q, s, W)
    BY <1>10, <2>1, SortedIsRearranged
  <2>3. QED
    BY <2>2 DEF Rearranged
<1>13. \A x \in W : \E k \in 1..Len(q) : q[k] = x
  <2> SUFFICES ASSUME NEW x \in W PROVE \E k \in 1..Len(q) : q[k] = x
    OBVIOUS
  <2>1. PICK i \in 1..Len(s) : s[i] = x
    BY <1>4
  <2>2. PICK k \in 1..Len(s) : q[k] = s[i]
    BY <1>12
  <2>3. QED
    BY <1>12, <2>1, <2>2
<1>14. q = InOrder(W)
  BY <1>2, <1>3, <1>10 DEF InOrder
<1>15. QED
  BY <1>1, <1>11, <1>12, <1>13, <1>14 DEF Ranking

\* Segments that are added behind the others add their windows behind theirs.
LEMMA WindowsGoBehind ==
    ASSUME NEW E, NEW F, E \subseteq F, Gathered(F),
           \A e \in E, f \in F \ E : e.wall_end < f.wall_start
    PROVE  /\ Len(InOrder(WindowsOf(E))) \in Nat /\ Len(InOrder(WindowsOf(F))) \in Nat
           /\ Len(InOrder(WindowsOf(E))) <= Len(InOrder(WindowsOf(F)))
           /\ \A i \in 1..Len(InOrder(WindowsOf(E))) :
                 InOrder(WindowsOf(F))[i] = InOrder(WindowsOf(E))[i]
<1>1. PICK A, B : A = WindowsOf(E) /\ B = WindowsOf(F)
  OBVIOUS
<1>2. PICK R : R = InTime(B)
  OBVIOUS
<1>3. Gathered(E)
  BY FS_Subset DEF Gathered
<1>4. A \subseteq B
  BY <1>1 DEF WindowsOf
<1>5. (\A w \in B : WindowKey(w) \in Tuples(4)) /\ 4 \in Nat
  BY <1>1, KeysAreTuples
<1>6. \A x, y \in B : <<x, y>> \in R => <<y, x>> \notin R
  <2> SUFFICES ASSUME NEW x \in B, NEW y \in B, <<x, y>> \in R, <<y, x>> \in R PROVE FALSE
    OBVIOUS
  <2>1. Precedes(WindowKey(x), WindowKey(y)) /\ Precedes(WindowKey(y), WindowKey(x))
    BY <1>2 DEF InTime
  <2>2. QED
    BY <1>5, <2>1, PrecedesIsAsymmetric
<1>7. Ranking(InOrder(A), A, R)
  <2>1. InTime(A) \subseteq R
    BY <1>2, <1>4 DEF InTime
  <2>2. QED
    BY <1>1, <1>3, <2>1, OrderIsRanking
<1>8. Ranking(InOrder(B), B, R)
  BY <1>1, <1>2, OrderIsRanking
<1>9. ASSUME NEW x \in A, NEW y \in B \ A PROVE <<x, y>> \in R
  <2>1. PICK e \in E : e \in E /\ x.start.wall \in e.wall_start..e.wall_end
    BY <1>1, <1>3, WindowOf
  <2>2. PICK f \in F : /\ y \in Windows(f) /\ y.start.wall \in f.wall_start..f.wall_end
    BY <1>1, WindowOf
  <2>3. f \notin E
    BY <1>1, <2>2 DEF WindowsOf
  <2>4. e.wall_end < f.wall_start
    BY <2>3
  <2>5. e.wall_start \in Nat /\ e.wall_end \in Nat /\ f.wall_start \in Nat /\ f.wall_end \in Nat
    BY DEF Gathered, Proved
  <2>6. x.start.wall < y.start.wall
    BY <2>1, <2>2, <2>4, <2>5
  <2>7. Precedes(WindowKey(x), WindowKey(y))
    <3>1. WindowKey(x)[1] = x.start.wall /\ WindowKey(y)[1] = y.start.wall /\ 1 \in DOMAIN WindowKey(x)
      BY DEF WindowKey
    <3>2. 1..(1 - 1) = {}
      OBVIOUS
    <3>3. QED
      BY <2>6, <3>1, <3>2 DEF Precedes
  <2>8. x \in B /\ y \in B
    BY <1>4
  <2>9. QED
    BY <1>2, <2>7, <2>8 DEF InTime
<1>10. /\ Len(InOrder(A)) <= Len(InOrder(B))
       /\ \A i \in 1..Len(InOrder(A)) : InOrder(B)[i] = InOrder(A)[i]
  <2>1. \A x \in A, y \in B \ A : <<x, y>> \in R
    BY <1>9
  <2>2. PICK a, b : a = InOrder(A) /\ b = InOrder(B)
    OBVIOUS
  <2>3. Ranking(a, A, R) /\ Ranking(b, B, R)
    BY <1>7, <1>8, <2>2, Zenon
  <2>4. Len(a) <= Len(b) /\ \A i \in 1..Len(a) : b[i] = a[i]
    BY <1>4, <1>6, <2>1, <2>3, LaterGoBehind
  <2>5. QED
    BY <2>2, <2>4, Zenon
<1>11. Len(InOrder(A)) \in Nat /\ Len(InOrder(B)) \in Nat
  BY <1>7, <1>8 DEF Ranking
<1>12. QED
  BY <1>1, <1>10, <1>11

\* The report over them takes the same sample, and the same decision.
LEMMA SampleStays ==
    ASSUME NEW E, NEW F, E \subseteq F, Gathered(F),
           \A e \in E, f \in F \ E : e.wall_end < f.wall_start,
           Adjudicate(E).ready
    PROVE  /\ Adjudicate(F).sample = Adjudicate(E).sample
           /\ Adjudicate(F).decision = Adjudicate(E).decision
<1>1. PICK a, b : a = InOrder(WindowsOf(E)) /\ b = InOrder(WindowsOf(F))
  OBVIOUS
<1>2. /\ Len(a) \in Nat /\ Len(b) \in Nat /\ Len(a) <= Len(b)
      /\ \A i \in 1..Len(a) : b[i] = a[i]
  BY <1>1, WindowsGoBehind
<1>0. Required \in Nat /\ Required > 0
  BY GateAssumption
<1>3. PICK s, t : /\ s = SubSeq(a, 1, Min({Required, Len(a)}))
                  /\ t = SubSeq(b, 1, Min({Required, Len(b)}))
  OBVIOUS
<1>4. /\ Len(a) >= Required
      /\ Adjudicate(E).sample = s /\ Adjudicate(E).decision = Decision(s)
  <2>1. PICK ready : ready = (Len(a) >= Required)
    OBVIOUS
  <2>2. PICK total, excluded : Adjudicate(E) = [ready |-> ready, sample |-> s,
                                   total |-> total, excluded |-> excluded, decision |-> Decision(s)]
    BY <1>1, <1>3, <2>1, Zenon DEF Adjudicate, WindowsOf
  <2>3. Adjudicate(E).ready = ready
    BY <2>2
  <2>4. Len(a) >= Required
    BY <2>1, <2>3, Zenon
  <2>5. QED
    BY <2>2, <2>4
<1>5. Adjudicate(F).sample = t /\ Adjudicate(F).decision = Decision(t)
  <2>1. PICK ready : ready = (Len(b) >= Required)
    OBVIOUS
  <2>2. PICK total, excluded : Adjudicate(F) = [ready |-> ready, sample |-> t,
                                   total |-> total, excluded |-> excluded, decision |-> Decision(t)]
    BY <1>1, <1>3, <2>1, Zenon DEF Adjudicate, WindowsOf
  <2>3. QED
    BY <2>2
<1>6. Required <= Len(a) /\ Required <= Len(b)
  BY <1>0, <1>2, <1>4
<1>7. ASSUME NEW n \in Nat, Required <= n PROVE Min({Required, n}) = Required
  BY <1>0, <1>7 DEF Min
<1>8. Min({Required, Len(a)}) = Required /\ Min({Required, Len(b)}) = Required
  BY <1>2, <1>6, <1>7
<1>9. s = SubSeq(a, 1, Required) /\ t = SubSeq(b, 1, Required)
  BY <1>3, <1>8
<1>10. \A i \in 1..Required : i \in 1..Len(a) /\ b[i] = a[i]
  BY <1>0, <1>2, <1>6
<1>11. s = t
  <2>1. PICK S : S = {a[i] : i \in 1..Required}
    OBVIOUS
  <2>2. \A i \in 1..Required : a[i] \in S /\ b[i] \in S
    BY <1>10, <2>1
  <2>3. /\ s \in Seq(S) /\ Len(s) = (IF 1 <= Required THEN Required - 1 + 1 ELSE 0)
        /\ \A i \in 1..(Required - 1 + 1) : s[i] = a[1 + i - 1]
    BY <1>0, <1>9, <2>2, SubSeqProperties
  <2>4. /\ t \in Seq(S) /\ Len(t) = (IF 1 <= Required THEN Required - 1 + 1 ELSE 0)
        /\ \A i \in 1..(Required - 1 + 1) : t[i] = b[1 + i - 1]
    BY <1>0, <1>9, <2>2, SubSeqProperties
  <2>5. Len(s) = Required /\ Len(t) = Required
    BY <1>0, <2>3, <2>4
  <2>6. ASSUME NEW i \in 1..Required PROVE s[i] = t[i]
    <3>1. i \in 1..(Required - 1 + 1) /\ 1 + i - 1 = i
      BY <1>0
    <3>2. s[i] = a[i] /\ t[i] = b[i]
      BY <2>3, <2>4, <3>1
    <3>3. QED
      BY <1>10, <3>2
  <2>7. QED
    BY <2>3, <2>4, <2>5, <2>6, SeqEqual
<1>12. QED
  BY <1>4, <1>5, <1>11
-----------------------------------------------------------------------------
(* The revisions *)

\* A revision is over sealed segments that normalized, were accepted and are
\* compatible, and says what they say.
RevisionInv ==
    \A v \in revisions :
        /\ v.manifest \in Seq(Runs) /\ v.report = Adjudicate(Segments(v.manifest))
        /\ Compatible(Segments(v.manifest))
        /\ \A r \in ToSet(v.manifest) : Sealed(r) /\ Normal(r) /\ Accepted(r)

\* The raw segment of a run stays what it is, once it is sealed.
LEMMA SealedStays ==
    ASSUME FrontierInv, [Next]_vars, NEW r \in Runs, Sealed(r)
    PROVE  raw'[r] = raw[r] /\ base'[r] = base[r]
<1>1. ASSUME NEW q \in Runs, NEW c, NEW start, NEW ok, NEW combined, Record(q, c, start, ok, combined)
      PROVE  raw'[r] = raw[r] /\ base'[r] = base[r]
  <2>1. q # r /\ raw' = [raw EXCEPT ![q] = c] /\ base' = [base EXCEPT ![q] = now + start]
    BY <1>1 DEF Record
  <2>2. QED
    BY <2>1 DEF FrontierInv, FrontierTypeOK
<1>2. CASE UNCHANGED <<raw, base>>
  BY <1>2
<1>3. \/ \E q \in Runs : \E c, start, ok, combined : Record(q, c, start, ok, combined)
      \/ UNCHANGED <<raw, base>>
  BY DEF Next, vars, CaptureStep, WriteSummary, WriteReady, PickNext, ProcessorStep,
         Claim, Normalize, Build, Rename, Accept, Publish, ReportStep, StartScan, ScanNext,
         WriteRevision, Fault, KillProcessor, KillCapture, KillReport, PowerLoss
<1>4. QED
  BY <1>1, <1>2, <1>3

\* Its evidence stays too.
LEMMA EvidenceStays ==
    ASSUME FrontierInv, [Next]_vars, NEW r \in Runs, Sealed(r)
    PROVE  /\ EvidenceOf(r)' = EvidenceOf(r)
           /\ Sealed(r)' /\ (Normal(r) => Normal(r)') /\ (Accepted(r) => Accepted(r)')
<1>1. raw'[r] = raw[r] /\ base'[r] = base[r]
  BY SealedStays
<1>2. OutcomeOf(r)' = OutcomeOf(r)
  BY <1>1 DEF OutcomeOf
<1>3. QED
  BY <1>1, <1>2 DEF EvidenceOf, Sealed, Normal, Accepted

\* A revision is added over what the report has found, or none is.
LEMMA RevisionAdded ==
    ASSUME [Next]_vars, NEW v \in revisions' \ revisions
    PROVE  /\ v.manifest = scan.found /\ v.report = Adjudicate(Segments(scan.found))
           /\ Compatible(Segments(scan.found))
           /\ UNCHANGED <<raw, base>>
<1>1. CASE WriteRevision
  <2>1. v = Revision(scan.found) /\ Compatible(Segments(scan.found))
    BY <1>1 DEF WriteRevision
  <2>2. QED
    BY <1>1, <2>1 DEF Revision, WriteRevision
<1>2. CASE KillReport
  <2>1. v = [Revision(scan.found) EXCEPT !.torn = TRUE] /\ Compatible(Segments(scan.found))
    BY <1>2 DEF KillReport
  <2>2. QED
    BY <1>2, <2>1 DEF Revision, KillReport
<1>3. CASE revisions' = revisions
  BY <1>3
<1>4. WriteRevision \/ KillReport \/ revisions' = revisions
  BY DEF Next, vars, CaptureStep, Record, WriteSummary, WriteReady, PickNext, ProcessorStep,
         Claim, Normalize, Build, Rename, Accept, Publish, ReportStep, StartScan, ScanNext,
         Fault, KillProcessor, KillCapture, PowerLoss
<1>5. QED
  BY <1>1, <1>2, <1>3, <1>4

LEMMA RevisionStep == FrontierInv /\ RevisionInv /\ [Next]_vars => RevisionInv'
<1> SUFFICES ASSUME FrontierInv, RevisionInv, [Next]_vars, NEW v \in revisions'
             PROVE  /\ v.manifest \in Seq(Runs) /\ v.report = Adjudicate(Segments(v.manifest)')
                    /\ Compatible(Segments(v.manifest)')
                    /\ \A r \in ToSet(v.manifest) : Sealed(r)' /\ Normal(r)' /\ Accepted(r)'
  BY DEF RevisionInv
<1>1. /\ v.manifest \in Seq(Runs) /\ v.report = Adjudicate(Segments(v.manifest))
      /\ Compatible(Segments(v.manifest))
      /\ \A r \in ToSet(v.manifest) : Sealed(r) /\ Normal(r) /\ Accepted(r)
  <2>1. CASE v \in revisions
    BY <2>1 DEF RevisionInv
  <2>2. CASE v \notin revisions
    <3>1. /\ v.manifest = scan.found /\ v.report = Adjudicate(Segments(scan.found))
          /\ Compatible(Segments(scan.found))
      BY <2>2, RevisionAdded
    <3>2. scan.found \in Seq(Runs) /\ FoundInv
      BY DEF FrontierInv, FrontierTypeOK
    <3>3. ASSUME NEW r \in ToSet(scan.found) PROVE Sealed(r) /\ Normal(r) /\ Accepted(r)
      <4>1. r \in Runs /\ Loadable(r)
        BY <3>2, <3>3 DEF ToSet, FoundInv
      <4>2. Exists(r, "evidence")
        BY <4>1 DEF Loadable, Whole, Exists
      <4>3. QED
        BY <4>1, <4>2 DEF FrontierInv, SealedInv, NormalInv, Names
    <3>4. QED
      BY <3>1, <3>2, <3>3
  <2>3. QED
    BY <2>1, <2>2
<1>2. \A r \in ToSet(v.manifest) : r \in Runs
  BY <1>1 DEF ToSet
<1>3. ASSUME NEW r \in ToSet(v.manifest)
      PROVE  EvidenceOf(r)' = EvidenceOf(r) /\ Sealed(r)' /\ Normal(r)' /\ Accepted(r)'
  BY <1>1, <1>2, EvidenceStays
<1>4. Segments(v.manifest)' = Segments(v.manifest)
  <2>1. Segments(v.manifest)' = {EvidenceOf(r)' : r \in ToSet(v.manifest)}
    BY DEF Segments
  <2>2. Segments(v.manifest) = {EvidenceOf(r) : r \in ToSet(v.manifest)}
    BY DEF Segments
  <2>3. QED
    BY <1>3, <2>1, <2>2
<1>5. QED
  BY <1>1, <1>3, <1>4

LEMMA RevisionsHold == Spec => []RevisionInv
<1>1. Init => RevisionInv
  BY DEF Init, RevisionInv
<1>2. QED
  BY <1>1, FrontierInvariant, RevisionStep, PTL DEF Spec

\* An accepted segment has the evidence of its captures.
LEMMA AcceptedIsProved ==
    ASSUME FrontierInv, NEW r \in Runs, Sealed(r), Accepted(r)
    PROVE  /\ Proved(EvidenceOf(r)) /\ EvidenceOf(r).segment = r
           /\ EvidenceOf(r).bbo = PrimaryBBO(Dataset(ResultsOf(raw[r], r, base[r])))
<1>1. raw[r] \in DOMAIN Captures /\ base[r] \in Clocks
  BY DEF FrontierInv, SealedInv
<1>2. OutcomeOf(r) = Outcome(raw[r], r, base[r])
  BY <1>1 DEF OutcomeOf, Outcomes
<1>3. Outcome(raw[r], r, base[r]).acceptable
  BY <1>2, Zenon DEF Accepted
<1>4. /\ Proved(Outcome(raw[r], r, base[r]).evidence)
      /\ Outcome(raw[r], r, base[r]).evidence.segment = r
      /\ Outcome(raw[r], r, base[r]).evidence.bbo = PrimaryBBO(Dataset(ResultsOf(raw[r], r, base[r])))
  BY <1>1, <1>3, EvidenceIsProved
<1>5. QED
  BY <1>2, <1>4, Zenon DEF EvidenceOf

\* The segments of a manifest can be gathered, each with the evidence of its own.
LEMMA ManifestIsGathered ==
    ASSUME FrontierInv, NEW manifest \in Seq(Runs),
           \A r \in ToSet(manifest) : Sealed(r) /\ Accepted(r)
    PROVE  Gathered(Segments(manifest))
<1>1. PICK S, E : S = ToSet(manifest) /\ E = {EvidenceOf(r) : r \in S}
  OBVIOUS
<1>2. S \subseteq Runs
  BY <1>1 DEF ToSet
<1>3. \A r \in S : Proved(EvidenceOf(r)) /\ EvidenceOf(r).segment = r
  BY <1>1, <1>2, AcceptedIsProved
<1>4. IsFiniteSet(E)
  <2>1. IsFiniteSet(S)
    BY <1>2, FS_Subset, FrontierAssumption
  <2>2. PICK f : f = [r \in S |-> EvidenceOf(r)]
    OBVIOUS
  <2>3. f \in Surjection(S, E)
    BY <1>1, <2>2 DEF Surjection
  <2>4. QED
    BY <2>1, <2>3, FS_Surjection
<1>5. \A e \in E : Proved(e)
  BY <1>1, <1>3
<1>6. \A e, f \in E : e.segment = f.segment => e = f
  BY <1>1, <1>3
<1>7. Gathered(E)
  BY <1>4, <1>5, <1>6 DEF Gathered
<1>8. QED
  BY <1>1, <1>7 DEF Segments

LEMMA RevisionsKeepSample == FrontierInv /\ RevisionInv => LaterSegmentsKeepSample
<1> SUFFICES ASSUME FrontierInv, RevisionInv, NEW v \in revisions, NEW w \in revisions,
                    ToSet(v.manifest) \subseteq ToSet(w.manifest), v.report.ready,
                    \A r \in ToSet(w.manifest) \ ToSet(v.manifest) : Later(r, v.manifest)
             PROVE  /\ w.report.sample = v.report.sample
                    /\ w.report.decision = v.report.decision
  BY DEF LaterSegmentsKeepSample
<1>1. /\ w.manifest \in Seq(Runs)
      /\ v.report = Adjudicate(Segments(v.manifest))
      /\ w.report = Adjudicate(Segments(w.manifest))
      /\ \A r \in ToSet(w.manifest) : Sealed(r) /\ Accepted(r)
  BY DEF RevisionInv
<1>2. PICK E, F : E = Segments(v.manifest) /\ F = Segments(w.manifest)
  OBVIOUS
<1>3. E \subseteq F
  BY <1>2 DEF Segments
<1>4. Gathered(F)
  BY <1>1, <1>2, ManifestIsGathered
<1>5. ASSUME NEW e \in E, NEW f \in F \ E PROVE e.wall_end < f.wall_start
  <2>1. PICK q \in ToSet(v.manifest) : e = EvidenceOf(q)
    BY <1>2 DEF Segments
  <2>2. PICK r \in ToSet(w.manifest) : f = EvidenceOf(r)
    BY <1>2 DEF Segments
  <2>3. r \notin ToSet(v.manifest)
    BY <1>2, <1>5, <2>2 DEF Segments
  <2>4. QED
    BY <2>1, <2>2, <2>3 DEF Later
<1>6. Adjudicate(E).ready
  BY <1>1, <1>2, Zenon
<1>7. \A e \in E, f \in F \ E : e.wall_end < f.wall_start
  BY <1>5
<1>8. /\ Adjudicate(F).sample = Adjudicate(E).sample
      /\ Adjudicate(F).decision = Adjudicate(E).decision
  BY <1>3, <1>4, <1>6, <1>7, SampleStays
<1>9. QED
  BY <1>1, <1>2, <1>8, Zenon

\* Once the sample of a revision is complete, every revision over the same
\* segments and later ones has the same sample and takes the same decision,
\* whatever the captures hold and however many segments follow
\* (adjudicate_windows sorts by the receipt of a window and takes the first).
THEOREM LaterSegmentsKeepSampleHolds == Spec => []LaterSegmentsKeepSample
<1>1. Spec => []RevisionInv
  BY RevisionsHold
<1>2. QED
  BY <1>1, FrontierInvariant, RevisionsKeepSample, PTL
-----------------------------------------------------------------------------
(* The windows of a revision *)

\* The evidence of a published segment shows its raw segment.
LEMMA EvidenceIsShown ==
    ASSUME FrontierInv, NEW r \in Runs, Sealed(r), Normal(r), Accepted(r)
    PROVE  Shown(EvidenceOf(r).bbo, RawFrames(r))
<1>1. raw[r] \in DOMAIN Captures /\ base[r] \in Int
  BY FrontierAssumption DEF FrontierInv, SealedInv
<1>2. Errors(ResultsOf(raw[r], r, base[r])) = {}
  BY NormalHasNoErrors
<1>3. Shown(PrimaryBBO(Dataset(ResultsOf(raw[r], r, base[r]))), FramesOf(raw[r], r, base[r]))
  BY <1>1, <1>2, BooksAreShown
<1>4. EvidenceOf(r).bbo = PrimaryBBO(Dataset(ResultsOf(raw[r], r, base[r])))
  BY AcceptedIsProved
<1>5. QED
  BY <1>3, <1>4, Zenon DEF RawFrames

\* A sample is of windows, in the order of their receipt, each once.
Sampled(s, W) ==
    /\ \A i \in DOMAIN s : s[i] \in W
    /\ \A i, j \in DOMAIN s : i < j => Precedes(WindowKey(s[i]), WindowKey(s[j])) /\ s[i] # s[j]

LEMMA SampleIsSampled ==
    ASSUME NEW E, Gathered(E)
    PROVE  Sampled(Adjudicate(E).sample, WindowsOf(E))
<1>1. PICK W : W = WindowsOf(E)
  OBVIOUS
<1>2. PICK a : a = InOrder(W)
  OBVIOUS
<1>3. PICK m : m = Min({Required, Len(a)})
  OBVIOUS
<1>4. PICK s : s = SubSeq(a, 1, m)
  OBVIOUS
<1>5. Adjudicate(E).sample = s
  <2>1. PICK ready, total, excluded, decision :
           Adjudicate(E) = [ready |-> ready, sample |-> s, total |-> total,
                            excluded |-> excluded, decision |-> decision]
    BY <1>1, <1>2, <1>3, <1>4, Zenon DEF Adjudicate, WindowsOf
  <2>2. QED
    BY <2>1
<1>6. Ranking(a, W, InTime(W))
  BY <1>1, <1>2, OrderIsRanking
<1>7. a \in Seq(W) /\ RisingBy(a, InTime(W))
  BY <1>6 DEF Ranking
<1>8. Len(a) \in Nat /\ \A i \in 1..Len(a) : a[i] \in W
  BY <1>7
<1>9. m \in Nat /\ m <= Len(a)
  <2>1. Required \in Nat
    BY GateAssumption
  <2>2. PICK x \in {Required, Len(a)} : \A y \in {Required, Len(a)} : x <= y
    <3>1. Required <= Len(a) \/ Len(a) <= Required
      BY <1>8, <2>1
    <3>2. QED
      BY <1>8, <2>1, <3>1
  <2>3. m \in {Required, Len(a)} /\ m <= Len(a)
    BY <1>3, <2>2 DEF Min
  <2>4. QED
    BY <1>8, <2>1, <2>3
<1>10. /\ s \in Seq(W) /\ Len(s) = (IF 1 <= m THEN m - 1 + 1 ELSE 0)
       /\ \A i \in 1..(m - 1 + 1) : s[i] = a[1 + i - 1]
  <2>1. 1 \in Int /\ m \in Int /\ \A i \in 1..m : a[i] \in W
    BY <1>8, <1>9
  <2>2. QED
    BY <1>4, <2>1, SubSeqProperties
<1>11. DOMAIN s = 1..m /\ \A i \in 1..m : s[i] = a[i] /\ i \in 1..Len(a)
  <2>1. Len(s) = m /\ DOMAIN s = 1..Len(s)
    BY <1>9, <1>10
  <2>2. ASSUME NEW i \in 1..m PROVE s[i] = a[i] /\ i \in 1..Len(a)
    <3>1. i \in 1..(m - 1 + 1) /\ 1 + i - 1 = i
      BY <1>9
    <3>2. QED
      BY <1>8, <1>9, <1>10, <3>1
  <2>3. QED
    BY <2>1, <2>2
<1>12. \A i \in DOMAIN s : s[i] \in W
  BY <1>8, <1>11
<1>13. ASSUME NEW i \in DOMAIN s, NEW j \in DOMAIN s, i < j
       PROVE  Precedes(WindowKey(s[i]), WindowKey(s[j])) /\ s[i] # s[j]
  <2>1. i \in 1..Len(a) /\ j \in 1..Len(a) /\ s[i] = a[i] /\ s[j] = a[j]
    BY <1>11
  <2>2. <<a[i], a[j]>> \in InTime(W)
    BY <1>7, <1>13, <2>1 DEF RisingBy
  <2>3. Precedes(WindowKey(s[i]), WindowKey(s[j]))
    BY <2>1, <2>2 DEF InTime
  <2>4. WindowKey(s[i]) \in Tuples(4) /\ WindowKey(s[j]) \in Tuples(4) /\ 4 \in Nat
    BY <1>1, <1>12, KeysAreTuples
  <2>5. ~Precedes(WindowKey(s[j]), WindowKey(s[i]))
    BY <2>3, <2>4, PrecedesIsAsymmetric
  <2>6. s[i] # s[j]
    <3> SUFFICES ASSUME s[i] = s[j] PROVE FALSE
      OBVIOUS
    <3>1. QED
      BY <2>3, <2>5
  <2>7. QED
    BY <2>3, <2>6
<1>14. Sampled(s, W)
  BY <1>12, <1>13 DEF Sampled
<1>15. QED
  BY <1>1, <1>5, <1>14

\* A window that comes first starts no later.
LEMMA FirstStartsFirst ==
    ASSUME NEW v, NEW w, v.start.wall \in Int, w.start.wall \in Int,
           Precedes(WindowKey(v), WindowKey(w))
    PROVE  v.start.wall <= w.start.wall
<1>1. PICK k \in DOMAIN WindowKey(v) :
         /\ WindowKey(v)[k] < WindowKey(w)[k]
         /\ \A j \in 1..(k - 1) : WindowKey(v)[j] = WindowKey(w)[j]
  BY DEF Precedes
<1>2. /\ DOMAIN WindowKey(v) = 1..4
      /\ WindowKey(v)[1] = v.start.wall /\ WindowKey(w)[1] = w.start.wall
  BY DEF WindowKey
<1>3. CASE k = 1
  BY <1>1, <1>2, <1>3
<1>4. CASE k # 1
  <2>1. 1 \in 1..(k - 1)
    BY <1>2, <1>4
  <2>2. QED
    BY <1>1, <1>2, <2>1
<1>5. QED
  BY <1>3, <1>4

LEMMA RevisionIsSound ==
    ASSUME FrontierInv, RevisionInv, NEW v \in revisions, NEW s, s = v.report.sample
    PROVE  /\ \A i \in DOMAIN s : SoundWindow(s[i])
           /\ \A i, j \in DOMAIN s :
                 i < j => IF s[i].segment = s[j].segment THEN Apart(s[i], s[j])
                                                         ELSE s[i].end.wall < s[j].start.wall
<1>1. /\ v.manifest \in Seq(Runs) /\ v.report = Adjudicate(Segments(v.manifest))
      /\ Compatible(Segments(v.manifest))
      /\ \A r \in ToSet(v.manifest) : Sealed(r) /\ Normal(r) /\ Accepted(r)
  BY DEF RevisionInv
<1>2. PICK E : E = Segments(v.manifest)
  OBVIOUS
<1>3. Gathered(E) /\ Compatible(E)
  BY <1>1, <1>2, ManifestIsGathered
<1>4. Sampled(s, WindowsOf(E))
  <2>1. s = Adjudicate(E).sample
    BY <1>1, <1>2
  <2>2. QED
    BY <1>3, <2>1, SampleIsSampled
<1>5. \A i \in DOMAIN s : s[i] \in WindowsOf(E)
  BY <1>4 DEF Sampled
<1>6. ASSUME NEW e \in E
      PROVE  /\ Rows(e.bbo) /\ Shown(e.bbo, RawFrames(e.segment))
             /\ e.wall_start \in Nat /\ e.wall_end \in Nat
  <2>1. PICK r \in ToSet(v.manifest) : e = EvidenceOf(r)
    BY <1>2 DEF Segments
  <2>2. r \in Runs /\ Sealed(r) /\ Normal(r) /\ Accepted(r)
    BY <1>1 DEF ToSet
  <2>3. Proved(e) /\ e.segment = r
    BY <2>1, <2>2, AcceptedIsProved
  <2>4. Shown(e.bbo, RawFrames(r))
    BY <2>1, <2>2, EvidenceIsShown
  <2>5. QED
    BY <2>3, <2>4 DEF Proved
<1>7. ASSUME NEW w \in WindowsOf(E)
      PROVE  \E e \in E : /\ w \in Windows(e) /\ w.segment = e.segment
                          /\ w.start.wall \in e.wall_start..e.wall_end
                          /\ w.end.wall \in e.wall_start..e.wall_end
  BY <1>3, WindowOf
<1>8. ASSUME NEW i \in DOMAIN s PROVE SoundWindow(s[i])
  <2>1. PICK e \in E : s[i] \in Windows(e) /\ s[i].segment = e.segment
    BY <1>5, <1>7
  <2>2. PICK frames : frames = RawFrames(e.segment)
    OBVIOUS
  <2>3. Rows(e.bbo) /\ Shown(e.bbo, frames)
    BY <1>6, <2>2
  <2>4. SoundIn(s[i], frames, Times(frames))
    BY <2>1, <2>3, SegmentIsSound
  <2>5. QED
    BY <2>1, <2>2, <2>4, Zenon DEF SoundWindow
<1>9. ASSUME NEW i \in DOMAIN s, NEW j \in DOMAIN s, i < j
      PROVE  IF s[i].segment = s[j].segment THEN Apart(s[i], s[j])
                                            ELSE s[i].end.wall < s[j].start.wall
  <2>1. PICK x, y : x = s[i] /\ y = s[j]
    OBVIOUS
  <2>2. Precedes(WindowKey(x), WindowKey(y)) /\ x # y
    BY <1>4, <1>9, <2>1 DEF Sampled
  <2>3. PICK e \in E : /\ x \in Windows(e) /\ x.segment = e.segment
                       /\ x.start.wall \in e.wall_start..e.wall_end
                       /\ x.end.wall \in e.wall_start..e.wall_end
    BY <1>5, <1>7, <2>1
  <2>4. PICK f \in E : /\ y \in Windows(f) /\ y.segment = f.segment
                       /\ y.start.wall \in f.wall_start..f.wall_end
                       /\ y.end.wall \in f.wall_start..f.wall_end
    BY <1>5, <1>7, <2>1
  <2>5. CASE x.segment = y.segment
    <3>1. e = f
      BY <1>3, <2>3, <2>4, <2>5 DEF Gathered
    <3>2. Apart(x, y)
      BY <1>6, <2>2, <2>3, <2>4, <3>1, SegmentIsSound
    <3>3. QED
      BY <2>1, <2>5, <3>2
  <2>6. CASE x.segment # y.segment
    <3>1. e # f
      BY <2>3, <2>4, <2>6
    <3>2. e.wall_end < f.wall_start \/ f.wall_end < e.wall_start
      BY <1>3, <3>1 DEF Compatible
    <3>3. /\ e.wall_start \in Nat /\ e.wall_end \in Nat
          /\ f.wall_start \in Nat /\ f.wall_end \in Nat
      BY <1>6
    <3>4. x.start.wall <= y.start.wall
      BY <2>2, <2>3, <2>4, <3>3, FirstStartsFirst
    <3>5. x.end.wall < y.start.wall
      BY <2>3, <2>4, <3>2, <3>3, <3>4
    <3>6. QED
      BY <2>1, <2>6, <3>5
  <2>7. QED
    BY <2>5, <2>6
<1>10. QED
  BY <1>8, <1>9

LEMMA RevisionsAreSound == FrontierInv /\ RevisionInv => WindowsAreSound
<1> SUFFICES ASSUME FrontierInv, RevisionInv PROVE WindowsAreSound
  OBVIOUS
<1>1. ASSUME NEW v \in revisions, NEW s, s = v.report.sample
      PROVE  /\ \A i \in DOMAIN s : SoundWindow(s[i])
             /\ \A i, j \in DOMAIN s :
                   i < j => IF s[i].segment = s[j].segment THEN Apart(s[i], s[j])
                                                           ELSE s[i].end.wall < s[j].start.wall
  BY <1>1, RevisionIsSound
<1>2. QED
  BY <1>1 DEF WindowsAreSound

\* Whatever a capture holds, the windows of every sample start and end at proper
\* books of the raw segments, as they were received; each ends at the first book
\* at the horizon, and no later than the cadence allows; none of one segment
\* overlap, and those of two segments are in the order of the segments
\* (build_segment_windows behind normalization, dataset and acceptance).
THEOREM WindowsAreSoundHolds == Spec => []WindowsAreSound
<1>1. Spec => []RevisionInv
  BY RevisionsHold
<1>2. QED
  BY <1>1, FrontierInvariant, RevisionsAreSound, PTL
=============================================================================
