------------------------- MODULE SegmentStoreProofs -------------------------
(***************************************************************************)
(* Proofs about SegmentStore for every set of segments, every number of    *)
(* frames and any sequence of kills and power losses.                      *)
(***************************************************************************)
EXTENDS SegmentStore, TLAPS
-----------------------------------------------------------------------------
(* The inductive invariant. *)

\* A segment without a name has nothing to survive, and one with its final name
\* is whole (seal_segment fsyncs before it renames).
FileInv ==
    \A s \in Segments :
        /\ file[s].synced <= file[s].frames
        /\ file[s].name = "none" => file[s].link = "none"
        /\ file[s].link = "final" => file[s].name = "final"
        /\ file[s].name = "final" => file[s].tail = "CLEAN" /\ file[s].synced = file[s].frames

\* What the process knows of its segment at each step.
StepInv ==
    /\ pc = "open" => /\ file[cur].name = "open" /\ file[cur].tail = "CLEAN"
                      /\ file[cur].frames <= written
    /\ pc = "fsynced" => /\ file[cur].name = "open" /\ file[cur].tail = "CLEAN"
                         /\ file[cur].synced = file[cur].frames
    /\ pc = "renamed" => file[cur].name = "final"
    /\ pc \in {"linked", "temp", "tempsynced", "replaced"} =>
          file[cur].name = "final" /\ file[cur].link = "final"
    /\ pc = "tempsynced" => temp = "whole"
    /\ pc = "replaced" => \E r \in manifest.records : r.segment = cur

\* A manifest that processes see, or that a power loss may bring back, decodes,
\* and the segments it names are there for good, with the frames it says.
SoundManifest(m) ==
    /\ m.synced /\ ~m.torn
    /\ \A r \in m.records : /\ file[r.segment].name = "final"
                            /\ file[r.segment].link = "final"
                            /\ file[r.segment].frames = r.frames
ManifestInv ==
    /\ SoundManifest(manifest) /\ SoundManifest(secured)
    /\ secured.records \subseteq manifest.records

PublishedInv == \A s \in published : \E r \in secured.records : r.segment = s

StoreInv == StoreTypeOK /\ FileInv /\ StepInv /\ ManifestInv /\ PublishedInv

\* What was called durable is synced, and its file has a name that survives,
\* provided that the fsync of a new file secures the name as well.
ClaimInv ==
    \A s \in Segments :
        /\ claimed[s] <= file[s].synced
        /\ claimed[s] > 0 => file[s].link # "none"
-----------------------------------------------------------------------------
(* What a power loss leaves of a file. *)

LEMMA LeftoversFacts ==
    ASSUME NEW f \in Files, f.synced <= f.frames,
           NEW g \in Leftovers(f)
    PROVE  /\ g \in Files
           /\ g.link = g.name /\ g.synced = g.frames
           /\ \/ /\ g.name \in {f.name, f.link} /\ g.name # "none"
                 /\ f.synced <= g.frames /\ g.frames <= f.frames
                 /\ g.tail # "CLEAN" => f.tail # "CLEAN" \/ g.frames < f.frames
              \/ g = NoFile /\ f.link = "none"
<1>1. CASE g = NoFile /\ f.link = "none"
  BY <1>1 DEF Files, NoFile, Names, TailStates
<1>2. CASE /\ g \in [name: {f.name, f.link} \ {"none"}, link: {f.name, f.link},
                     frames: f.synced .. f.frames, synced: f.synced .. f.frames,
                     tail: TailStates]
           /\ g.link = g.name /\ g.synced = g.frames
           /\ g.tail # "CLEAN" => f.tail # "CLEAN" \/ g.frames < f.frames
  BY <1>2 DEF Files
<1> QED
  BY <1>1, <1>2 DEF Leftovers

\* The file of a living process counts with its buffered frames.
Buffered(s) == IF pc = "open" /\ s = cur THEN [file[s] EXCEPT !.frames = written] ELSE file[s]

LEMMA PowerLossFiles ==
    ASSUME StoreInv, PowerLoss
    PROVE  /\ file' \in [Segments -> Files]
           /\ \A s \in Segments : /\ Buffered(s) \in Files
                                  /\ Buffered(s).synced <= Buffered(s).frames
                                  /\ file'[s] \in Leftovers(Buffered(s))
<1>1. ASSUME NEW s \in Segments
      PROVE  /\ Buffered(s) \in Files
             /\ Buffered(s).synced <= Buffered(s).frames
  BY <1>1 DEF StoreInv, StoreTypeOK, FileInv, StepInv, Buffered, Files
<1>2. /\ DOMAIN file' = Segments
      /\ file' = [s \in Segments |-> file'[s]]
      /\ \A s \in Segments : file'[s] \in Leftovers(Buffered(s))
  BY Zenon DEF PowerLoss, Buffered
<1>3. \A s \in Segments : file'[s] \in Files
  BY <1>1, <1>2, LeftoversFacts
<1> QED
  BY <1>1, <1>2, <1>3
-----------------------------------------------------------------------------
(* The invariant holds initially and every step keeps it. *)

LEMMA StoreInit == Init => StoreInv
<1> SUFFICES ASSUME Init PROVE StoreInv
  OBVIOUS
<1> USE DEF Init, NoFile, NoManifest
<1>1. StoreTypeOK
  BY DEF StoreTypeOK, Files, Names, TailStates, Manifests, TempNames, Steps
<1>2. FileInv /\ StepInv /\ ManifestInv /\ PublishedInv
  BY DEF FileInv, StepInv, ManifestInv, SoundManifest, PublishedInv
<1> QED
  BY <1>1, <1>2 DEF StoreInv

\* The steps of RawLog and of recovery, and a kill, touch the file of one segment
\* that has not got its final name, and no manifest.
FileStep(s, f) ==
    /\ file[s].name \in {"none", "open"}
    /\ f \in Files /\ f.name = "open" /\ f.link # "final" /\ f.synced <= f.frames
    /\ file' = [file EXCEPT ![s] = f]
    /\ UNCHANGED <<manifest, secured, temp, published>>

LEMMA FileStepInv ==
    ASSUME StoreInv, NEW s \in Segments, NEW f, FileStep(s, f)
    PROVE  /\ file' \in [Segments -> Files]
           /\ FileInv' /\ ManifestInv' /\ PublishedInv'
<1>1. /\ f \in Files /\ f.name = "open" /\ f.link # "final" /\ f.synced <= f.frames
      /\ file' = [file EXCEPT ![s] = f]
  BY DEF FileStep
<1>2. file' \in [Segments -> Files]
  BY <1>1 DEF StoreInv, StoreTypeOK
<1>3. FileInv'
  BY <1>1 DEF StoreInv, StoreTypeOK, FileInv
<1>4. ASSUME NEW m \in Manifests, SoundManifest(m)
      PROVE  \A r \in m.records : file'[r.segment] = file[r.segment]
  BY <1>1, <1>4 DEF SoundManifest, FileStep, StoreInv, StoreTypeOK, Manifests, Records
<1>5. ManifestInv'
  BY <1>4 DEF StoreInv, StoreTypeOK, ManifestInv, SoundManifest, FileStep
<1>6. PublishedInv'
  BY DEF StoreInv, PublishedInv, FileStep
<1> QED
  BY <1>2, <1>3, <1>5, <1>6

LEMMA FsyncFacts ==
    ASSUME NEW f \in Files, f.name = "open", f.link # "final"
    PROVE  /\ FsyncFile(f) \in Files /\ FsyncFile(f).name = "open"
           /\ FsyncFile(f).link # "final"
           /\ FsyncFile(f).synced = f.frames /\ FsyncFile(f).frames = f.frames
           /\ FsyncFile(f).tail = f.tail
<1> DEFINE l == IF FsyncLinksFile /\ f.link = "none" THEN f.name ELSE f.link
<1>1. l \in Names /\ l # "final"
  BY DEF Files, Names
<1>2. FsyncFile(f) = [f EXCEPT !.synced = f.frames, !.link = l]
  BY DEF FsyncFile
<1> HIDE DEF l
<1> QED
  BY <1>1, <1>2 DEF Files

LEMMA StoreStep ==
    ASSUME StoreInv, [Next]_vars
    PROVE  StoreInv'
<1> USE DEF process, history
<1>type. StoreTypeOK /\ FileInv /\ StepInv /\ ManifestInv /\ PublishedInv
  BY DEF StoreInv
<1>1. ASSUME NEW s \in Segments, Open(s)
      PROVE  StoreInv'
  <2> DEFINE f == [NoFile EXCEPT !.name = "open"]
  <2>1. FileStep(s, f)
    <3>1. f \in Files /\ f.name = "open" /\ f.link # "final" /\ f.synced <= f.frames
      BY DEF NoFile, Files, Names, TailStates
    <3> QED
      BY <1>1, <3>1 DEF Open, FileStep
  <2>2. file' \in [Segments -> Files] /\ FileInv' /\ ManifestInv' /\ PublishedInv'
    BY <2>1, FileStepInv
  <2>3. StepInv'
    BY <1>1, <1>type DEF Open, StepInv, StoreTypeOK, NoFile
  <2>4. StoreTypeOK'
    BY <1>1, <1>type, <2>2 DEF Open, StoreTypeOK, Steps
  <2> QED
    BY <2>2, <2>3, <2>4 DEF StoreInv
<1>2. ASSUME NEW s \in Segments, Reopen(s)
      PROVE  StoreInv'
  <2>1. StoreTypeOK'
    BY <1>2, <1>type DEF Reopen, StoreTypeOK, Steps, Files
  <2>2. FileInv' /\ ManifestInv' /\ PublishedInv'
    BY <1>2, <1>type DEF Reopen, FileInv, ManifestInv, SoundManifest, PublishedInv
  <2>3. StepInv'
    BY <1>2, <1>type DEF Reopen, StepInv, StoreTypeOK, Files
  <2> QED
    BY <2>1, <2>2, <2>3 DEF StoreInv
<1>3. CASE append
  <2>1. StoreTypeOK'
    BY <1>3, <1>type DEF append, StoreTypeOK
  <2>2. FileInv' /\ ManifestInv' /\ PublishedInv'
    BY <1>3, <1>type DEF append, FileInv, ManifestInv, SoundManifest, PublishedInv
  <2>3. StepInv'
    BY <1>3, <1>type DEF append, StepInv, StoreTypeOK, Files
  <2> QED
    BY <2>1, <2>2, <2>3 DEF StoreInv
<1>4. CASE sync
  <2> DEFINE f == FsyncFile([file[cur] EXCEPT !.frames = written])
             g == [file[cur] EXCEPT !.frames = written]
  <2>1. /\ f \in Files /\ f.name = "open" /\ f.link # "final" /\ f.synced = f.frames
        /\ f.tail = "CLEAN" /\ f.frames = written
    <3>1. /\ g \in Files /\ g.name = "open" /\ g.link # "final" /\ g.frames = written
          /\ g.tail = "CLEAN"
      BY <1>4, <1>type DEF sync, StoreTypeOK, Files, FileInv, StepInv
    <3> QED
      BY <3>1, FsyncFacts
  <2>2. file' = [file EXCEPT ![cur] = f]
    BY <1>4 DEF sync
  <2> HIDE DEF f
  <2>3. FileStep(cur, f) /\ cur \in Segments
    <3>1. cur \in Segments /\ file[cur].name = "open"
      BY <1>4, <1>type DEF sync, StepInv, StoreTypeOK
    <3>2. f.synced <= f.frames
      BY <2>1 DEF Files
    <3> QED
      BY <1>4, <2>1, <2>2, <3>1, <3>2 DEF sync, FileStep
  <2>4. file' \in [Segments -> Files] /\ FileInv' /\ ManifestInv' /\ PublishedInv'
    BY <2>3, FileStepInv
  <2>5. StoreTypeOK'
    BY <1>4, <1>type, <2>4 DEF sync, StoreTypeOK, Claims, MaxOf
  <2>6. StepInv'
    BY <1>4, <1>type, <2>1, <2>2 DEF sync, StepInv, StoreTypeOK
  <2> QED
    BY <2>4, <2>5, <2>6 DEF StoreInv
<1>5. CASE close
  <2> DEFINE f == [file[cur] EXCEPT !.frames = written]
  <2>1. f \in Files /\ f.name = "open" /\ f.link # "final" /\ f.synced <= f.frames
    BY <1>5, <1>type DEF close, StoreTypeOK, Files, FileInv, StepInv
  <2>2. file' = [file EXCEPT ![cur] = f]
    BY <1>5 DEF close
  <2>3. FileStep(cur, f) /\ cur \in Segments
    BY <1>5, <1>type, <2>1, <2>2 DEF close, FileStep, StepInv, StoreTypeOK
  <2>4. file' \in [Segments -> Files] /\ FileInv' /\ ManifestInv' /\ PublishedInv'
    BY <2>3, FileStepInv
  <2>5. pc' \in {"closed", "idle"}
    BY <1>5 DEF close
  <2>6. StoreTypeOK'
    BY <1>5, <1>type, <2>4, <2>5 DEF close, StoreTypeOK, Steps
  <2>7. StepInv'
    BY <2>5 DEF StepInv
  <2> QED
    BY <2>4, <2>6, <2>7 DEF StoreInv
<1>6. ASSUME NEW s \in Segments, SealStarts(s)
      PROVE  StoreInv'
  <2>1. /\ FsyncFile(file[s]) \in Files /\ FsyncFile(file[s]).name = "open"
        /\ FsyncFile(file[s]).link # "final" /\ FsyncFile(file[s]).tail = "CLEAN"
        /\ FsyncFile(file[s]).synced = FsyncFile(file[s]).frames
    BY <1>6, <1>type, FsyncFacts DEF SealStarts, StoreTypeOK, FileInv
  <2>2. /\ file' = [file EXCEPT ![s] = FsyncFile(file[s])]
        /\ pc' = "fsynced" /\ cur' = s
    BY <1>6 DEF SealStarts, SealFsyncs
  <2>3. FileStep(s, FsyncFile(file[s]))
    BY <1>6, <2>1, <2>2 DEF SealStarts, FileStep, Files
  <2>4. file' \in [Segments -> Files] /\ FileInv' /\ ManifestInv' /\ PublishedInv'
    BY <2>3, FileStepInv
  <2>5. StoreTypeOK'
    BY <1>6, <1>type, <2>2, <2>4 DEF SealStarts, SealFsyncs, StoreTypeOK, Steps
  <2>6. StepInv'
    BY <1>type, <2>1, <2>2 DEF StepInv, StoreTypeOK
  <2> QED
    BY <2>4, <2>5, <2>6 DEF StoreInv
<1>7. CASE SealRenames
  <2>1. StoreTypeOK'
    BY <1>7, <1>type DEF SealRenames, StoreTypeOK, Steps, Files, Names
  <2>2. FileInv'
    BY <1>7, <1>type DEF SealRenames, FileInv, StepInv, StoreTypeOK, Files
  <2>3. \A s \in Segments : file[s].name = "final" => file'[s] = file[s]
    BY <1>7, <1>type DEF SealRenames, StepInv, StoreTypeOK
  <2>4. ManifestInv'
    BY <1>7, <1>type, <2>3 DEF SealRenames, ManifestInv, SoundManifest, StoreTypeOK,
       Manifests, Records
  <2>5. StepInv' /\ PublishedInv'
    BY <1>7, <1>type DEF SealRenames, StepInv, PublishedInv, StoreTypeOK, Files
  <2> QED
    BY <2>1, <2>2, <2>4, <2>5 DEF StoreInv
<1>8. CASE SealSyncsDirectory
  <2>1. StoreTypeOK'
    BY <1>8, <1>type DEF SealSyncsDirectory, SealLinks, StoreTypeOK, Steps, Files
  <2>2. FileInv'
    BY <1>8, <1>type DEF SealSyncsDirectory, SealLinks, FileInv, StoreTypeOK, Files
  <2>3. ManifestInv'
    BY <1>8, <1>type DEF SealSyncsDirectory, SealLinks, ManifestInv, SoundManifest,
       StoreTypeOK, Manifests, Records, Files
  <2>4. StepInv' /\ PublishedInv'
    BY <1>8, <1>type DEF SealSyncsDirectory, SealLinks, StepInv, PublishedInv,
       StoreTypeOK, Files
  <2> QED
    BY <2>1, <2>2, <2>3, <2>4 DEF StoreInv
<1>9. CASE ManifestIsLoaded
  BY <1>9, <1>type DEF ManifestIsLoaded, StoreInv, StoreTypeOK, Steps, TempNames,
     FileInv, StepInv, ManifestInv, SoundManifest, PublishedInv
<1>10. CASE CommitSyncsTemp
  BY <1>10, <1>type DEF CommitSyncsTemp, StoreInv, StoreTypeOK, Steps, TempNames,
     FileInv, StepInv, ManifestInv, SoundManifest, PublishedInv
<1>11. CASE CommitReplaces
  <2> DEFINE r == [segment |-> cur, frames |-> file[cur].frames]
  <2>1. r \in Records
    BY <1>type DEF StoreTypeOK, Files, Records
  <2>2. manifest'.records = manifest.records \cup {r} /\ manifest'.synced /\ ~manifest'.torn
    BY <1>11, <1>type DEF CommitReplaces, NewManifest, NewRecords, StepInv
  <2>3. manifest' \in Manifests
    BY <1>11, <1>type, <2>1 DEF CommitReplaces, NewManifest, NewRecords, StoreTypeOK,
       Manifests
  <2>4. StoreTypeOK'
    BY <1>11, <1>type, <2>3 DEF CommitReplaces, StoreTypeOK, Steps, TempNames
  <2>5. SoundManifest(manifest)'
    BY <1>11, <1>type, <2>2 DEF CommitReplaces, ManifestInv, SoundManifest, StepInv
  <2>6. ManifestInv'
    BY <1>11, <1>type, <2>2, <2>5 DEF CommitReplaces, ManifestInv, SoundManifest
  <2>7. StepInv'
    <3>1. r \in manifest'.records /\ r.segment = cur'
      BY <1>11, <2>2 DEF CommitReplaces
    <3> QED
      BY <1>11, <1>type, <3>1 DEF CommitReplaces, StepInv
  <2>8. FileInv' /\ PublishedInv'
    BY <1>11, <1>type DEF CommitReplaces, FileInv, PublishedInv
  <2> QED
    BY <2>4, <2>6, <2>7, <2>8 DEF StoreInv
<1>12. CASE CommitReturns
  <2>1. StoreTypeOK'
    BY <1>12, <1>type DEF CommitReturns, Idle, Claims, MaxOf, StoreTypeOK, Steps, Files
  <2>2. FileInv' /\ StepInv' /\ ManifestInv'
    BY <1>12, <1>type DEF CommitReturns, Idle, FileInv, StepInv, ManifestInv, SoundManifest
  <2>3. PublishedInv'
    BY <1>12, <1>type DEF CommitReturns, PublishedInv, ManifestInv, StepInv
  <2> QED
    BY <2>1, <2>2, <2>3 DEF StoreInv
<1>13. ASSUME NEW s \in Segments, recover_open_segment(s)
      PROVE  StoreInv'
  <2>1. /\ Truncate(file[s]) \in Files /\ Truncate(file[s]).name = "open"
        /\ Truncate(file[s]).link # "final"
        /\ Truncate(file[s]).synced <= Truncate(file[s]).frames
    <3>1. file[s] \in Files /\ file[s].name = "open" /\ file[s].link # "final"
      BY <1>13, <1>type DEF recover_open_segment, StoreTypeOK, FileInv
    <3> QED
      BY <3>1, FsyncFacts DEF Truncate, Files, TailStates
  <2>2. FileStep(s, Truncate(file[s]))
    BY <1>13, <2>1 DEF recover_open_segment, FileStep
  <2>3. file' \in [Segments -> Files] /\ FileInv' /\ ManifestInv' /\ PublishedInv'
    BY <2>2, FileStepInv
  <2>4. StoreTypeOK' /\ StepInv'
    BY <1>13, <1>type, <2>3 DEF recover_open_segment, StoreTypeOK, StepInv
  <2> QED
    BY <2>3, <2>4 DEF StoreInv
<1>14. CASE Kill
  <2>1. pc' = "idle" /\ UNCHANGED <<cur, written, durable_length, manifest, secured, temp,
                                    claimed, published>>
    BY <1>14 DEF Kill, Idle
  <2>2. file' \in [Segments -> Files] /\ FileInv' /\ ManifestInv' /\ PublishedInv'
    <3>1. CASE UNCHANGED file
      BY <1>type, <2>1, <3>1 DEF StoreTypeOK, FileInv, ManifestInv, SoundManifest,
         PublishedInv
    <3>2. CASE pc = "open"
      <4>1. PICK n \in file[cur].frames .. written, t \in {"CLEAN", "INCOMPLETE"} :
               file' = [file EXCEPT ![cur].frames = n, ![cur].tail = t]
        BY <1>14, <3>2 DEF Kill
      <4> DEFINE f == [file[cur] EXCEPT !.frames = n, !.tail = t]
      <4>2. f \in Files /\ f.name = "open" /\ f.link # "final" /\ f.synced <= f.frames
        <5>1. /\ file[cur] \in Files /\ file[cur].name = "open"
              /\ file[cur].link # "final" /\ file[cur].synced <= file[cur].frames
          BY <1>type, <3>2 DEF StoreTypeOK, FileInv, StepInv
        <5>2. n \in Nat /\ file[cur].frames <= n
          BY <1>type, <5>1 DEF StoreTypeOK, Files
        <5>3. t \in TailStates
          BY DEF TailStates
        <5>4. f \in Files
          BY <5>1, <5>2, <5>3 DEF Files
        <5>5. f.name = "open" /\ f.link # "final" /\ f.synced = file[cur].synced /\ f.frames = n
          BY <5>1 DEF Files
        <5> QED
          BY <5>1, <5>2, <5>4, <5>5 DEF Files
      <4>3. file' = [file EXCEPT ![cur] = f]
        BY <1>type, <4>1 DEF StoreTypeOK, Files
      <4>4. FileStep(cur, f) /\ cur \in Segments
        BY <1>type, <2>1, <3>2, <4>2, <4>3 DEF FileStep, StepInv, StoreTypeOK
      <4> QED
        BY <4>4, FileStepInv
    <3> QED
      BY <1>14, <3>1, <3>2 DEF Kill
  <2>3. StoreTypeOK' /\ StepInv'
    BY <1>type, <2>1, <2>2 DEF StoreTypeOK, StepInv, Steps
  <2> QED
    BY <2>2, <2>3 DEF StoreInv
<1>15. CASE PowerLoss
  <2>1. /\ file' \in [Segments -> Files]
        /\ \A s \in Segments : /\ Buffered(s) \in Files
                               /\ Buffered(s).synced <= Buffered(s).frames
                               /\ file'[s] \in Leftovers(Buffered(s))
    BY <1>15, PowerLossFiles
  <2>2. ASSUME NEW s \in Segments
        PROVE  /\ file'[s].link = file'[s].name /\ file'[s].synced = file'[s].frames
               /\ file'[s].name = "final" => file'[s].tail = "CLEAN"
               /\ file[s].link = "final" => /\ file'[s].name = "final"
                                            /\ file'[s].frames = file[s].frames
    <3> DEFINE f == Buffered(s)
               g == file'[s]
    <3>1. f \in Files /\ f.synced <= f.frames /\ g \in Leftovers(f)
      BY <2>1
    <3>2. /\ g \in Files /\ g.link = g.name /\ g.synced = g.frames
          /\ \/ /\ g.name \in {f.name, f.link} /\ g.name # "none"
                /\ f.synced <= g.frames /\ g.frames <= f.frames
                /\ g.tail # "CLEAN" => f.tail # "CLEAN" \/ g.frames < f.frames
             \/ g = NoFile /\ f.link = "none"
      BY <3>1, LeftoversFacts
    <3>3. /\ f.name = file[s].name /\ f.link = file[s].link
          /\ f.synced = file[s].synced /\ f.tail = file[s].tail
          /\ file[s].name # "open" => f = file[s]
      BY <1>type DEF Buffered, StoreTypeOK, Files, StepInv
    <3> HIDE DEF f, g
    <3>4. /\ f.frames \in Nat /\ f.synced \in Nat /\ g.frames \in Nat
          /\ file[s].frames \in Nat /\ NoFile.name = "none"
      BY <1>type, <3>1, <3>2 DEF StoreTypeOK, Files, NoFile
    <3>5. file[s].name = "final" => f = file[s] /\ f.tail = "CLEAN" /\ f.synced = f.frames
      BY <1>type, <3>3 DEF FileInv
    <3>6. file[s].link = "final" => file[s].name = "final"
      BY <1>type DEF FileInv
    <3>7. ASSUME g.name = "final"
          PROVE  g.tail = "CLEAN"
      BY <3>2, <3>3, <3>4, <3>5, <3>6, <3>7
    <3>8. ASSUME file[s].link = "final"
          PROVE  g.name = "final" /\ g.frames = file[s].frames
      BY <3>2, <3>3, <3>4, <3>5, <3>6, <3>8
    <3> QED
      BY <3>2, <3>7, <3>8 DEF g
  <2>3. manifest' \in {manifest, secured} /\ secured' = manifest' /\ temp' \in TempNames
    <3>1. SoundManifest(manifest) /\ SoundManifest(secured)
      BY <1>type DEF ManifestInv
    <3>2. PICK m \in {manifest, secured}, torn \in BOOLEAN :
             /\ torn => ~m.synced \/ m.torn
             /\ manifest' = [records |-> m.records, synced |-> TRUE, torn |-> torn \/ m.torn]
      BY <1>15 DEF PowerLoss
    <3>3. m \in Manifests /\ m.synced = TRUE /\ m.torn = FALSE /\ torn = FALSE
      BY <1>type, <3>1, <3>2 DEF StoreTypeOK, SoundManifest, Manifests
    <3>4. manifest' = m
      BY <3>2, <3>3 DEF Manifests
    <3> QED
      BY <1>15, <3>4 DEF PowerLoss, TempNames
  <2>4. pc' = "idle" /\ UNCHANGED <<cur, written, durable_length, claimed, published>>
    BY <1>15 DEF PowerLoss, Idle
  <2>5. StoreTypeOK' /\ StepInv'
    BY <1>type, <2>1, <2>3, <2>4 DEF StoreTypeOK, StepInv, Steps
  <2>6. FileInv'
    BY <2>1, <2>2 DEF FileInv, Files
  <2>7. ASSUME NEW m \in Manifests, SoundManifest(m)
        PROVE  \A r \in m.records : /\ file'[r.segment].name = "final"
                                    /\ file'[r.segment].link = "final"
                                    /\ file'[r.segment].frames = r.frames
    BY <2>2, <2>7 DEF SoundManifest, Manifests, Records
  <2>8. ManifestInv' /\ PublishedInv'
    BY <1>type, <2>3, <2>4, <2>7 DEF ManifestInv, SoundManifest, PublishedInv, StoreTypeOK
  <2> QED
    BY <2>5, <2>6, <2>8 DEF StoreInv
<1>16. CASE UNCHANGED vars
  BY <1>16, <1>type DEF vars, StoreInv, StoreTypeOK, FileInv, StepInv, ManifestInv,
     SoundManifest, PublishedInv
<1> QED
  BY <1>1, <1>2, <1>3, <1>4, <1>5, <1>6, <1>7, <1>8, <1>9, <1>10, <1>11, <1>12, <1>13,
     <1>14, <1>15, <1>16 DEF Next, Seal

\* The invariant is inductive; every theorem below follows from it.
THEOREM StoreInductive == Spec => []StoreInv
<1>1. StoreInv /\ [Next]_vars => StoreInv'
  BY StoreStep
<1> QED
  BY StoreInit, <1>1, PTL DEF Spec

\* Every variable keeps its type.
THEOREM StoreTypeCorrect == Spec => []StoreTypeOK
<1>1. StoreInv => StoreTypeOK
  BY DEF StoreInv
<1> QED
  BY StoreInductive, <1>1, PTL
-----------------------------------------------------------------------------
(* What the manifest and the final names are worth. *)

LEMMA ClaimedSegmentIsValid ==
    ASSUME StoreInv, NEW s \in Segments, Claiming(manifest, s)
    PROVE  /\ AuditState(s) = "VALID"
           /\ [segment |-> s, frames |-> file[s].frames] \in manifest.records
<1>1. PICK r \in manifest.records : r.segment = s
  BY DEF Claiming
<1>2. r \in Records
  BY <1>1 DEF StoreInv, StoreTypeOK, Manifests
<1>3. file[s].name = "final" /\ file[s].frames = r.frames
  BY <1>1 DEF StoreInv, ManifestInv, SoundManifest
<1>4. r = [segment |-> s, frames |-> file[s].frames]
  BY <1>1, <1>2, <1>3 DEF Records
<1>5. file[s].tail = "CLEAN"
  BY <1>3 DEF StoreInv, FileInv
<1> QED
  BY <1>1, <1>3, <1>4, <1>5 DEF AuditState

\* Neither a kill nor a power loss between any two steps of seal_segment and
\* commit_manifest leaves a torn manifest or one that names a segment whose file
\* is missing or different.
THEOREM ManifestIsSoundHolds == Spec => []ManifestIsSound
<1>1. StoreInv => ManifestIsSound
  <2> SUFFICES ASSUME StoreInv PROVE ManifestIsSound
    OBVIOUS
  <2>1. ~manifest.torn
    BY DEF StoreInv, ManifestInv, SoundManifest
  <2>2. ASSUME NEW s \in Segments
        PROVE  AuditState(s) \notin {"MISSING", "MISMATCH"}
    <3>1. CASE Claiming(manifest, s)
      BY <3>1, ClaimedSegmentIsValid
    <3>2. CASE ~Claiming(manifest, s) /\ file[s].name = "final"
      BY <3>2 DEF AuditState
    <3>3. CASE ~Claiming(manifest, s) /\ file[s].name = "open"
      BY <3>3 DEF AuditState
    <3>4. CASE ~Claiming(manifest, s) /\ file[s].name \notin {"open", "final"}
      BY <3>4 DEF AuditState
    <3> QED
      BY <3>1, <3>2, <3>3, <3>4
  <2> QED
    BY <2>1, <2>2 DEF ManifestIsSound
<1> QED
  BY StoreInductive, <1>1, PTL

\* A file with its final name is complete and synced (seal_segment).
THEOREM FinalIsWholeHolds == Spec => []FinalIsWhole
<1>1. StoreInv => FinalIsWhole
  BY DEF StoreInv, FileInv, FinalIsWhole
<1> QED
  BY StoreInductive, <1>1, PTL

\* A segment that seal_segment returned is valid ever after.
THEOREM PublishedStayValidHolds == Spec => []PublishedStayValid
<1>1. StoreInv => PublishedStayValid
  <2> SUFFICES ASSUME StoreInv, NEW s \in published
               PROVE  AuditState(s) = "VALID"
    BY DEF PublishedStayValid
  <2>1. s \in Segments
    BY DEF StoreInv, StoreTypeOK
  <2>2. Claiming(manifest, s)
    BY DEF StoreInv, PublishedInv, ManifestInv, SoundManifest, Claiming
  <2> QED
    BY <2>1, <2>2, ClaimedSegmentIsValid
<1> QED
  BY StoreInductive, <1>1, PTL
-----------------------------------------------------------------------------
(* What was once called durable. *)

LEMMA ClaimInit == Init => ClaimInv
BY DEF Init, NoFile, ClaimInv

\* A claim stands when its file keeps the synced frames and a name that survives.
LEMMA ClaimsKept ==
    ASSUME StoreInv, ClaimInv, claimed' = claimed,
           \A s \in Segments : /\ file[s].synced <= file'[s].synced \/ file[s].link = "none"
                               /\ file'[s].synced \in Nat
                               /\ file[s].link # "none" => file'[s].link # "none"
    PROVE  ClaimInv'
<1> SUFFICES ASSUME NEW s \in Segments
             PROVE  claimed[s] <= file'[s].synced /\ (claimed[s] > 0 => file'[s].link # "none")
  BY DEF ClaimInv
<1>1. claimed[s] \in Nat /\ file[s].synced \in Nat /\ file'[s].synced \in Nat
  BY DEF StoreInv, StoreTypeOK, Files
<1>2. claimed[s] <= file[s].synced /\ (claimed[s] > 0 => file[s].link # "none")
  BY DEF ClaimInv
<1> QED
  BY <1>1, <1>2

LEMMA ClaimStep ==
    ASSUME StoreInv, ClaimInv, FsyncLinksFile, [Next]_vars
    PROVE  ClaimInv'
<1> USE DEF process, history
<1>type. StoreTypeOK /\ FileInv /\ StepInv
  BY DEF StoreInv
<1>files. \A s \in Segments : file[s] \in Files /\ file'[s] \in Files
  BY StoreStep DEF StoreInv, StoreTypeOK
<1>1. ASSUME NEW s \in Segments, Open(s)
      PROVE  ClaimInv'
  <2>1. file[s].link = "none"
    BY <1>1, <1>type DEF Open, FileInv
  <2>2. \A q \in Segments : q # s => file'[q] = file[q]
    BY <1>1, <1>type DEF Open, StoreTypeOK
  <2> QED
    BY <1>1, <1>files, <2>1, <2>2, ClaimsKept DEF Open, Files
<1>2. CASE sync
  <2> DEFINE g == [file[cur] EXCEPT !.frames = written]
  <2>1. /\ cur \in Segments /\ g \in Files /\ g.name = "open" /\ g.frames = written
        /\ file[cur].synced <= written
    BY <1>2, <1>type DEF sync, StoreTypeOK, StepInv, FileInv, Files
  <2>2. /\ FsyncFile(g).synced = written
        /\ FsyncFile(g).link # "none"
    BY <2>1 DEF FsyncFile, Files
  <2>3. file' = [file EXCEPT ![cur] = FsyncFile(g)]
    BY <1>2 DEF sync
  <2> HIDE DEF g
  <2>4. claimed' = [claimed EXCEPT ![cur] = MaxOf(claimed[cur], written)]
    BY <1>2 DEF sync, Claims
  <2>5. ASSUME NEW s \in Segments
        PROVE  claimed'[s] <= file'[s].synced /\ (claimed'[s] > 0 => file'[s].link # "none")
    <3>1. CASE s = cur
      <4>1. claimed'[s] = MaxOf(claimed[cur], written) /\ file'[s] = FsyncFile(g)
        BY <1>type, <2>3, <2>4, <3>1 DEF StoreTypeOK
      <4>2. claimed[cur] <= written /\ claimed[cur] \in Nat /\ written \in Nat
        BY <1>type, <2>1 DEF ClaimInv, StoreTypeOK, Files
      <4> QED
        BY <2>2, <4>1, <4>2 DEF MaxOf
    <3>2. CASE s # cur
      BY <1>type, <2>3, <2>4, <3>2 DEF ClaimInv, StoreTypeOK
    <3> QED
      BY <3>1, <3>2
  <2> QED
    BY <2>5 DEF ClaimInv
<1>3. CASE CommitReturns
  <2>1. /\ cur \in Segments /\ file' = file
        /\ file[cur].link = "final" /\ file[cur].synced = file[cur].frames
    BY <1>3, <1>type DEF CommitReturns, StoreTypeOK, StepInv, FileInv
  <2>2. claimed' = [claimed EXCEPT ![cur] = MaxOf(claimed[cur], file[cur].frames)]
    BY <1>3 DEF CommitReturns, Claims
  <2> QED
    BY <1>type, <1>files, <2>1, <2>2 DEF ClaimInv, StoreTypeOK, MaxOf, Files
<1>4. ASSUME NEW s \in Segments, SealStarts(s)
      PROVE  ClaimInv'
  <2>1. file' = [file EXCEPT ![s] = FsyncFile(file[s])] /\ claimed' = claimed
    BY <1>4 DEF SealStarts, SealFsyncs
  <2>2. /\ FsyncFile(file[s]).synced = file[s].frames
        /\ FsyncFile(file[s]).link # "none"
    BY <1>4, <1>files DEF SealStarts, FsyncFile, Files
  <2> QED
    BY <1>type, <1>files, <2>1, <2>2, ClaimsKept DEF StoreTypeOK, FileInv, Files
<1>5. ASSUME NEW s \in Segments, recover_open_segment(s)
      PROVE  ClaimInv'
  <2>1. file' = [file EXCEPT ![s] = Truncate(file[s])] /\ claimed' = claimed
    BY <1>5 DEF recover_open_segment
  <2>2. /\ Truncate(file[s]).synced = file[s].frames
        /\ Truncate(file[s]).link # "none"
    BY <1>5, <1>files DEF recover_open_segment, Truncate, FsyncFile, Files
  <2> QED
    BY <1>type, <1>files, <2>1, <2>2, ClaimsKept DEF StoreTypeOK, FileInv, Files
<1>6. CASE close
  <2>1. file' = [file EXCEPT ![cur].frames = written] /\ claimed' = claimed
    BY <1>6 DEF close
  <2> QED
    BY <1>type, <1>files, <2>1, ClaimsKept DEF StoreTypeOK, Files
<1>7. CASE Kill
  <2>1. claimed' = claimed
    BY <1>7 DEF Kill
  <2>2. CASE UNCHANGED file
    BY <1>files, <2>1, <2>2, ClaimsKept DEF Files
  <2>3. CASE pc = "open"
    <3>1. PICK n \in file[cur].frames .. written, t \in {"CLEAN", "INCOMPLETE"} :
             file' = [file EXCEPT ![cur].frames = n, ![cur].tail = t]
      BY <1>7, <2>3 DEF Kill
    <3> QED
      BY <1>type, <1>files, <2>1, <3>1, ClaimsKept DEF StoreTypeOK, Files
  <2> QED
    BY <1>7, <2>2, <2>3 DEF Kill
<1>8. CASE SealRenames
  <2>1. file' = [file EXCEPT ![cur].name = "final"] /\ claimed' = claimed
    BY <1>8 DEF SealRenames
  <2> QED
    BY <1>type, <1>files, <2>1, ClaimsKept DEF StoreTypeOK, Files
<1>9. CASE SealSyncsDirectory
  <2>1. /\ file' = [s \in Segments |-> [file[s] EXCEPT !.link = file[s].name]]
        /\ claimed' = claimed
    BY <1>9 DEF SealSyncsDirectory, SealLinks
  <2> QED
    BY <1>type, <1>files, <2>1, ClaimsKept DEF StoreTypeOK, FileInv, Files
<1>10. CASE PowerLoss
  <2>1. claimed' = claimed
    BY <1>10 DEF PowerLoss
  <2>2. ASSUME NEW s \in Segments, file[s].link # "none"
        PROVE  file[s].synced <= file'[s].synced /\ file'[s].link # "none"
    <3> DEFINE f == Buffered(s)
               g == file'[s]
    <3>1. f \in Files /\ f.synced <= f.frames /\ g \in Leftovers(f)
      BY <1>10, PowerLossFiles
    <3>2. /\ g.link = g.name /\ g.synced = g.frames
          /\ \/ /\ g.name \in {f.name, f.link} /\ g.name # "none"
                /\ f.synced <= g.frames /\ g.frames <= f.frames
                /\ g.tail # "CLEAN" => f.tail # "CLEAN" \/ g.frames < f.frames
             \/ g = NoFile /\ f.link = "none"
      BY <3>1, LeftoversFacts
    <3>3. f.link = file[s].link /\ f.synced = file[s].synced
      BY <1>files DEF Buffered, Files
    <3> HIDE DEF f, g
    <3>4. g.synced = g.frames /\ f.synced <= g.frames /\ g.link # "none"
      BY <2>2, <3>2, <3>3
    <3> QED
      BY <3>3, <3>4 DEF g
  <2> QED
    BY <1>files, <2>1, <2>2, ClaimsKept DEF Files
<1>11. CASE UNCHANGED <<file, claimed>>
  BY <1>files, <1>11, ClaimsKept DEF Files
<1>12. ASSUME NEW s \in Segments, Reopen(s)
       PROVE  ClaimInv'
  BY <1>12, <1>11 DEF Reopen
<1>13. CASE append
  BY <1>13, <1>11 DEF append
<1>14. CASE ManifestIsLoaded
  BY <1>14, <1>11 DEF ManifestIsLoaded
<1>15. CASE CommitSyncsTemp
  BY <1>15, <1>11 DEF CommitSyncsTemp
<1>16. CASE CommitReplaces
  BY <1>16, <1>11 DEF CommitReplaces
<1>17. CASE UNCHANGED vars
  BY <1>17, <1>11 DEF vars
<1> QED
  BY <1>1, <1>2, <1>3, <1>4, <1>5, <1>6, <1>7, <1>8, <1>9, <1>10, <1>12, <1>13, <1>14,
     <1>15, <1>16, <1>17 DEF Next, Seal

\* Where fsync of a new file secures its name, nothing that sync or a returned
\* seal called durable is ever lost (RawLog.sync, truncate_incomplete_tail).
THEOREM ClaimedFramesSurviveHolds ==
    ASSUME FsyncLinksFile PROVE Spec => []ClaimedFramesSurvive
<1>1. StoreInv /\ ClaimInv /\ [Next]_vars => ClaimInv'
  BY ClaimStep
<1>2. StoreInv /\ ClaimInv => ClaimedFramesSurvive
  BY DEF StoreInv, StoreTypeOK, FileInv, ClaimInv, ClaimedFramesSurvive, Files
<1> QED
  BY StoreInductive, ClaimInit, <1>1, <1>2, PTL DEF Spec

\* There a clean audit means that every frame ever called durable is in a
\* published segment (StorageAuditReport.clean).
THEOREM CleanAuditMissesNothingHolds ==
    ASSUME FsyncLinksFile PROVE Spec => []CleanAuditMissesNothing
<1>1. StoreInv /\ ClaimInv /\ [Next]_vars => ClaimInv'
  BY ClaimStep
<1>2. StoreInv /\ ClaimInv => CleanAuditMissesNothing
  <2> SUFFICES ASSUME StoreInv, ClaimInv, AuditClean, NEW s \in Segments, claimed[s] > 0
               PROVE  \E r \in manifest.records : r.segment = s /\ claimed[s] <= r.frames
    BY DEF CleanAuditMissesNothing
  <2> DEFINE r == [segment |-> s, frames |-> file[s].frames]
  <2>1. file[s].link # "none" /\ claimed[s] <= file[s].synced
    BY DEF ClaimInv
  <2>2. claimed[s] <= file[s].frames
    BY <2>1 DEF StoreInv, StoreTypeOK, FileInv, Files
  <2>3. file[s].name \in {"open", "final"}
    BY <2>1 DEF StoreInv, StoreTypeOK, FileInv, Files, Names
  <2>4. AuditState(s) \in {"VALID", "UNKNOWN"}
    BY DEF AuditClean
  <2>5. Claiming(manifest, s)
    <3>1. CASE ~Claiming(manifest, s) /\ file[s].name = "final"
      BY <2>4, <3>1 DEF AuditState
    <3>2. CASE ~Claiming(manifest, s) /\ file[s].name = "open"
      BY <2>4, <3>2 DEF AuditState
    <3> QED
      BY <2>3, <3>1, <3>2
  <2>6. r \in manifest.records /\ r.segment = s /\ claimed[s] <= r.frames
    BY <2>2, <2>5, ClaimedSegmentIsValid
  <2> QED
    BY <2>6
<1> QED
  BY StoreInductive, ClaimInit, <1>1, <1>2, PTL DEF Spec
=============================================================================
