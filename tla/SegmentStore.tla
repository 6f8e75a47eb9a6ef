---------------------------- MODULE SegmentStore ----------------------------
(***************************************************************************)
(* The raw segments and their manifest on disk: RawLog of                  *)
(* src/cryptobot/data/rawlog.py and seal_segment, commit_manifest,         *)
(* recover_open_segment and audit_storage of data/manifest.py, for one     *)
(* process at a time that may be killed between any two of its steps, and  *)
(* a machine that may lose power.                                          *)
(*                                                                         *)
(* A segment file has the name and the bytes that processes see, and those *)
(* that are sure to survive a power loss: fsync of the file secures its    *)
(* bytes, fsync of the directory its name.  Bytes are counted in frames.   *)
(***************************************************************************)
EXTENDS Naturals, FiniteSets

CONSTANTS Segments,       \* segment identifiers, one per run
          MaxFrames,      \* bound: frames appended to one segment
          FsyncLinksFile, \* does fsync of a new file secure its name as well?
          Tools           \* library calls made besides the recorder's own

ToolNames == {"recover", "reseal", "reopen"}

ASSUME StoreAssumption ==
    /\ MaxFrames \in Nat
    /\ FsyncLinksFile \in BOOLEAN
    /\ Tools \subseteq ToolNames

VARIABLES
    file,            \* the segment files
    manifest,        \* manifest.json as processes see it
    secured,         \* what a power loss may set manifest.json back to
    temp,            \* manifest.json.tmp
    pc, cur,         \* the step the process is at, and its segment
    written,         \* frames appended by the process, buffered ones included
    durable_length,  \* RawLog.durable_length
    claimed,         \* history: frames of a segment that were called durable
    published        \* history: segments whose seal_segment returned

process == <<pc, cur, written, durable_length>>
history == <<claimed, published>>
vars == <<file, manifest, secured, temp, process, history>>
-----------------------------------------------------------------------------
Names      == {"none", "open", "final"}
TailStates == {"CLEAN", "INCOMPLETE", "CORRUPT"}
Steps      == {"idle", "open", "closed", "fsynced", "renamed", "linked",
               "temp", "tempsynced", "replaced"}

\* name and frames are seen by scan_raw_log, link and synced survive.
Files   == [name: Names, link: Names, frames: Nat, synced: Nat, tail: TailStates]
Records == [segment: Segments, frames: Nat]
NoFile  == [name |-> "none", link |-> "none", frames |-> 0, synced |-> 0,
            tail |-> "CLEAN"]

\* A manifest that does not decode is torn; what was not fsynced may tear.
Manifests  == [records: SUBSET Records, synced: BOOLEAN, torn: BOOLEAN]
NoManifest == [records |-> {}, synced |-> TRUE, torn |-> FALSE]
TempNames  == {"none", "stale", "whole"}

Idle == pc' = "idle" /\ UNCHANGED <<cur, written, durable_length>>

\* fsync of a segment file with all its frames.
FsyncFileBug(f) == f
FsyncFile(f) ==
    [f EXCEPT !.synced = f.frames,
              !.link = IF FsyncLinksFile /\ f.link = "none" THEN f.name ELSE f.link]

MaxOf(m, n) == IF m > n THEN m ELSE n
Claims(s, n) == claimed' = [claimed EXCEPT ![s] = MaxOf(claimed[s], n)]
-----------------------------------------------------------------------------
Init ==
    /\ file = [s \in Segments |-> NoFile]
    /\ manifest = NoManifest /\ secured = NoManifest /\ temp = "none"
    /\ pc = "idle" /\ cur \in Segments /\ written = 0 /\ durable_length = 0
    /\ claimed = [s \in Segments |-> 0] /\ published = {}

(* RawLog *)

\* The recorder opens a path that does not exist.
Open(s) ==
    /\ pc = "idle" /\ file[s].name = "none"
    /\ file' = [file EXCEPT ![s] = [NoFile EXCEPT !.name = "open"]]
    /\ pc' = "open" /\ cur' = s /\ written' = 0 /\ durable_length' = 0
    /\ UNCHANGED <<manifest, secured, temp, history>>

\* RawLog.open of an existing file appends to it if it is CLEAN, and counts all
\* of it as durable.
Reopen(s) ==
    /\ "reopen" \in Tools
    /\ pc = "idle" /\ file[s].name = "open" /\ file[s].tail = "CLEAN"
    /\ pc' = "open" /\ cur' = s
    /\ written' = file[s].frames /\ durable_length' = file[s].frames
    /\ UNCHANGED <<file, manifest, secured, temp, history>>

append ==
    /\ pc = "open" /\ written < MaxFrames
    /\ written' = written + 1
    /\ UNCHANGED <<file, manifest, secured, temp, pc, cur, durable_length, history>>

sync ==
    /\ pc = "open"
    /\ file' = [file EXCEPT ![cur] = FsyncFile([@ EXCEPT !.frames = written])]
    /\ durable_length' = written
    /\ Claims(cur, written)
    /\ UNCHANGED <<manifest, secured, temp, pc, cur, written, published>>

\* close hands the buffer to the operating system.  The writer syncs before it,
\* except when it gives up or does not have to seal.
close ==
    /\ pc = "open"
    /\ file' = [file EXCEPT ![cur].frames = written]
    /\ IF durable_length = written THEN pc' \in {"closed", "idle"} ELSE pc' = "idle"
    /\ UNCHANGED <<manifest, secured, temp, cur, written, durable_length, history>>
-----------------------------------------------------------------------------
(* seal_segment: every step leaves the process at the next one.  The checks *)
(* that refuse a segment end the call like a kill before the step does.     *)

\* The file is scanned, and fsynced before it gets its final name.
SealFsyncsBug(s) ==
    /\ pc' = "fsynced" /\ cur' = s
    /\ UNCHANGED <<file, written, durable_length>>
SealFsyncs(s) ==
    /\ file' = [file EXCEPT ![s] = FsyncFile(@)]
    /\ pc' = "fsynced" /\ cur' = s
    /\ UNCHANGED <<written, durable_length>>

SealStarts(s) ==
    /\ \/ pc = "closed" /\ s = cur
       \/ pc = "idle" /\ "reseal" \in Tools
    /\ file[s].name = "open" /\ file[s].tail = "CLEAN"
    /\ SealFsyncs(s)
    /\ UNCHANGED <<manifest, secured, temp, history>>

SealRenames ==
    /\ pc = "fsynced"
    /\ file' = [file EXCEPT ![cur].name = "final"]
    /\ pc' = "renamed"
    /\ UNCHANGED <<manifest, secured, temp, cur, written, durable_length, history>>

\* _fsync_directory of the segments' directory secures every name in it.
SealLinksBug == UNCHANGED file
SealLinks == file' = [s \in Segments |-> [file[s] EXCEPT !.link = file[s].name]]

SealSyncsDirectory ==
    /\ pc = "renamed"
    /\ SealLinks
    /\ pc' = "linked"
    /\ UNCHANGED <<manifest, secured, temp, cur, written, durable_length, history>>

Claiming(m, s) == ~m.torn /\ \E r \in m.records : r.segment = s
NewRecords == manifest.records \cup {[segment |-> cur, frames |-> file[cur].frames]}

\* load_manifest refuses a torn manifest and with_record a second record for
\* the segment; otherwise commit_manifest writes a new manifest.json.tmp.
ManifestIsLoaded ==
    /\ pc = "linked"
    /\ ~manifest.torn /\ ~Claiming(manifest, cur)
    /\ temp' = "stale"
    /\ pc' = "temp"
    /\ UNCHANGED <<file, manifest, secured, cur, written, durable_length, history>>

CommitSyncsTemp ==
    /\ pc = "temp"
    /\ temp' = "whole"
    /\ pc' = "tempsynced"
    /\ UNCHANGED <<file, manifest, secured, cur, written, durable_length, history>>

\* os.replace of manifest.json by the file with the record added.
NewManifestBug == [records |-> {[segment |-> cur, frames |-> file[cur].frames]},
                   synced |-> temp = "whole", torn |-> FALSE]
NewManifest == [records |-> NewRecords, synced |-> temp = "whole", torn |-> FALSE]

CommitReplaces ==
    /\ pc = "tempsynced"
    /\ manifest' = NewManifest
    /\ temp' = "none"
    /\ pc' = "replaced"
    /\ UNCHANGED <<file, secured, cur, written, durable_length, history>>

\* The last fsync, after which seal_segment returns the record.
CommitReturns ==
    /\ pc = "replaced"
    /\ secured' = manifest
    /\ Idle
    /\ published' = published \cup {cur}
    /\ Claims(cur, file[cur].frames)
    /\ UNCHANGED <<file, manifest, temp>>

Seal ==
    \/ \E s \in Segments: SealStarts(s)
    \/ SealRenames \/ SealSyncsDirectory \/ ManifestIsLoaded
    \/ CommitSyncsTemp \/ CommitReplaces \/ CommitReturns
-----------------------------------------------------------------------------
\* recover_open_segment: an incomplete tail is cut off and the file fsynced, a
\* corrupt one is refused, a clean one left as it is.
Truncate(f)    == [FsyncFile(f) EXCEPT !.tail = "CLEAN"]

recover_open_segment(s) ==
    /\ "recover" \in Tools
    /\ pc = "idle" /\ file[s].name = "open" /\ file[s].tail = "INCOMPLETE"
    /\ file' = [file EXCEPT ![s] = Truncate(@)]
    /\ UNCHANGED <<manifest, secured, temp, process, history>>

\* The process ends between two steps: of the buffered frames any number may
\* have reached the file, the last of them in part.  An exception that ends the
\* call leaves the same behind.
Kill ==
    /\ pc # "idle"
    /\ Idle
    /\ \/ pc # "open" /\ UNCHANGED file
       \/ /\ pc = "open"
          /\ \E n \in file[cur].frames .. written, t \in {"CLEAN", "INCOMPLETE"}:
                /\ t = "INCOMPLETE" => n < written
                /\ file' = [file EXCEPT ![cur].frames = n, ![cur].tail = t]
    /\ UNCHANGED <<manifest, secured, temp, history>>

\* What may be left of a file: one of its two names, the synced frames and some
\* of the others, and a damaged tail where bytes were not synced; or nothing.
Leftovers(f) ==
    {g \in [name: {f.name, f.link} \ {"none"}, link: {f.name, f.link},
            frames: f.synced .. f.frames, synced: f.synced .. f.frames, tail: TailStates] :
        /\ g.link = g.name /\ g.synced = g.frames
        /\ g.tail # "CLEAN" => f.tail # "CLEAN" \/ g.frames < f.frames}
    \cup (IF f.link = "none" THEN {NoFile} ELSE {})

\* Of the frames of a living process only those written to the file count.
PowerLoss ==
    /\ Idle
    /\ LET Left(s) == Leftovers(IF pc = "open" /\ s = cur
                                THEN [file[s] EXCEPT !.frames = written] ELSE file[s])
       IN  file' \in {g \in [Segments -> UNION {Left(s) : s \in Segments}] :
                         \A s \in Segments : g[s] \in Left(s)}
    /\ \E m \in {manifest, secured}, torn \in BOOLEAN:
          /\ torn => ~m.synced \/ m.torn
          /\ manifest' = [records |-> m.records, synced |-> TRUE, torn |-> torn \/ m.torn]
    /\ secured' = manifest'
    /\ temp' \in {"none", IF temp = "none" THEN "none" ELSE "stale"}
    /\ UNCHANGED history
-----------------------------------------------------------------------------
Next ==
    \/ \E s \in Segments: Open(s) \/ Reopen(s) \/ recover_open_segment(s)
    \/ append \/ sync \/ close
    \/ Seal
    \/ Kill
    \/ PowerLoss

Spec == Init /\ [][Next]_vars
-----------------------------------------------------------------------------
(* audit_storage *)

\* The state the audit gives a segment; it knows a segment by its record or by
\* its file.
AuditStateBug(s) == IF Claiming(manifest, s) /\ file[s].name = "final" THEN "VALID"
                    ELSE IF Claiming(manifest, s) THEN "MISSING"
                    ELSE IF file[s].name = "final" THEN "ORPHAN_COMPLETE" ELSE "UNKNOWN"
AuditState(s) ==
    CASE Claiming(manifest, s) /\ file[s].name # "final" -> "MISSING"
      [] Claiming(manifest, s) /\ file[s].name = "final" ->
            IF /\ file[s].tail = "CLEAN"
               /\ [segment |-> s, frames |-> file[s].frames] \in manifest.records
            THEN "VALID" ELSE "MISMATCH"
      [] ~Claiming(manifest, s) /\ file[s].name = "final" ->
            IF file[s].tail = "CLEAN" THEN "ORPHAN_COMPLETE" ELSE "CORRUPT"
      [] ~Claiming(manifest, s) /\ file[s].name = "open" ->
            CASE file[s].tail = "CLEAN"      -> "OPEN_RECOVERABLE"
              [] file[s].tail = "INCOMPLETE" -> "OPEN_INCOMPLETE_RECOVERABLE"
              [] OTHER                       -> "CORRUPT"
      [] OTHER -> "UNKNOWN"

\* StorageAuditReport.clean: nothing but valid segments, no torn manifest, no
\* manifest.json.tmp.
AuditClean ==
    /\ ~manifest.torn /\ temp = "none"
    /\ \A s \in Segments : AuditState(s) \in {"VALID", "UNKNOWN"}
-----------------------------------------------------------------------------
(* Properties *)

StoreTypeOK ==
    /\ file \in [Segments -> Files]
    /\ manifest \in Manifests /\ secured \in Manifests /\ temp \in TempNames
    /\ pc \in Steps /\ cur \in Segments
    /\ written \in Nat /\ durable_length \in Nat
    /\ claimed \in [Segments -> Nat] /\ published \in SUBSET Segments

\* Frames that were once called durable, by sync or by a returned seal, are in
\* the segment's file for ever: after a kill, a power loss and a recovery.
ClaimedFramesSurvive == \A s \in Segments : claimed[s] <= file[s].frames

\* Neither a kill nor a power loss leaves a manifest that does not decode, or
\* one that names a segment whose file is missing or does not match.
ManifestIsSound ==
    /\ ~manifest.torn
    /\ \A s \in Segments : AuditState(s) \notin {"MISSING", "MISMATCH"}

\* A file with its final name is complete and safe from a power loss, before
\* the manifest names it.
FinalIsWhole ==
    \A s \in Segments :
        file[s].name = "final" => file[s].tail = "CLEAN" /\ file[s].synced = file[s].frames

\* What seal_segment returned stays published, whatever happens afterwards, to
\* this segment or to others.
PublishedStayValid == \A s \in published : AuditState(s) = "VALID"

\* A clean audit has missed nothing: every frame ever called durable is in a
\* published segment.
CleanAuditMissesNothing ==
    AuditClean =>
        \A s \in Segments : claimed[s] > 0 =>
            \E r \in manifest.records : r.segment = s /\ claimed[s] <= r.frames

\* TASK_008.md:266: durable accounting only advances after sync.
DurableLengthIsSynced == pc = "open" => durable_length <= file[cur].synced
=============================================================================
