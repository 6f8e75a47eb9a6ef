----------------------------- MODULE MCRecorder -----------------------------
(* Instances of Recorder for TLC: every combination of small settings. *)
EXTENDS Recorder

SettingsOf(capacities, cadences, seals, hooks) ==
    [queue_capacity: capacities, sync_every_frames: cadences,
     seal_on_shutdown: seals, hook: hooks]

AllSettings    == SettingsOf(1 .. 2, 1 .. 2, BOOLEAN, BOOLEAN)
HookedSettings == SettingsOf({1}, {1}, {TRUE}, {TRUE})
AllFaults      == FaultNames
AppendFault    == {"append"}
SyncFault      == {"sync"}
=============================================================================
