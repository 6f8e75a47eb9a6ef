----------------------------- MODULE MCCampaign -----------------------------
(* Instances of Campaign for TLC. *)
EXTENDS Campaign

Kills == {"kill"}
Torn  == {"kill", "torn"}
=============================================================================
