----------------------------- MODULE CaptureLog -----------------------------
(***************************************************************************)
(* What a capture run promises, whatever its tasks and queues are: the     *)
(* stored log is a gap-free prefix, in order, of the frames accepted from  *)
(* the source; the durable mark and the published segment never claim more *)
(* than is stored; a published log is frozen; and only a log that holds    *)
(* every accepted frame, all of them durable, is called complete.          *)
(***************************************************************************)
EXTENDS Naturals, Sequences

VARIABLES accepted,   \* frames taken from the source so far
          stored,     \* the log: frame numbers, in the order written
          durable,    \* how many of them are claimed durable
          published,  \* the log has been sealed
          verdict     \* "open", then "complete" or "failed"

vars == <<accepted, stored, durable, published, verdict>>

TypeOK ==
    /\ accepted \in Nat /\ durable \in Nat
    /\ stored \in Seq(Nat)
    /\ published \in BOOLEAN
    /\ verdict \in {"open", "complete", "failed"}

Init ==
    /\ accepted = 0 /\ stored = <<>> /\ durable = 0
    /\ published = FALSE /\ verdict = "open"

Accept ==
    /\ verdict = "open" /\ ~published
    /\ accepted' = accepted + 1
    /\ UNCHANGED <<stored, durable, published, verdict>>

\* The next frame in order, with a sync of the whole log or without.
Store ==
    /\ verdict = "open" /\ ~published
    /\ Len(stored) < accepted
    /\ stored' = Append(stored, Len(stored) + 1)
    /\ durable' \in {durable, Len(stored')}
    /\ UNCHANGED <<accepted, published, verdict>>

\* Sync what is stored; the log may be published once all of it is durable.
Harden ==
    /\ verdict = "open" /\ ~published
    /\ durable' = Len(stored)
    /\ published' \in BOOLEAN
    /\ UNCHANGED <<accepted, stored, verdict>>

Complete ==
    /\ verdict = "open"
    /\ Len(stored) = accepted /\ durable = accepted
    /\ verdict' = "complete"
    /\ UNCHANGED <<accepted, stored, durable, published>>

Fail ==
    /\ verdict = "open"
    /\ verdict' = "failed"
    /\ UNCHANGED <<accepted, stored, durable, published>>

Next == Accept \/ Store \/ Harden \/ Complete \/ Fail

Spec == Init /\ [][Next]_vars
=============================================================================
