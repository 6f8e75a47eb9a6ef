--------------------------- MODULE OrderedChecks ----------------------------
(***************************************************************************)
(* The shape of the validations of this program: checks in a fixed order,  *)
(* the first one that fails names the result.                              *)
(***************************************************************************)
EXTENDS Naturals, Sequences, FiniteSetsExt

Check(holds, code) == [holds |-> holds, code |-> code]

\* The code of the first check that does not hold, or passed if all do.
FirstFailed(checks, passed) ==
    LET failed == {i \in DOMAIN checks : ~checks[i].holds}
    IN IF failed = {} THEN passed ELSE checks[Min(failed)].code

\* The first element of a sequence of names that is a member of defects.
FirstOf(names, defects, none) ==
    LET hit == {i \in DOMAIN names : names[i] \in defects}
    IN IF hit = {} THEN none ELSE names[Min(hit)]
=============================================================================
