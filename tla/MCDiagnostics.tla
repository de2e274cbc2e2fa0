--------------------------- MODULE MCDiagnostics ---------------------------
(***************************************************************************)
(* Small instance of Diagnostics for TLC: two functions, three             *)
(* diagnostics, spans 0..1 (so that spans tie, and a cloned diagnostic     *)
(* without span meets one with a span), two suppress options.              *)
(***************************************************************************)
EXTENDS Diagnostics, TLC

CONSTANTS f1, f2, d1, d2, d3

MCFn == {f1, f2}
MCDiag == {d1, d2, d3}

\* Two diagnostics: small enough for checking the fair lifecycle without symmetry.
MCDiagPair == {d1, d2}

\* An overflow on `+` and a bounds check: Arithmetic and Index causes.
MCAssertKinds == {[tag |-> "Overflow", op |-> "Add"],
                  [tag |-> "BoundsCheck", op |-> "None"]}

MCCheckerCauses == {"Memory"}

MCSuppressOptions == {{}, {"Arithmetic"}}

Symmetry == Permutations(MCDiag) \cup Permutations(MCFn)
=============================================================================
