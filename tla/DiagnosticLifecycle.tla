------------------------- MODULE DiagnosticLifecycle -------------------------
(***************************************************************************)
(* What the diagnostics of one analysis run promise the rustc session,     *)
(* whatever the store and the emission order: each diagnostic is built at *)
(* most once while the crate is analysed, stays pending until the single   *)
(* emission point, is then either emitted or cancelled, and never changes  *)
(* again.  A rustc Diag in any other end state is a compiler bug report.   *)
(***************************************************************************)
CONSTANT Diag

VARIABLES
  life,    \* life[d]: "unborn", "pending", "emitted" or "cancelled"
  closed   \* the emission point has passed

vars == <<life, closed>>

Lives == {"unborn", "pending", "emitted", "cancelled"}

Init ==
  /\ life = [d \in Diag |-> "unborn"]
  /\ closed = FALSE

(***************************************************************************)
(* The analysis builds diagnostic d.                                       *)
(***************************************************************************)
Create(d) ==
  /\ ~closed
  /\ life[d] = "unborn"
  /\ life' = [life EXCEPT ![d] = "pending"]
  /\ UNCHANGED closed

(***************************************************************************)
(* The emission point: every pending diagnostic is emitted (those in E) or *)
(* cancelled, all at once.                                                 *)
(***************************************************************************)
Settle ==
  /\ ~closed
  /\ \E E \in SUBSET {d \in Diag : life[d] = "pending"} :
       life' = [d \in Diag |-> IF life[d] # "pending" THEN life[d]
                               ELSE IF d \in E THEN "emitted" ELSE "cancelled"]
  /\ closed' = TRUE

Next == (\E d \in Diag : Create(d)) \/ Settle

Spec == Init /\ [][Next]_vars

(***************************************************************************)
(* The emission point is reached: the analysis of the crate ends.          *)
(***************************************************************************)
FairSpec == Spec /\ WF_vars(Settle)

=============================================================================
