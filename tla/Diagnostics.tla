----------------------------- MODULE Diagnostics -----------------------------
(***************************************************************************)
(* The diagnostics store and its emission (src/analysis/diagnostics.rs,    *)
(* src/analysis/analyzer/numerical_analysis.rs).                           *)
(*                                                                         *)
(* While the entry function is analysed, the visitor of each function      *)
(* buffers the diagnostics its checker builds; when that visitor finishes, *)
(* its buffer is put into `DiagnosticsForDefId.map` under the function's   *)
(* DefId.  After the analysis, `emit_diagnostics` flattens the map (in     *)
(* HashMap iteration order), upgrades every diagnostic to an error when    *)
(* `deny_warnings` is set, sorts them stably by primary span, cancels the  *)
(* suppressed causes, and emits (or, under `memory_safety_only`, cancels   *)
(* the non memory-safety ones).  A rustc `Diag` that is dropped without    *)
(* being emitted or cancelled is a compiler bug report, so every           *)
(* diagnostic must end emitted or cancelled.                               *)
(***************************************************************************)
EXTENDS Naturals, FiniteSets, Sequences, Functions

CONSTANTS
  Fn,              \* DefIds of the functions whose visitors report diagnostics
  Diag,            \* identities of diagnostics (model values)
  MaxSpan,         \* primary spans are 0..MaxSpan, 0 = no primary span
  MaxVisits,       \* how often the visitor of one function may finish
  AssertKinds,     \* the mir::AssertKind values the checker meets
  CheckerCauses,   \* causes of diagnostics not built from an assertion
  SuppressOptions  \* the values of `--suppress` considered

ASSUME ConstantsAssumption ==
  /\ IsFiniteSet(Diag)
  /\ MaxSpan \in Nat
  /\ MaxVisits \in Nat \ {0}
  /\ SuppressOptions \subseteq SUBSET {"Bitwise", "Arithmetic", "Assembly",
        "Comparison", "DivZero", "Memory", "Panic", "Index", "Other"}

VARIABLES
  opts,    \* the analysis options read from the command line
  buffer,  \* buffer[f]: buffered_diagnostics of the live visitor of f
  store,   \* store[f]: DiagnosticsForDefId.map[f] (<<>> when absent)
  visits,  \* visits[f]: how many visitors of f have finished
  span,    \* span[d]: primary span of diagnostic d
  cause,   \* cause[d]: its DiagnosticCause
  mem,     \* mem[d]: its is_memory_safety flag
  level,   \* level[d]: "Warning" or "Error"
  fate,    \* where diagnostic d is: see Fates
  out,     \* the diagnostics emitted, in order
  phase    \* "analysis" while functions are analysed, then "emitted"

vars == <<opts, buffer, store, visits, span, cause, mem, level, fate, out, phase>>

Fates == {"unborn", "buffered", "stored", "emitted", "cancelled", "dropped"}

(***************************************************************************)
(* DiagnosticCause::from(&AssertKind).                                     *)
(***************************************************************************)
ArithOps == {"Add", "Sub", "Mul", "Div", "Rem",
             "AddUnchecked", "SubUnchecked", "MulUnchecked"}
BitOps   == {"Shr", "Shl", "BitXor", "BitAnd", "BitOr",
             "ShlUnchecked", "ShrUnchecked"}
CmpOps   == {"Eq", "Lt", "Le", "Ne", "Ge", "Gt", "Cmp"}

CauseOf(k) ==
  CASE k.tag = "BoundsCheck"                      -> "Index"
    [] k.tag = "Overflow" /\ k.op \in ArithOps    -> "Arithmetic"
    [] k.tag = "Overflow" /\ k.op \in BitOps      -> "Bitwise"
    [] k.tag = "Overflow" /\ k.op \in CmpOps      -> "Comparison"
    [] k.tag = "Overflow" /\ k.op = "Offset"      -> "Index"
    [] k.tag = "OverflowNeg"                      -> "Arithmetic"
    [] k.tag \in {"DivisionByZero", "RemainderByZero"} -> "DivZero"
    [] OTHER                                      -> "Other"

ReportedCauses == {CauseOf(k) : k \in AssertKinds} \cup CheckerCauses

(***************************************************************************)
(* Diagnostic::clone builds a new builder from the level and first message *)
(* only: a clone has no primary span, which `compare` orders first.        *)
(***************************************************************************)
NoSpan == 0

Options == [suppressed : SuppressOptions, memonly : BOOLEAN, deny : BOOLEAN]

Init ==
  /\ opts \in Options
  /\ buffer = [f \in Fn |-> <<>>]
  /\ store = [f \in Fn |-> <<>>]
  /\ visits = [f \in Fn |-> 0]
  /\ span = [d \in Diag |-> NoSpan]
  /\ cause = [d \in Diag |-> "Other"]
  /\ mem = [d \in Diag |-> FALSE]
  /\ level = [d \in Diag |-> "Warning"]
  /\ fate = [d \in Diag |-> "unborn"]
  /\ out = <<>>
  /\ phase = "analysis"

(***************************************************************************)
(* The checker of f's live visitor builds a warning and buffers it.        *)
(***************************************************************************)
Report(f, d, c, sp, m) ==
  /\ phase = "analysis"
  /\ visits[f] < MaxVisits
  /\ fate[d] = "unborn"
  /\ buffer' = [buffer EXCEPT ![f] = Append(@, d)]
  /\ span' = [span EXCEPT ![d] = sp]
  /\ cause' = [cause EXCEPT ![d] = c]
  /\ mem' = [mem EXCEPT ![d] = m]
  /\ fate' = [fate EXCEPT ![d] = "buffered"]
  /\ UNCHANGED <<opts, store, visits, level, out, phase>>

\* Mutation: the visitor's buffer is moved into the map but not emptied.
FinishKeepsBuffer(f) ==
  /\ phase = "analysis"
  /\ visits[f] < MaxVisits
  /\ store' = [store EXCEPT ![f] = buffer[f]]
  /\ fate' = [d \in Diag |->
                IF d \in Range(buffer[f]) THEN "stored"
                ELSE IF d \in Range(store[f]) THEN "dropped"
                ELSE fate[d]]
  /\ visits' = [visits EXCEPT ![f] = @ + 1]
  /\ UNCHANGED <<opts, buffer, span, cause, mem, level, out, phase>>

(***************************************************************************)
(* f's visitor finishes: DiagnosticsForDefId::insert(f, buffer).  HashMap  *)
(* insert replaces the vector stored earlier for f, which is dropped.      *)
(***************************************************************************)
Finish(f) ==
  /\ phase = "analysis"
  /\ visits[f] < MaxVisits
  /\ store' = [store EXCEPT ![f] = buffer[f]]
  /\ fate' = [d \in Diag |->
                IF d \in Range(buffer[f]) THEN "stored"
                ELSE IF d \in Range(store[f]) THEN "dropped"
                ELSE fate[d]]
  /\ buffer' = [buffer EXCEPT ![f] = <<>>]
  /\ visits' = [visits EXCEPT ![f] = @ + 1]
  /\ UNCHANGED <<opts, span, cause, mem, level, out, phase>>

(***************************************************************************)
(* The order in which emit_diagnostics meets the stored diagnostics:      *)
(* `into_values().flatten()` visits the functions in the HashMap's order   *)
(* `rank`, each vector front to back; `sort_by(Diagnostic::compare)` is a  *)
(* stable sort on the primary span.                                        *)
(***************************************************************************)
IterationOrders == {r \in [Fn -> 1..Cardinality(Fn)] : IsInjective(r)}

Owner(d) == CHOOSE f \in Fn : d \in Range(store[f])

Idx(d) == CHOOSE i \in DOMAIN store[Owner(d)] : store[Owner(d)][i] = d

FlatBefore(rank, a, b) ==
  \/ rank[Owner(a)] < rank[Owner(b)]
  \/ Owner(a) = Owner(b) /\ Idx(a) < Idx(b)

\* Mutation: the diagnostics are not sorted, only flattened.
EmitBeforeUnsorted(rank, a, b) == FlatBefore(rank, a, b)

EmitBefore(rank, a, b) ==
  \/ span[a] < span[b]
  \/ span[a] = span[b] /\ FlatBefore(rank, a, b)

SortedUnder(s, rank) ==
  \A i, j \in DOMAIN s : i < j => EmitBefore(rank, s[i], s[j])

(***************************************************************************)
(* A diagnostic survives `suppress_warnings` and `memory_safety_only`.     *)
(***************************************************************************)
Passes(d) ==
  /\ cause[d] \notin opts.suppressed
  /\ opts.memonly => mem[d]

Stored == {d \in Diag : fate[d] = "stored"}

(***************************************************************************)
(* NumericalAnalysis::run: once the entry function's analysis is over (no  *)
(* visitor is live), emit_diagnostics runs.                                *)
(***************************************************************************)
AnalysisDone == \A f \in Fn : buffer[f] = <<>>

\* Mutation: under memory_safety_only the other diagnostics are not cancelled.
EmitDiagnosticsNoCancel ==
  /\ phase = "analysis"
  /\ AnalysisDone
  /\ LET kept == {d \in Stored : Passes(d)}
     IN /\ \E rank \in IterationOrders,
              s \in [1..Cardinality(kept) -> kept] :
              /\ SortedUnder(s, rank)
              /\ out' = s
        /\ fate' = [d \in Diag |->
                      IF d \in kept THEN "emitted"
                      ELSE IF d \in Stored /\ cause[d] \in opts.suppressed
                        THEN "cancelled"
                      ELSE IF d \in Stored THEN "dropped"
                      ELSE fate[d]]
  /\ level' = IF opts.deny
                THEN [d \in Diag |-> IF d \in Stored THEN "Error" ELSE level[d]]
                ELSE level
  /\ phase' = "emitted"
  /\ UNCHANGED <<opts, buffer, store, visits, span, cause, mem>>

\* Mutation: every diagnostic that is not emitted is cancelled, stored or not.
EmitDiagnosticsCancelAll ==
  /\ phase = "analysis"
  /\ AnalysisDone
  /\ LET kept == {d \in Stored : Passes(d)}
     IN /\ \E rank \in IterationOrders,
              s \in [1..Cardinality(kept) -> kept] :
              /\ SortedUnder(s, rank)
              /\ out' = s
        /\ fate' = [d \in Diag |-> IF d \in kept THEN "emitted" ELSE "cancelled"]
  /\ level' = IF opts.deny
                THEN [d \in Diag |-> IF d \in Stored THEN "Error" ELSE level[d]]
                ELSE level
  /\ phase' = "emitted"
  /\ UNCHANGED <<opts, buffer, store, visits, span, cause, mem>>

EmitDiagnostics ==
  /\ phase = "analysis"
  /\ AnalysisDone
  /\ LET kept == {d \in Stored : Passes(d)}
     IN /\ \E rank \in IterationOrders,
              s \in [1..Cardinality(kept) -> kept] :
              /\ SortedUnder(s, rank)
              /\ out' = s
        /\ fate' = [d \in Diag |->
                      IF d \in kept THEN "emitted"
                      ELSE IF d \in Stored THEN "cancelled"
                      ELSE fate[d]]
  /\ level' = IF opts.deny
                THEN [d \in Diag |-> IF d \in Stored THEN "Error" ELSE level[d]]
                ELSE level
  /\ phase' = "emitted"
  /\ UNCHANGED <<opts, buffer, store, visits, span, cause, mem>>

Next ==
  \/ \E f \in Fn, d \in Diag, c \in ReportedCauses, sp \in 0..MaxSpan,
        m \in BOOLEAN : Report(f, d, c, sp, m)
  \/ \E f \in Fn : Finish(f)
  \/ EmitDiagnostics

Spec == Init /\ [][Next]_vars

-----------------------------------------------------------------------------
(***************************************************************************)
(* Every variable has its type.                                            *)
(***************************************************************************)
TypeOK ==
  /\ opts \in Options
  /\ buffer \in [Fn -> Seq(Diag)]
  /\ store \in [Fn -> Seq(Diag)]
  /\ visits \in [Fn -> 0..MaxVisits]
  /\ span \in [Diag -> 0..MaxSpan]
  /\ cause \in [Diag -> ReportedCauses \cup {"Other"}]
  /\ mem \in [Diag -> BOOLEAN]
  /\ level \in [Diag -> {"Warning", "Error"}]
  /\ fate \in [Diag -> Fates]
  /\ out \in Seq(Diag)
  /\ phase \in {"analysis", "emitted"}

Reported == {d \in Diag : fate[d] # "unborn"}

(***************************************************************************)
(* No diagnostic is ever dropped un-emitted and un-cancelled: neither by   *)
(* DiagnosticsForDefId::insert replacing a function's stored vector, nor   *)
(* by emit_diagnostics forgetting one it filtered out.                     *)
(***************************************************************************)
NoDiagnosticDropped == \A d \in Diag : fate[d] # "dropped"

(***************************************************************************)
(* What emit_diagnostics promises once it has run: exactly the reported    *)
(* diagnostics that pass the suppress and memory-safety filters are        *)
(* emitted, each once, in nondecreasing primary span, at error level iff   *)
(* deny_warnings; every other reported diagnostic is cancelled.            *)
(***************************************************************************)
EmissionContract ==
  phase = "emitted" =>
    /\ Range(out) = {d \in Reported : Passes(d)}
    /\ IsInjective(out)
    /\ \A i, j \in DOMAIN out : i < j => span[out[i]] <= span[out[j]]
    /\ \A d \in Range(out) : level[d] = IF opts.deny THEN "Error" ELSE "Warning"
    /\ \A d \in Reported \ Range(out) : fate[d] = "cancelled"

(***************************************************************************)
(* Determinism (spec section 5): the emitted order does not depend on the  *)
(* HashMap's iteration order over the functions.                           *)
(***************************************************************************)
Determinism ==
  phase = "emitted" => \A rank \in IterationOrders : SortedUnder(out, rank)

-----------------------------------------------------------------------------
(***************************************************************************)
(* Fairness the code justifies: the analysis is one sequential thread, so  *)
(* a visitor that has buffered diagnostics runs to its end and is          *)
(* inserted, and once the entry's analysis is over emit_diagnostics runs.  *)
(***************************************************************************)
FairSpec ==
  /\ Spec
  /\ \A f \in Fn : WF_vars(buffer[f] # <<>> /\ Finish(f))
  /\ WF_vars(EmitDiagnostics)

(***************************************************************************)
(* The refinement mapping: a buffered or stored diagnostic is pending; a   *)
(* dropped one is in no state of the abstract lifecycle.                   *)
(***************************************************************************)
LifeOf(d) ==
  CASE fate[d] = "unborn"                  -> "unborn"
    [] fate[d] \in {"buffered", "stored"}  -> "pending"
    [] fate[d] \in {"emitted", "cancelled"} -> fate[d]
    [] OTHER                               -> "dropped"

Lifecycle == INSTANCE DiagnosticLifecycle
               WITH life <- [d \in Diag |-> LifeOf(d)],
                    closed <- (phase = "emitted")

(***************************************************************************)
(* The store and emit_diagnostics implement the diagnostic lifecycle: each *)
(* diagnostic is created once during the analysis, pending until          *)
(* emit_diagnostics, then emitted or cancelled for good, and the emission  *)
(* point is eventually reached.                                            *)
(***************************************************************************)
DiagnosticsLifecycle == Lifecycle!FairSpec

=============================================================================
