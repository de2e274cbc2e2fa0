-------------------------- MODULE DiagnosticsProofs --------------------------
(***************************************************************************)
(* Proofs about the diagnostics store and its emission (Diagnostics), for  *)
(* every value of the constants that satisfies ConstantsAssumption.        *)
(***************************************************************************)
EXTENDS Diagnostics, FiniteSetTheorems, SequenceTheorems, TLAPS

(***************************************************************************)
(* The sequence emit_diagnostics builds, a function from 1..Cardinality(S) *)
(* to a set S of diagnostics, is a sequence of diagnostics.                *)
(***************************************************************************)
LEMMA EmittedIsSeq ==
  ASSUME NEW S \in SUBSET Diag, NEW s \in [1..Cardinality(S) -> S]
  PROVE  s \in Seq(Diag)
<1>1. IsFiniteSet(S)
  BY ConstantsAssumption, FS_Subset
<1>2. Cardinality(S) \in Nat
  BY <1>1, FS_CardinalityType
<1>3. s \in [1..Cardinality(S) -> Diag]
  OBVIOUS
<1>. QED
  BY <1>2, <1>3, SeqDef

(***************************************************************************)
(* Type correctness: every reachable state satisfies TypeOK.               *)
(***************************************************************************)
LEMMA TypeInit == Init => TypeOK
BY ConstantsAssumption DEF Init, TypeOK, Options, Fates, NoSpan

LEMMA TypeStep == TypeOK /\ [Next]_vars => TypeOK'
<1> SUFFICES ASSUME TypeOK, [Next]_vars PROVE TypeOK'
  OBVIOUS
<1>1. ASSUME NEW f \in Fn, NEW d \in Diag, NEW c \in ReportedCauses,
             NEW sp \in 0..MaxSpan, NEW m \in BOOLEAN,
             Report(f, d, c, sp, m)
      PROVE  TypeOK'
  BY <1>1 DEF Report, TypeOK, Fates
<1>2. ASSUME NEW f \in Fn, Finish(f) PROVE TypeOK'
  BY <1>2, ConstantsAssumption DEF Finish, TypeOK, Fates
<1>3. ASSUME EmitDiagnostics PROVE TypeOK'
  <2>1. PICK rank \in IterationOrders,
             s \in [1..Cardinality({d \in Stored : Passes(d)}) ->
                      {d \in Stored : Passes(d)}] :
               /\ SortedUnder(s, rank)
               /\ out' = s
    BY <1>3 DEF EmitDiagnostics
  <2>2. {d \in Stored : Passes(d)} \in SUBSET Diag
    BY DEF Stored
  <2>3. out' \in Seq(Diag)
    BY <2>1, <2>2, EmittedIsSeq
  <2>. QED
    BY <1>3, <2>3 DEF EmitDiagnostics, TypeOK, Fates
<1>4. CASE UNCHANGED vars
  BY <1>4 DEF vars, TypeOK
<1>. QED
  BY <1>1, <1>2, <1>3, <1>4 DEF Next

THEOREM TypeCorrect == Spec => []TypeOK
BY TypeInit, TypeStep, PTL DEF Spec

-----------------------------------------------------------------------------
(***************************************************************************)
(* A function's stored vector is empty until its first visitor finished.  *)
(* It is what makes DropsNeedReinsert inductive: DiagnosticsForDefId::     *)
(* insert can only replace a non-empty vector on a second insert.          *)
(***************************************************************************)
StoreEmptyBeforeFirstInsert == \A f \in Fn : visits[f] = 0 => store[f] = <<>>

(***************************************************************************)
(* A diagnostic is dropped only when the visitor of some function finished *)
(* twice, i.e. only through a second DiagnosticsForDefId::insert.          *)
(***************************************************************************)
DropsNeedReinsert ==
  \A d \in Diag : fate[d] = "dropped" => \E f \in Fn : visits[f] >= 2

IInv == TypeOK /\ StoreEmptyBeforeFirstInsert /\ DropsNeedReinsert

LEMMA IInvInit == Init => IInv
BY ConstantsAssumption DEF Init, IInv, TypeOK, Options, Fates, NoSpan,
       StoreEmptyBeforeFirstInsert, DropsNeedReinsert

LEMMA IInvStep == IInv /\ [Next]_vars => IInv'
<1> SUFFICES ASSUME IInv, [Next]_vars PROVE IInv'
  OBVIOUS
<1>1. TypeOK'
  BY TypeStep DEF IInv
<1>2. ASSUME NEW f \in Fn, NEW d \in Diag, NEW c \in ReportedCauses,
             NEW sp \in 0..MaxSpan, NEW m \in BOOLEAN,
             Report(f, d, c, sp, m)
      PROVE  IInv'
  BY <1>1, <1>2 DEF Report, IInv, TypeOK, StoreEmptyBeforeFirstInsert,
                    DropsNeedReinsert
<1>3. ASSUME NEW f \in Fn, Finish(f) PROVE IInv'
  <2>1. StoreEmptyBeforeFirstInsert'
    BY <1>3 DEF Finish, IInv, TypeOK, StoreEmptyBeforeFirstInsert
  <2>2. ASSUME NEW d \in Diag, fate'[d] = "dropped"
        PROVE  \E g \in Fn : visits'[g] >= 2
    <3>1. CASE fate[d] = "dropped"
      BY <3>1, <1>3 DEF Finish, IInv, TypeOK, DropsNeedReinsert
    <3>2. CASE fate[d] # "dropped"
      <4>1. d \in Range(store[f])
        BY <1>3, <2>2, <3>2 DEF Finish, IInv, TypeOK
      <4>2. visits[f] # 0
        BY <4>1 DEF IInv, StoreEmptyBeforeFirstInsert, Range
      <4>. QED
        BY <4>2, <1>3 DEF Finish, IInv, TypeOK
    <3>. QED
      BY <3>1, <3>2
  <2>. QED
    BY <1>1, <2>1, <2>2 DEF IInv, DropsNeedReinsert
<1>4. ASSUME EmitDiagnostics PROVE IInv'
  BY <1>1, <1>4 DEF EmitDiagnostics, IInv, TypeOK,
                    StoreEmptyBeforeFirstInsert, DropsNeedReinsert
<1>5. CASE UNCHANGED vars
  BY <1>5 DEF vars, IInv, TypeOK, StoreEmptyBeforeFirstInsert,
              DropsNeedReinsert
<1>. QED
  BY <1>2, <1>3, <1>4, <1>5 DEF Next

(***************************************************************************)
(* For every value of the constants, a diagnostic is lost un-emitted and   *)
(* un-cancelled only if DiagnosticsForDefId::insert was called twice for   *)
(* the same function.                                                      *)
(***************************************************************************)
THEOREM DropsOnlyOnReinsert == Spec => []DropsNeedReinsert
<1>1. IInv => DropsNeedReinsert
  BY DEF IInv
<1>. QED
  BY IInvInit, IInvStep, <1>1, PTL DEF Spec

(***************************************************************************)
(* When every function's diagnostics are inserted at most once, no         *)
(* diagnostic is ever dropped: NoDiagnosticDropped, which the run          *)
(* diagnostics_store checks on a small instance, holds for all of them.    *)
(***************************************************************************)
THEOREM NoDropWhenInsertedOnce ==
  ASSUME MaxVisits = 1 PROVE Spec => []NoDiagnosticDropped
<1>1. IInv => NoDiagnosticDropped
  <2> SUFFICES ASSUME IInv, NEW d \in Diag, fate[d] = "dropped"
               PROVE  FALSE
    BY DEF NoDiagnosticDropped
  <2>1. PICK g \in Fn : visits[g] >= 2
    BY DEF IInv, DropsNeedReinsert
  <2>2. visits[g] \in 0..1
    BY DEF IInv, TypeOK
  <2>. QED
    BY <2>1, <2>2
<1>. QED
  BY IInvInit, IInvStep, <1>1, PTL DEF Spec

-----------------------------------------------------------------------------
(***************************************************************************)
(* The refinement of DiagnosticLifecycle.  Three facts about the visitors' *)
(* buffers make it inductive: a diagnostic in a buffer is buffered, no two *)
(* buffers share one, and a buffered diagnostic is in some buffer (so none *)
(* is left buffered once AnalysisDone lets emit_diagnostics run).  They    *)
(* are stated for MaxVisits = 1, where no stored vector is ever replaced.  *)
(***************************************************************************)
InBufferIsBuffered ==
  \A f \in Fn, d \in Diag : d \in Range(buffer[f]) => fate[d] = "buffered"

BuffersDisjoint ==
  \A f, g \in Fn, d \in Diag :
    d \in Range(buffer[f]) /\ d \in Range(buffer[g]) => f = g

BufferedInBuffer ==
  \A d \in Diag : fate[d] = "buffered" => \E f \in Fn : d \in Range(buffer[f])

RInv == IInv /\ InBufferIsBuffered /\ BuffersDisjoint /\ BufferedInBuffer

LEMMA RangeAppend ==
  ASSUME NEW S, NEW s \in Seq(S), NEW x \in S
  PROVE  Range(Append(s, x)) = Range(s) \cup {x}
<1>1. /\ Append(s, x) \in Seq(S)
      /\ Len(Append(s, x)) = Len(s) + 1
      /\ \A i \in 1..Len(s) : Append(s, x)[i] = s[i]
      /\ Append(s, x)[Len(s) + 1] = x
  BY AppendProperties
<1>2. /\ DOMAIN Append(s, x) = 1..Len(s) + 1
      /\ DOMAIN s = 1..Len(s)
      /\ Len(s) \in Nat
  BY <1>1, LenProperties
<1>. QED
  BY <1>1, <1>2 DEF Range

LEMMA RangeEmpty == Range(<<>>) = {}
BY DEF Range

LEMMA RInvInit == Init => RInv
BY IInvInit, RangeEmpty DEF Init, RInv, InBufferIsBuffered, BuffersDisjoint,
                           BufferedInBuffer

LEMMA RInvStep ==
  ASSUME MaxVisits = 1 PROVE RInv /\ [Next]_vars => RInv'
<1> SUFFICES ASSUME RInv, [Next]_vars PROVE RInv'
  OBVIOUS
<1>1. IInv'
  BY IInvStep DEF RInv
<1>2. ASSUME NEW f \in Fn, NEW d \in Diag, NEW c \in ReportedCauses,
             NEW sp \in 0..MaxSpan, NEW m \in BOOLEAN,
             Report(f, d, c, sp, m)
      PROVE  RInv'
  <2>0. Range(Append(buffer[f], d)) = Range(buffer[f]) \cup {d}
    BY RangeAppend DEF RInv, IInv, TypeOK
  <2>1. \A g \in Fn : Range(buffer'[g]) =
          IF g = f THEN Range(buffer[g]) \cup {d} ELSE Range(buffer[g])
    BY <1>2, <2>0 DEF Report, RInv, IInv, TypeOK
  <2>2. \A g \in Fn : d \notin Range(buffer[g])
    BY <1>2 DEF Report, RInv, InBufferIsBuffered
  <2>3. InBufferIsBuffered'
    <3> SUFFICES ASSUME NEW g \in Fn, NEW e \in Diag, e \in Range(buffer'[g])
                 PROVE  fate'[e] = "buffered"
      BY DEF InBufferIsBuffered
    <3>1. CASE e = d
      BY <1>2, <3>1 DEF Report, RInv, IInv, TypeOK
    <3>2. CASE e # d
      <4>1. e \in Range(buffer[g])
        BY <2>1, <3>2
      <4>2. fate[e] = "buffered"
        BY <4>1 DEF RInv, InBufferIsBuffered
      <4>. QED
        BY <1>2, <3>2, <4>2 DEF Report, RInv, IInv, TypeOK
    <3>. QED
      BY <3>1, <3>2
  <2>4. BuffersDisjoint'
    BY <2>1, <2>2 DEF RInv, BuffersDisjoint
  <2>5. BufferedInBuffer'
    BY <1>2, <2>1 DEF Report, RInv, BufferedInBuffer, IInv, TypeOK
  <2>. QED
    BY <1>1, <2>3, <2>4, <2>5 DEF RInv
<1>3. ASSUME NEW f \in Fn, Finish(f) PROVE RInv'
  <2>1. Range(buffer'[f]) = {}
    BY <1>3, RangeEmpty DEF Finish, RInv, IInv, TypeOK
  <2>2. \A g \in Fn \ {f} : buffer'[g] = buffer[g]
    BY <1>3 DEF Finish, RInv, IInv, TypeOK
  <2>3. \A d \in Diag : d \notin Range(buffer[f]) =>
          (fate'[d] = "buffered" <=> fate[d] = "buffered")
    <3> SUFFICES ASSUME NEW d \in Diag, d \notin Range(buffer[f])
                 PROVE  fate'[d] = "buffered" <=> fate[d] = "buffered"
      OBVIOUS
    <3>1. store[f] = <<>>
      BY <1>3 DEF Finish, RInv, IInv, TypeOK, StoreEmptyBeforeFirstInsert
    <3>2. fate'[d] = fate[d]
      BY <1>3, <3>1, RangeEmpty DEF Finish
    <3>. QED
      BY <3>2
  <2>4. InBufferIsBuffered'
    BY <2>1, <2>2, <2>3 DEF RInv, InBufferIsBuffered, BuffersDisjoint
  <2>5. BuffersDisjoint'
    BY <2>1, <2>2 DEF RInv, BuffersDisjoint
  <2>6. BufferedInBuffer'
    <3> SUFFICES ASSUME NEW d \in Diag, fate'[d] = "buffered"
                 PROVE  \E g \in Fn : d \in Range(buffer'[g])
      BY DEF BufferedInBuffer
    <3>1. d \notin Range(buffer[f])
      BY <1>3 DEF Finish, RInv, IInv, TypeOK
    <3>2. PICK g \in Fn : d \in Range(buffer[g])
      BY <3>1, <2>3 DEF RInv, BufferedInBuffer
    <3>. QED
      BY <3>1, <3>2, <2>2
  <2>. QED
    BY <1>1, <2>4, <2>5, <2>6 DEF RInv
<1>4. ASSUME EmitDiagnostics PROVE RInv'
  <2>1. \A d \in Diag : fate'[d] = "buffered" <=> fate[d] = "buffered"
    BY <1>4 DEF EmitDiagnostics, Stored, RInv, IInv, TypeOK
  <2>. QED
    BY <1>1, <1>4, <2>1 DEF EmitDiagnostics, RInv, InBufferIsBuffered,
                            BuffersDisjoint, BufferedInBuffer
<1>5. CASE UNCHANGED vars
  BY <1>1, <1>5 DEF vars, RInv, InBufferIsBuffered, BuffersDisjoint,
                    BufferedInBuffer
<1>. QED
  BY <1>2, <1>3, <1>4, <1>5 DEF Next

(***************************************************************************)
(* For every value of the constants with one insert per function, the      *)
(* store and emit_diagnostics implement DiagnosticLifecycle: a Report is a *)
(* Create, DiagnosticsForDefId::insert only moves pending diagnostics from *)
(* a buffer into the map (a stutter), and emit_diagnostics settles every   *)
(* pending diagnostic at once, emitting those that pass the filters.  The  *)
(* run diagnostics_lifecycle checks the refinement with its fairness.      *)
(***************************************************************************)
THEOREM ImplementsLifecycle ==
  ASSUME MaxVisits = 1 PROVE Spec => Lifecycle!Spec
<1>1. Init => Lifecycle!Init
  BY DEF Init, Lifecycle!Init, LifeOf
<1>2. RInv /\ [Next]_vars => [Lifecycle!Next]_Lifecycle!vars
  <2> SUFFICES ASSUME RInv, [Next]_vars PROVE [Lifecycle!Next]_Lifecycle!vars
    OBVIOUS
  <2>1. ASSUME NEW f \in Fn, NEW d \in Diag, NEW c \in ReportedCauses,
               NEW sp \in 0..MaxSpan, NEW m \in BOOLEAN,
               Report(f, d, c, sp, m)
        PROVE  Lifecycle!Create(d)
    BY <2>1 DEF Report, Lifecycle!Create, LifeOf, RInv, IInv, TypeOK
  <2>2. ASSUME NEW f \in Fn, Finish(f) PROVE UNCHANGED Lifecycle!vars
    <3>1. store[f] = <<>>
      BY <2>2 DEF Finish, RInv, IInv, TypeOK, StoreEmptyBeforeFirstInsert
    <3>2. \A d \in Diag : fate'[d] = IF d \in Range(buffer[f]) THEN "stored"
                                     ELSE fate[d]
      BY <2>2, <3>1, RangeEmpty DEF Finish
    <3>3. \A d \in Diag : d \in Range(buffer[f]) => fate[d] = "buffered"
      BY DEF RInv, InBufferIsBuffered
    <3>4. \A d \in Diag : LifeOf(d)' = LifeOf(d)
      BY <3>2, <3>3 DEF LifeOf
    <3>. QED
      BY <2>2, <3>4 DEF Finish, Lifecycle!vars
  <2>3. ASSUME EmitDiagnostics PROVE Lifecycle!Settle
    <3> DEFINE kept == {d \in Stored : Passes(d)}
    <3>1. \A d \in Diag : fate[d] # "buffered"
      <4> SUFFICES ASSUME NEW d \in Diag, fate[d] = "buffered" PROVE FALSE
        OBVIOUS
      <4>1. PICK f \in Fn : d \in Range(buffer[f])
        BY DEF RInv, BufferedInBuffer
      <4>2. buffer[f] = <<>>
        BY <2>3 DEF EmitDiagnostics, AnalysisDone
      <4>. QED
        BY <4>1, <4>2, RangeEmpty
    <3>2. \A d \in Diag : LifeOf(d) = "pending" <=> d \in Stored
      BY <3>1 DEF LifeOf, Stored
    <3>3. \A d \in Diag : fate'[d] = IF d \in kept THEN "emitted"
                                    ELSE IF d \in Stored THEN "cancelled"
                                    ELSE fate[d]
      BY <2>3 DEF EmitDiagnostics
    <3>4. \A d \in Diag :
            LifeOf(d)' = IF LifeOf(d) # "pending" THEN LifeOf(d)
                         ELSE IF d \in kept THEN "emitted" ELSE "cancelled"
      BY <3>2, <3>3 DEF LifeOf, Stored
    <3>5. kept \in SUBSET {d \in Diag : LifeOf(d) = "pending"}
      BY <3>2 DEF Stored
    <3>. QED
      BY <2>3, <3>4, <3>5 DEF EmitDiagnostics, Lifecycle!Settle
  <2>4. CASE UNCHANGED vars
    BY <2>4 DEF vars, Lifecycle!vars, LifeOf
  <2>. QED
    BY <2>1, <2>2, <2>3, <2>4 DEF Next, Lifecycle!Next
<1>. QED
  BY <1>1, <1>2, RInvInit, RInvStep, PTL DEF Spec, Lifecycle!Spec

-----------------------------------------------------------------------------
(***************************************************************************)
(* An injective sequence of length Cardinality(K) over a finite set K      *)
(* holds every element of K: the sequence emit_diagnostics builds from the *)
(* kept diagnostics lists each of them.                                    *)
(***************************************************************************)
LEMMA InjectiveOnto ==
  ASSUME NEW K, IsFiniteSet(K), NEW s \in [1..Cardinality(K) -> K],
         IsInjective(s)
  PROVE  Range(s) = K
<1> DEFINE n == Cardinality(K)
<1>1. n \in Nat
  BY FS_CardinalityType
<1>2. Cardinality(1..n) = n
  BY <1>1, FS_Interval
<1>3. s \in Injection(1..n, K)
  BY DEF Injection
<1>4. s \in Surjection(1..n, K)
  BY <1>2, <1>3, FS_Injection
<1>. QED
  BY <1>4 DEF Surjection, Range

(***************************************************************************)
(* The emission contract.  Besides RInv it needs: a stored diagnostic is   *)
(* in some function's stored vector (so Owner and Idx are defined, and the *)
(* order compare imposes is strict), and until emit_diagnostics runs every *)
(* diagnostic is a warning and none is emitted or cancelled.               *)
(***************************************************************************)
StoredInStore ==
  \A d \in Diag : fate[d] = "stored" => \E f \in Fn : d \in Range(store[f])

WarnUntilEmitted == phase = "analysis" => \A d \in Diag : level[d] = "Warning"

UnsettledUntilEmitted ==
  phase = "analysis" => \A d \in Diag : fate[d] \notin {"emitted", "cancelled"}

EInv == /\ RInv /\ StoredInStore /\ WarnUntilEmitted /\ UnsettledUntilEmitted
        /\ EmissionContract

(***************************************************************************)
(* Diagnostic::compare, with the flattening order as tie-break, is a       *)
(* strict order on the stored diagnostics: no diagnostic comes before      *)
(* itself, and before a later one it never has a larger span.              *)
(***************************************************************************)
LEMMA EmitBeforeFacts ==
  ASSUME TypeOK, StoredInStore, NEW rank \in IterationOrders,
         NEW a \in Diag, fate[a] = "stored", NEW b \in Diag
  PROVE  /\ ~EmitBefore(rank, a, a)
         /\ EmitBefore(rank, a, b) => span[a] <= span[b]
<1>1. Owner(a) \in Fn /\ a \in Range(store[Owner(a)])
  BY DEF StoredInStore, Owner
<1>2. Idx(a) \in Nat
  <2>1. store[Owner(a)] \in Seq(Diag)
    BY <1>1 DEF TypeOK
  <2>2. \E i \in DOMAIN store[Owner(a)] : store[Owner(a)][i] = a
    BY <1>1 DEF Range
  <2>3. Idx(a) \in DOMAIN store[Owner(a)]
    BY <2>2 DEF Idx
  <2>. QED
    BY <2>1, <2>3
<1>3. rank[Owner(a)] \in Nat
  BY <1>1 DEF IterationOrders
<1>4. ~FlatBefore(rank, a, a)
  BY <1>2, <1>3 DEF FlatBefore
<1>5. span[a] \in Nat /\ span[b] \in Nat
  BY DEF TypeOK
<1>. QED
  BY <1>4, <1>5 DEF EmitBefore

LEMMA EInvInit == Init => EInv
BY RInvInit DEF Init, EInv, StoredInStore, WarnUntilEmitted,
               UnsettledUntilEmitted, EmissionContract

LEMMA EInvStep ==
  ASSUME MaxVisits = 1 PROVE EInv /\ [Next]_vars => EInv'
<1> SUFFICES ASSUME EInv, [Next]_vars PROVE EInv'
  OBVIOUS
<1>1. RInv'
  BY RInvStep DEF EInv
<1>2. ASSUME NEW f \in Fn, NEW d \in Diag, NEW c \in ReportedCauses,
             NEW sp \in 0..MaxSpan, NEW m \in BOOLEAN,
             Report(f, d, c, sp, m)
      PROVE  EInv'
  BY <1>1, <1>2 DEF Report, EInv, StoredInStore, WarnUntilEmitted,
                    UnsettledUntilEmitted, EmissionContract
<1>3. ASSUME NEW f \in Fn, Finish(f) PROVE EInv'
  <2>1. store[f] = <<>>
    BY <1>3 DEF Finish, EInv, RInv, IInv, TypeOK, StoreEmptyBeforeFirstInsert
  <2>2. \A d \in Diag : fate'[d] = IF d \in Range(buffer[f]) THEN "stored"
                                   ELSE fate[d]
    BY <1>3, <2>1, RangeEmpty DEF Finish
  <2>3. StoredInStore'
    <3> SUFFICES ASSUME NEW d \in Diag, fate'[d] = "stored"
                 PROVE  \E g \in Fn : d \in Range(store'[g])
      BY DEF StoredInStore
    <3>1. CASE d \in Range(buffer[f])
      BY <1>3, <3>1 DEF Finish, EInv, RInv, IInv, TypeOK
    <3>2. CASE d \notin Range(buffer[f])
      <4>1. PICK g \in Fn : d \in Range(store[g])
        BY <2>2, <3>2 DEF EInv, StoredInStore
      <4>2. g # f
        BY <4>1, <2>1, RangeEmpty
      <4>. QED
        BY <4>1, <4>2, <1>3 DEF Finish, EInv, RInv, IInv, TypeOK
    <3>. QED
      BY <3>1, <3>2
  <2>. QED
    BY <1>1, <1>3, <2>2, <2>3 DEF Finish, EInv, WarnUntilEmitted,
                                  UnsettledUntilEmitted, EmissionContract
<1>4. ASSUME EmitDiagnostics PROVE EInv'
  <2> DEFINE kept == {d \in Stored : Passes(d)}
  <2>1. PICK rank \in IterationOrders,
             s \in [1..Cardinality(kept) -> kept] :
               /\ SortedUnder(s, rank)
               /\ out' = s
    BY <1>4 DEF EmitDiagnostics
  <2>2. \A d \in Diag : fate'[d] = IF d \in kept THEN "emitted"
                                  ELSE IF d \in Stored THEN "cancelled"
                                  ELSE fate[d]
    BY <1>4 DEF EmitDiagnostics
  <2>3. UNCHANGED <<opts, span, cause, mem>> /\ phase' = "emitted"
        /\ phase = "analysis"
    BY <1>4 DEF EmitDiagnostics
  \* Before emission every reported diagnostic is stored: none is buffered
  \* (the analysis is done), dropped (one insert per function), emitted or
  \* cancelled.
  <2>4. Reported = Stored
    <3> SUFFICES ASSUME NEW d \in Diag, fate[d] # "unborn"
                 PROVE  fate[d] = "stored"
      BY DEF Reported, Stored
    <3>1. fate[d] # "buffered"
      <4> SUFFICES ASSUME fate[d] = "buffered" PROVE FALSE
        OBVIOUS
      <4>1. PICK g \in Fn : d \in Range(buffer[g])
        BY DEF EInv, RInv, BufferedInBuffer
      <4>. QED
        BY <4>1, <1>4, RangeEmpty DEF EmitDiagnostics, AnalysisDone
    <3>2. fate[d] # "dropped"
      <4> SUFFICES ASSUME fate[d] = "dropped" PROVE FALSE
        OBVIOUS
      <4>1. PICK g \in Fn : visits[g] >= 2
        BY DEF EInv, RInv, IInv, DropsNeedReinsert
      <4>2. visits[g] \in 0..1
        BY DEF EInv, RInv, IInv, TypeOK
      <4>. QED
        BY <4>1, <4>2
    <3>3. fate[d] \notin {"emitted", "cancelled"}
      BY <2>3 DEF EInv, UnsettledUntilEmitted
    <3>. QED
      BY <3>1, <3>2, <3>3 DEF EInv, RInv, IInv, TypeOK, Fates
  <2>5. Reported' = Reported
    BY <2>2 DEF Reported, Stored
  <2>6. IsInjective(s)
    <3> SUFFICES ASSUME NEW i \in 1..Cardinality(kept),
                        NEW j \in 1..Cardinality(kept),
                        s[i] = s[j], i # j
                 PROVE  FALSE
      BY DEF IsInjective
    <3>1. s[i] \in Diag /\ fate[s[i]] = "stored"
      BY DEF Stored
    <3>2. ~EmitBefore(rank, s[i], s[i])
      BY <3>1, EmitBeforeFacts DEF EInv, RInv, IInv
    <3>3. i < j \/ j < i
      OBVIOUS
    <3>. QED
      BY <2>1, <3>2, <3>3 DEF SortedUnder
  <2>7. IsFiniteSet(kept)
    BY ConstantsAssumption, FS_Subset DEF Stored
  <2>8. Range(out') = kept
    BY <2>1, <2>6, <2>7, InjectiveOnto
  <2>9. EmissionContract'
    <3>1. Range(out') = {d \in Reported' : Passes(d)'}
      BY <2>3, <2>4, <2>5, <2>8 DEF Passes
    <3>2. \A i, j \in DOMAIN out' : i < j => span'[out'[i]] <= span'[out'[j]]
      <4> SUFFICES ASSUME NEW i \in 1..Cardinality(kept),
                          NEW j \in 1..Cardinality(kept), i < j
                   PROVE  span[s[i]] <= span[s[j]]
        BY <2>1, <2>3
      <4>1. EmitBefore(rank, s[i], s[j])
        BY <2>1 DEF SortedUnder
      <4>. QED
        BY <4>1, EmitBeforeFacts DEF EInv, RInv, IInv, Stored
    <3>3. \A d \in Range(out') :
            level'[d] = IF opts'.deny THEN "Error" ELSE "Warning"
      BY <2>3, <2>8, <1>4 DEF EmitDiagnostics, EInv, WarnUntilEmitted, Stored
    <3>4. \A d \in Reported' \ Range(out') : fate'[d] = "cancelled"
      BY <2>2, <2>4, <2>5, <2>8 DEF Reported, Stored
    <3>. QED
      BY <2>1, <2>6, <3>1, <3>2, <3>3, <3>4 DEF EmissionContract
  <2>10. StoredInStore'
    BY <2>2 DEF StoredInStore, Stored
  <2>. QED
    BY <1>1, <2>3, <2>9, <2>10 DEF EInv, WarnUntilEmitted, UnsettledUntilEmitted
<1>5. CASE UNCHANGED vars
  BY <1>1, <1>5 DEF vars, EInv, StoredInStore, WarnUntilEmitted,
                    UnsettledUntilEmitted, EmissionContract, Reported, Passes
<1>. QED
  BY <1>2, <1>3, <1>4, <1>5 DEF Next

(***************************************************************************)
(* For every number of functions and diagnostics, with one insert per      *)
(* function, emit_diagnostics keeps its contract, which the run            *)
(* diagnostics_store checks on a small instance: exactly the reported      *)
(* diagnostics that pass --suppress and --memory_safety_only are emitted,  *)
(* each once, in nondecreasing primary span whatever the HashMap order, as *)
(* errors iff --deny_warnings, and every other one is cancelled.           *)
(***************************************************************************)
THEOREM EmissionContractHolds ==
  ASSUME MaxVisits = 1 PROVE Spec => []EmissionContract
<1>1. EInv => EmissionContract
  BY DEF EInv
<1>. QED
  BY EInvInit, EInvStep, <1>1, PTL DEF Spec

=============================================================================
