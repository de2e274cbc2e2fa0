--------------------------- MODULE PathTypesProofs ---------------------------
(***************************************************************************)
(* Proofs about the two type resolvers of TypeVisitor, for every set of    *)
(* ADTs, every function's locals and every bound.                          *)
(*                                                                         *)
(* Each resolver has a counterexample in the runs (MCPathTypesSubslice,   *)
(* MCPathTypesRawPtr, MCPathTypesClosure).  The theorems say that these   *)
(* are the only ones: each hypothesis excludes the one construct of MIR    *)
(* whose counterexample TLC shows, and nothing else.                       *)
(***************************************************************************)
EXTENDS PathTypes, SequenceTheorems, TLAPS

(***************************************************************************)
(* truth is the record [ty, variant] that TrueStep keeps building.         *)
(***************************************************************************)
TruthIsRecord == truth = [ty |-> truth.ty, variant |-> truth.variant]

-----------------------------------------------------------------------------
(***************************************************************************)
(* The place resolver.  PlaceTypeExact is inductive once truth is known to *)
(* be a record: each step of get_type_for_projection_element takes the     *)
(* step MIR typing takes, except Subslice (typed as the element) and the  *)
(* casts (which panic, so that nothing is compared after them).            *)
(***************************************************************************)
PlaceInv == TruthIsRecord /\ PlaceTypeExact

LEMMA PlaceInvInit == Init => PlaceInv
  BY DEF Init, PlaceInv, TruthIsRecord, PlaceTypeExact

LEMMA PlaceInvStep ==
  ASSUME "subslice" \notin Projections
  PROVE  PlaceInv /\ [Next]_vars => PlaceInv'
<1> SUFFICES ASSUME PlaceInv, [Next]_vars PROVE PlaceInv'
  OBVIOUS
<1>1. ASSUME NEW k \in 0..(Len(LocalDecls) - 1), ReadPlace(k) PROVE PlaceInv'
  BY <1>1 DEF ReadPlace, PlaceInv, TruthIsRecord, PlaceTypeExact
<1>2. ASSUME NEW e \in Elems, Project(e) PROVE PlaceInv'
  <2> DEFINE t == truth.ty
  <2>1. placeTy = t
    BY <1>2 DEF Project, PlaceInv, PlaceTypeExact
  <2>2. TruthIsRecord'
    BY <1>2 DEF Project, PlaceInv, TruthIsRecord, TrueStep
  <2>3. WellTyped(truth, e)
    BY <1>2 DEF Project
  <2>4. e[1] \in (ProjectionKinds \ {"subslice"})
    <3>1. CASE e \in {<<k>> : k \in Projections \ {"field", "downcast"}}
      BY <3>1, PathTypesAssumption DEF ProjectionKinds
    <3>2. CASE e \notin {<<k>> : k \in Projections \ {"field", "downcast"}}
      BY <3>2 DEF Elems, ProjectionKinds
    <3> QED BY <3>1, <3>2
  <2>5. CASE e[1] = "deref"
    <3>1. t[1] \in {"ref", "ptr"}
      BY <2>3, <2>5 DEF WellTyped
    <3>2. PlaceStep(t, e, TrueStep(truth, e).ty) = t[2] /\ TrueStep(truth, e).ty = t[2]
      BY <3>1, <2>5 DEF PlaceStep, TrueStep
    <3> QED BY <3>2, <2>1, <2>2, <1>2 DEF Project, PlaceTypeExact, PlaceInv
  <2>6. CASE e[1] = "field"
    BY <2>6, <2>1, <2>2, <1>2 DEF Project, PlaceStep, PlaceTypeExact, PlaceInv
  <2>7. CASE e[1] \in {"index", "constindex"}
    <3>1. t[1] \in {"array", "slice"}
      BY <2>3, <2>7 DEF WellTyped
    <3>2. PlaceStep(t, e, TrueStep(truth, e).ty) = t[2] /\ TrueStep(truth, e).ty = t[2]
      BY <3>1, <2>7 DEF PlaceStep, TrueStep
    <3> QED BY <3>2, <2>1, <2>2, <1>2 DEF Project, PlaceTypeExact, PlaceInv
  <2>8. CASE e[1] = "downcast"
    <3>1. TrueStep(truth, e).ty = t
      BY <2>8, <1>2 DEF TrueStep, PlaceInv, TruthIsRecord
    <3>2. PlaceStep(t, e, TrueStep(truth, e).ty) = t
      BY <2>8 DEF PlaceStep
    <3> QED BY <3>1, <3>2, <2>1, <2>2, <1>2 DEF Project, PlaceTypeExact, PlaceInv
  <2>9. CASE e[1] \in {"opaquecast", "subtype"}
    <3>1. PlaceStep(t, e, TrueStep(truth, e).ty) = Panic
      BY <2>9 DEF PlaceStep
    <3> QED BY <3>1, <2>1, <2>2, <1>2 DEF Project, PlaceTypeExact, PlaceInv
  <2> QED BY <2>4, <2>5, <2>6, <2>7, <2>8, <2>9 DEF ProjectionKinds
<1>3. CASE UNCHANGED vars
  BY <1>3 DEF vars, PlaceInv, TruthIsRecord, PlaceTypeExact
<1> QED BY <1>1, <1>2, <1>3 DEF Next

(***************************************************************************)
(* get_rustc_place_type gives every place of a MIR body without Subslice   *)
(* projections the type rustc gives it, whatever chain of derefs, fields,  *)
(* indexing, downcasts and casts led there (type_visitor.rs 306-343).     *)
(***************************************************************************)
THEOREM PlaceTypeExactHolds ==
  ASSUME "subslice" \notin Projections
  PROVE  Spec => []PlaceTypeExact
<1>1. PlaceInv => PlaceTypeExact
  BY DEF PlaceInv
<1> QED BY PlaceInvInit, PlaceInvStep, <1>1, PTL DEF Spec

-----------------------------------------------------------------------------
(***************************************************************************)
(* The type universe.  WellFormedTypes(T) says that T holds the types of   *)
(* the locals and everything inside them and inside the ADTs' fields, each *)
(* of one of the kinds of type the model has, and that every ADT has a     *)
(* variant (an empty enum has no place to project from).  PlainTypes(T)    *)
(* says that none of them is a raw pointer or a closure of a generic       *)
(* function: the two constructs of MCPathTypesRawPtr and                   *)
(* MCPathTypesClosure.                                                     *)
(***************************************************************************)
TypeKinds == {"prim", "fnptr", "ref", "ptr", "array", "slice", "tuple", "adt",
              "closure"}

WellFormedTypes(T) ==
  /\ LocalDecls \in Seq(T)
  /\ \A t \in T :
       /\ t[1] \in TypeKinds
       /\ t[1] \in {"ref", "ptr", "array", "slice"} => t[2] \in T
       /\ t[1] = "tuple" => t[2] \in Seq(T)
       /\ t[1] = "closure" => t[3] \in Seq(T)
       /\ t[1] = "adt" => /\ Adts[t[2]] \in Seq(Seq(T))
                          /\ Adts[t[2]] # <<>>

PlainTypes(T) == \A t \in T : t[1] # "ptr" /\ (t[1] = "closure" => t[2] = <<>>)

(***************************************************************************)
(* The path's type is unit or the place's type, and it is unit while the   *)
(* place is downcast to a variant (get_path_rustc_type does not follow a   *)
(* Downcast selector); the variant is one of the enum's.                   *)
(***************************************************************************)
PathInv(T) ==
  /\ truth \in [ty : T, variant : {<<>>} \cup {<<v>> : v \in Nat}]
  /\ pathTy \in {Unit, truth.ty}
  /\ truth.variant # <<>> =>
       /\ pathTy = Unit
       /\ truth.ty[1] = "adt"
       /\ truth.variant[1] \in 0..(Len(Adts[truth.ty[2]]) - 1)

(***************************************************************************)
(* The root of a path has the declared type of its local: the actual       *)
(* argument types are the declared ones (PathTypesAssumption).             *)
(***************************************************************************)
LEMMA RootIsDeclared ==
  ASSUME NEW T, WellFormedTypes(T), NEW k \in 0..(Len(LocalDecls) - 1)
  PROVE  RootType(k) = LocalDecls[k + 1] /\ LocalDecls[k + 1] \in T
<1>1. LocalDecls \in Seq(T)
  BY DEF WellFormedTypes, PlainTypes
<1>2. LocalDecls[k + 1] \in T
  BY <1>1
<1>0. /\ Len(LocalDecls) >= 1
      /\ ArgCount \in 0..(Len(LocalDecls) - 1)
      /\ Actuals \in {<<>>, SubSeq(LocalDecls, 2, ArgCount + 1)}
  BY PathTypesAssumption
<1>3. CASE Actuals = <<>>
  BY <1>2, <1>3 DEF RootType
<1>4. CASE Actuals = SubSeq(LocalDecls, 2, ArgCount + 1)
  <2>1. \A i \in 1..ArgCount : Actuals[i] = LocalDecls[i + 1]
    <3>1. \A i \in 1 .. (ArgCount + 1) - 2 + 1 :
            SubSeq(LocalDecls, 2, ArgCount + 1)[i] = LocalDecls[2 + i - 1]
      BY <1>0, <1>1, SubSeqProperties
    <3> QED BY <3>1, <1>0, <1>4
  <2> QED BY <1>2, <2>1 DEF RootType
<1> QED BY <1>0, <1>2, <1>3, <1>4

LEMMA PathInvInit ==
  ASSUME NEW T, WellFormedTypes(T)
  PROVE  Init => PathInv(T)
  BY RootIsDeclared DEF Init, PathInv

(***************************************************************************)
(* The ordinal of a Field or Downcast element is a natural number.        *)
(***************************************************************************)
LEMMA ElemOrdinal ==
  ASSUME NEW e \in Elems, e[1] \in {"field", "downcast"}
  PROVE  e[2] \in Nat
  BY DEF Elems

(***************************************************************************)
(* A non-empty sequence that is not longer than one has length one.        *)
(***************************************************************************)
LEMMA NatOne ==
  ASSUME NEW n \in Nat, n # 0, ~(n > 1)
  PROVE  n = 1
  OBVIOUS

LEMMA LengthOne ==
  ASSUME NEW S, NEW s \in Seq(S), s # <<>>, ~(Len(s) > 1)
  PROVE  Len(s) = 1
<1>1. Len(s) \in Nat /\ Len(s) # 0
  BY EmptySeq
<1> QED BY <1>1, NatOne, Zenon

(***************************************************************************)
(* PathField of the place's type, for a field that MIR typing allows on a  *)
(* place that is not downcast, is that field's type, or unit.              *)
(***************************************************************************)
LEMMA PathFieldExact ==
  ASSUME NEW T, WellFormedTypes(T), PlainTypes(T), NEW tr, NEW i \in Nat,
         tr.variant = <<>>, tr.ty \in T,
         NEW e, e[1] = "field", e[2] = i, WellTyped(tr, e)
  PROVE  PathField(tr.ty, i) \in {Unit, FieldTypes(tr)[i + 1]}
<1>1. i < Len(FieldTypes(tr)) /\ (IsEnum(tr.ty) => tr.variant # <<>>)
  BY DEF WellTyped
<1>2. CASE tr.ty[1] = "adt" /\ tr.ty[2] \notin Unions
  <2>1. Adts[tr.ty[2]] \in Seq(Seq(T)) /\ Adts[tr.ty[2]] # <<>>
    BY <1>2 DEF WellFormedTypes, PlainTypes
  <2>2. ~(Len(Adts[tr.ty[2]]) > 1)
    BY <1>1, <1>2 DEF IsEnum
  <2>3. Len(Adts[tr.ty[2]]) = 1
    BY <2>1, <2>2, LengthOne
  <2>4. FieldTypes(tr) = Adts[tr.ty[2]][1]
    BY <1>2 DEF FieldTypes
  <2>5. Deref(tr.ty) = tr.ty
    BY <1>2 DEF Deref
  <2> QED BY <1>1, <1>2, <2>3, <2>4, <2>5 DEF PathField
<1>3. CASE tr.ty[1] = "adt" /\ tr.ty[2] \in Unions
  BY <1>3 DEF PathField, Deref
<1>4. CASE tr.ty[1] = "closure"
  <2>1. tr.ty[2] = <<>>
    BY <1>4 DEF WellFormedTypes, PlainTypes
  <2>2. Len(ClosureSubsts(tr.ty)) = 3
    BY <2>1 DEF ClosureSubsts
  <2> QED BY <1>4, <2>2 DEF PathField, Deref
<1>5. CASE tr.ty[1] = "tuple"
  <2>1. tr.ty[2] \in Seq(T) /\ FieldTypes(tr) = tr.ty[2]
    BY <1>5 DEF WellFormedTypes, PlainTypes, FieldTypes
  <2> QED BY <1>1, <1>5, <2>1 DEF PathField, Deref
<1>6. CASE tr.ty[1] \notin {"adt", "closure", "tuple"}
  <2>1. FieldTypes(tr) = <<>>
    BY <1>6 DEF FieldTypes
  <2> QED BY <1>1, <2>1
<1> QED BY <1>2, <1>3, <1>4, <1>5, <1>6

(***************************************************************************)
(* The field types MIR typing gives a place of a type in T are in T.       *)
(***************************************************************************)
LEMMA FieldTypesClosed ==
  ASSUME NEW T, WellFormedTypes(T), NEW tr, tr.ty \in T,
         tr.variant # <<>> => /\ tr.ty[1] = "adt"
                              /\ tr.variant[1] \in 0..(Len(Adts[tr.ty[2]]) - 1)
  PROVE  FieldTypes(tr) \in Seq(T)
<1>1. CASE tr.ty[1] = "adt"
  <2>1. Adts[tr.ty[2]] \in Seq(Seq(T)) /\ Adts[tr.ty[2]] # <<>>
    BY <1>1 DEF WellFormedTypes, PlainTypes
  <2>2. (IF tr.variant = <<>> THEN 1 ELSE tr.variant[1] + 1) \in 1..Len(Adts[tr.ty[2]])
    <3>1. CASE tr.variant = <<>>
      <4>1. Len(Adts[tr.ty[2]]) \in Nat /\ Len(Adts[tr.ty[2]]) # 0
        BY <2>1, EmptySeq
      <4> QED BY <3>1, <4>1
    <3>2. CASE tr.variant # <<>>
      <4>1. tr.variant[1] \in 0..(Len(Adts[tr.ty[2]]) - 1)
        BY <3>2
      <4> QED BY <3>2, <4>1, <2>1
    <3> QED BY <3>1, <3>2
  <2>5. \A j \in 1..Len(Adts[tr.ty[2]]) : Adts[tr.ty[2]][j] \in Seq(T)
    BY <2>1
  <2>3. Adts[tr.ty[2]][IF tr.variant = <<>> THEN 1 ELSE tr.variant[1] + 1] \in Seq(T)
    BY <2>2, <2>5, Zenon
  <2>4. FieldTypes(tr) = Adts[tr.ty[2]][IF tr.variant = <<>> THEN 1 ELSE tr.variant[1] + 1]
    BY <1>1 DEF FieldTypes
  <2> QED BY <2>3, <2>4
<1>2. CASE tr.ty[1] = "tuple"
  BY <1>2 DEF WellFormedTypes, PlainTypes, FieldTypes
<1>3. CASE tr.ty[1] = "closure"
  BY <1>3 DEF WellFormedTypes, PlainTypes, FieldTypes
<1>4. CASE tr.ty[1] \notin {"adt", "tuple", "closure"}
  BY <1>4 DEF FieldTypes
<1> QED BY <1>1, <1>2, <1>3, <1>4

(***************************************************************************)
(* Unit has no fields: get_path_rustc_type stays at unit along a path once *)
(* it answered unit.                                                       *)
(***************************************************************************)
LEMMA UnitAbsorbs ==
  ASSUME NEW e \in Elems
  PROVE  PathStep(Unit, e) = Unit
<1>1. Deref(Unit) = Unit
  BY DEF Deref, Unit
<1>2. ASSUME NEW i \in Nat PROVE PathField(Unit, i) = Unit
  BY <1>1 DEF PathField, Unit
<1>3. CASE e[1] = "field"
  BY <1>2, <1>3, ElemOrdinal DEF PathStep
<1>4. CASE e[1] # "field"
  BY <1>1, <1>4 DEF PathStep, Unit
<1> QED BY <1>3, <1>4

LEMMA PathInvStep ==
  ASSUME NEW T, WellFormedTypes(T), PlainTypes(T)
  PROVE  PathInv(T) /\ [Next]_vars => PathInv(T)'
<1> SUFFICES ASSUME PathInv(T), [Next]_vars PROVE PathInv(T)'
  OBVIOUS
<1>1. ASSUME NEW k \in 0..(Len(LocalDecls) - 1), ReadPlace(k) PROVE PathInv(T)'
  BY <1>1, RootIsDeclared DEF ReadPlace, PathInv
<1>2. ASSUME NEW e \in Elems, Project(e) PROVE PathInv(T)'
  <2> DEFINE t == truth.ty
  <2>1. /\ truth \in [ty : T, variant : {<<>>} \cup {<<v>> : v \in Nat}]
        /\ pathTy \in {Unit, t}
        /\ truth.variant # <<>> =>
             /\ pathTy = Unit
             /\ t[1] = "adt"
             /\ truth.variant[1] \in 0..(Len(Adts[t[2]]) - 1)
    BY DEF PathInv
  <2>2. /\ WellTyped(truth, e)
        /\ truth' = TrueStep(truth, e)
        /\ pathTy' = PathStep(pathTy, e)
    BY <1>2 DEF Project
  <2>3. e[1] \in ProjectionKinds
    <3>1. CASE e \in {<<k>> : k \in Projections \ {"field", "downcast"}}
      BY <3>1, PathTypesAssumption
    <3>2. CASE e \notin {<<k>> : k \in Projections \ {"field", "downcast"}}
      BY <3>2 DEF Elems, ProjectionKinds
    <3> QED BY <3>1, <3>2
  <2>4. pathTy = Unit => pathTy' = Unit
    BY <2>2, UnitAbsorbs
  <2>5. CASE e[1] = "deref"
    <3>1. t[1] = "ref" /\ t[2] \in T
      BY <2>1, <2>2, <2>5 DEF WellTyped, WellFormedTypes, PlainTypes
    <3>2. truth' = [ty |-> t[2], variant |-> <<>>]
      BY <2>2, <2>5 DEF TrueStep
    <3>3. pathTy = t => pathTy' = t[2]
      BY <2>2, <2>5, <3>1 DEF PathStep, Deref
    <3> QED BY <2>1, <2>4, <3>1, <3>2, <3>3 DEF PathInv
  <2>6. CASE e[1] \in {"index", "constindex"}
    <3>1. t[1] \in {"array", "slice"} /\ t[2] \in T
      BY <2>1, <2>2, <2>6 DEF WellTyped, WellFormedTypes, PlainTypes
    <3>2. truth' = [ty |-> t[2], variant |-> <<>>]
      BY <2>2, <2>6 DEF TrueStep
    <3>3. pathTy = t => pathTy' \in {Unit, t[2]}
      BY <2>2, <2>6, <3>1 DEF PathStep
    <3> QED BY <2>1, <2>4, <3>1, <3>2, <3>3 DEF PathInv
  <2>7. CASE e[1] \in {"subslice", "opaquecast", "subtype"}
    <3>1. truth' = [ty |-> t, variant |-> <<>>]
      BY <2>1, <2>2, <2>7 DEF TrueStep
    <3>2. pathTy' \in {Unit, pathTy}
      BY <2>2, <2>7 DEF PathStep
    <3> QED BY <2>1, <2>4, <3>1, <3>2 DEF PathInv
  <2>8. CASE e[1] = "downcast"
    <3>1. e[2] \in Nat
      BY <2>8, ElemOrdinal
    <3>2. IsEnum(t) /\ truth.variant = <<>> /\ e[2] < Len(Adts[t[2]])
      BY <2>2, <2>8 DEF WellTyped
    <3>3. Adts[t[2]] \in Seq(Seq(T))
      BY <2>1, <3>2 DEF IsEnum, WellFormedTypes
    <3>4. truth' = [ty |-> t, variant |-> <<e[2]>>]
      BY <2>1, <2>2, <2>8 DEF TrueStep
    <3>5. pathTy' = Unit
      BY <2>2, <2>8 DEF PathStep
    <3> QED BY <2>1, <3>1, <3>2, <3>3, <3>4, <3>5 DEF PathInv, IsEnum
  <2>9. CASE e[1] = "field"
    <3>1. e[2] \in Nat
      BY <2>9, ElemOrdinal
    <3>2. FieldTypes(truth) \in Seq(T)
      BY <2>1, FieldTypesClosed
    <3>3. e[2] < Len(FieldTypes(truth))
      BY <2>2, <2>9 DEF WellTyped
    <3>4. truth' = [ty |-> FieldTypes(truth)[e[2] + 1], variant |-> <<>>]
      BY <2>2, <2>9 DEF TrueStep
    <3>5. FieldTypes(truth)[e[2] + 1] \in T
      BY <3>1, <3>2, <3>3
    <3>6. pathTy' = PathField(pathTy, e[2])
      BY <2>2, <2>9 DEF PathStep
    <3>7. pathTy = t /\ truth.variant = <<>> =>
            PathField(t, e[2]) \in {Unit, FieldTypes(truth)[e[2] + 1]}
      BY <2>1, <2>2, <2>9, <3>1, PathFieldExact
    <3>8. pathTy' \in {Unit, FieldTypes(truth)[e[2] + 1]}
      BY <2>1, <2>4, <3>6, <3>7
    <3> QED BY <3>4, <3>5, <3>8 DEF PathInv
  <2> QED BY <2>3, <2>5, <2>6, <2>7, <2>8, <2>9 DEF ProjectionKinds
<1>3. CASE UNCHANGED vars
  BY <1>3 DEF vars, PathInv
<1> QED BY <1>1, <1>2, <1>3 DEF Next

(***************************************************************************)
(* get_path_rustc_type answers unit or the type rustc gives the place, for *)
(* every function whose locals and ADT fields contain no raw pointer and   *)
(* no closure of a generic function (type_visitor.rs 79-187), whatever    *)
(* chain of projections of any kind led to the place.                     *)
(***************************************************************************)
THEOREM PathTypeSoundHolds ==
  ASSUME NEW T, WellFormedTypes(T), PlainTypes(T)
  PROVE  Spec => []PathTypeSound
<1>1. PathInv(T) => PathTypeSound
  BY DEF PathInv, PathTypeSound
<1>2. Init => PathInv(T)
  BY PathInvInit
<1>3. PathInv(T) /\ [Next]_vars => PathInv(T)'
  BY PathInvStep
<1> QED BY <1>1, <1>2, <1>3, PTL DEF Spec

-----------------------------------------------------------------------------
(***************************************************************************)
(* Totality of the place resolver.  Along a chain without Subslice and     *)
(* without casts the place's type is rustc's (PlaceTypeExact), a type of   *)
(* T, so that each element meets the case of                               *)
(* get_type_for_projection_element that handles it, never unreachable!()   *)
(* or todo!().                                                             *)
(***************************************************************************)
TruthInv(T) ==
  /\ truth \in [ty : T, variant : {<<>>} \cup {<<v>> : v \in Nat}]
  /\ truth.variant # <<>> =>
       /\ truth.ty[1] = "adt"
       /\ truth.variant[1] \in 0..(Len(Adts[truth.ty[2]]) - 1)

TotalInv(T) == TruthInv(T) /\ PlaceTypeExact /\ ResolverTotal

LEMMA TypeIsNotPanic ==
  ASSUME NEW T, WellFormedTypes(T), NEW t \in T
  PROVE  t # Panic
  BY DEF WellFormedTypes, TypeKinds, Panic

LEMMA TotalInvInit ==
  ASSUME NEW T, WellFormedTypes(T)
  PROVE  Init => TotalInv(T)
  BY RootIsDeclared, TypeIsNotPanic
     DEF Init, TotalInv, TruthInv, PlaceTypeExact, ResolverTotal

LEMMA TotalInvStep ==
  ASSUME NEW T, WellFormedTypes(T),
         Projections \cap {"subslice", "opaquecast", "subtype"} = {}
  PROVE  TotalInv(T) /\ [Next]_vars => TotalInv(T)'
<1> SUFFICES ASSUME TotalInv(T), [Next]_vars PROVE TotalInv(T)'
  OBVIOUS
<1>1. ASSUME NEW k \in 0..(Len(LocalDecls) - 1), ReadPlace(k) PROVE TotalInv(T)'
  BY <1>1, RootIsDeclared, TypeIsNotPanic
     DEF ReadPlace, TotalInv, TruthInv, PlaceTypeExact, ResolverTotal
<1>2. ASSUME NEW e \in Elems, Project(e) PROVE TotalInv(T)'
  <2> DEFINE t == truth.ty
  <2>1. /\ truth \in [ty : T, variant : {<<>>} \cup {<<v>> : v \in Nat}]
        /\ truth.variant # <<>> =>
             /\ t[1] = "adt"
             /\ truth.variant[1] \in 0..(Len(Adts[t[2]]) - 1)
        /\ placeTy = t
    BY DEF TotalInv, TruthInv, PlaceTypeExact, ResolverTotal
  <2>2. /\ WellTyped(truth, e)
        /\ truth' = TrueStep(truth, e)
        /\ placeTy' = PlaceStep(placeTy, e, TrueStep(truth, e).ty)
    BY <1>2 DEF Project
  <2>3. e[1] \in {"deref", "field", "index", "constindex", "downcast"}
    <3>1. CASE e \in {<<k>> : k \in Projections \ {"field", "downcast"}}
      BY <3>1, PathTypesAssumption DEF ProjectionKinds
    <3>2. CASE e \notin {<<k>> : k \in Projections \ {"field", "downcast"}}
      BY <3>2 DEF Elems
    <3> QED BY <3>1, <3>2
  <2>5. CASE e[1] = "deref"
    <3>1. t[1] \in {"ref", "ptr"} /\ t[2] \in T
      BY <2>1, <2>2, <2>5 DEF WellTyped, WellFormedTypes
    <3>2. truth' = [ty |-> t[2], variant |-> <<>>] /\ placeTy' = t[2]
      BY <2>1, <2>2, <2>5, <3>1 DEF TrueStep, PlaceStep
    <3>3. t[2] # Panic
      BY <3>1, TypeIsNotPanic
    <3> QED BY <3>1, <3>2, <3>3 DEF TotalInv, TruthInv, PlaceTypeExact, ResolverTotal
  <2>6. CASE e[1] \in {"index", "constindex"}
    <3>1. t[1] \in {"array", "slice"} /\ t[2] \in T
      BY <2>1, <2>2, <2>6 DEF WellTyped, WellFormedTypes
    <3>2. truth' = [ty |-> t[2], variant |-> <<>>] /\ placeTy' = t[2]
      BY <2>1, <2>2, <2>6, <3>1 DEF TrueStep, PlaceStep
    <3>3. t[2] # Panic
      BY <3>1, TypeIsNotPanic
    <3> QED BY <3>1, <3>2, <3>3 DEF TotalInv, TruthInv, PlaceTypeExact, ResolverTotal
  <2>7. CASE e[1] = "downcast"
    <3>1. e[2] \in Nat
      BY <2>7, ElemOrdinal
    <3>2. IsEnum(t) /\ e[2] < Len(Adts[t[2]])
      BY <2>2, <2>7 DEF WellTyped
    <3>3. Adts[t[2]] \in Seq(Seq(T))
      BY <2>1, <3>2 DEF IsEnum, WellFormedTypes
    <3>4. truth' = [ty |-> t, variant |-> <<e[2]>>] /\ placeTy' = t
      BY <2>1, <2>2, <2>7 DEF TrueStep, PlaceStep
    <3>5. t # Panic
      BY <2>1, TypeIsNotPanic
    <3> QED BY <2>1, <3>1, <3>2, <3>3, <3>4, <3>5 DEF IsEnum, TotalInv, TruthInv,
                                                  PlaceTypeExact, ResolverTotal
  <2>8. CASE e[1] = "field"
    <3>1. e[2] \in Nat
      BY <2>8, ElemOrdinal
    <3>2. FieldTypes(truth) \in Seq(T)
      BY <2>1, FieldTypesClosed
    <3>3. e[2] < Len(FieldTypes(truth))
      BY <2>2, <2>8 DEF WellTyped
    <3>4. FieldTypes(truth)[e[2] + 1] \in T
      BY <3>1, <3>2, <3>3
    <3>5. /\ truth' = [ty |-> FieldTypes(truth)[e[2] + 1], variant |-> <<>>]
          /\ placeTy' = FieldTypes(truth)[e[2] + 1]
      BY <2>2, <2>8 DEF TrueStep, PlaceStep
    <3>6. FieldTypes(truth)[e[2] + 1] # Panic
      BY <3>4, TypeIsNotPanic
    <3> QED BY <3>4, <3>5, <3>6 DEF TotalInv, TruthInv, PlaceTypeExact, ResolverTotal
  <2> QED BY <2>3, <2>5, <2>6, <2>7, <2>8
<1>3. CASE UNCHANGED vars
  BY <1>3 DEF vars, TotalInv, TruthInv, PlaceTypeExact, ResolverTotal
<1> QED BY <1>1, <1>2, <1>3 DEF Next

(***************************************************************************)
(* get_rustc_place_type never reaches unreachable!() or todo!() on a       *)
(* well-typed place of a MIR body without Subslice, OpaqueCast and Subtype *)
(* projections (type_visitor.rs 306-343): the abort of the analysis that   *)
(* MCPathTypesCast shows needs one of those.                               *)
(***************************************************************************)
THEOREM ResolverTotalHolds ==
  ASSUME NEW T, WellFormedTypes(T),
         Projections \cap {"subslice", "opaquecast", "subtype"} = {}
  PROVE  Spec => []ResolverTotal
<1>1. TotalInv(T) => ResolverTotal
  BY DEF TotalInv
<1>2. Init => TotalInv(T)
  BY TotalInvInit
<1>3. TotalInv(T) /\ [Next]_vars => TotalInv(T)'
  BY TotalInvStep
<1> QED BY <1>1, <1>2, <1>3, PTL DEF Spec

=============================================================================
