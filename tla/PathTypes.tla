------------------------------ MODULE PathTypes ------------------------------
(***************************************************************************)
(* The two type resolvers of TypeVisitor (src/analysis/mir_visitor/        *)
(* type_visitor.rs), followed along one MIR place as the body visitor      *)
(* reads it.                                                               *)
(*                                                                         *)
(* A place is a local and a chain of projection elements.  The transfer    *)
(* functions ask `get_rustc_place_type` for the type of the place (a fold  *)
(* of `get_type_for_projection_element` over the chain), and, for the path *)
(* built from it, `get_path_rustc_type` (a recursion on the qualifier:     *)
(* the type of the qualifier, then one selector).  Both are compositional, *)
(* so the model extends the place one element per step and keeps the type *)
(* each resolver gives for the chain so far.  `truth` is the type rustc's  *)
(* MIR typing gives the place (PlaceTy::projection_ty): the reference.     *)
(***************************************************************************)
EXTENDS Naturals, Sequences

CONSTANTS
  Adts,        \* Adts[a]: the variants of ADT a, each the sequence of its field types
  Unions,      \* the ADTs that are unions
  LocalDecls,  \* mir.local_decls: LocalDecls[k + 1] is the type of local k
  ArgCount,    \* mir.arg_count: locals 1..ArgCount are the parameters
  Actuals,     \* actual_argument_types, as the caller supplied them
  Projections, \* the projection kinds the MIR considered contains
  MaxField,    \* fields are numbered 0..MaxField-1
  MaxVariant,  \* variants are numbered 0..MaxVariant-1
  MaxProj      \* the longest projection chain considered

(***************************************************************************)
(* Types: <<"prim", n>>, <<"fnptr">>, <<"ref", t>>, <<"ptr", t>> (raw     *)
(* pointer), <<"array", t>>, <<"slice", t>>, <<"tuple", ts>>,              *)
(* <<"adt", a>> and <<"closure", parents, upvars>>.  The unit type is the  *)
(* empty tuple.                                                            *)
(***************************************************************************)
Unit == <<"tuple", <<>>>>
I32 == <<"prim", "i32">>

\* What get_rustc_place_type yields once unreachable!() or todo!() panicked.
Panic == <<"panic">>

ProjectionKinds == {"deref", "field", "index", "constindex", "subslice",
                    "downcast", "opaquecast", "subtype"}

ASSUME PathTypesAssumption ==
  /\ Len(LocalDecls) >= 1
  /\ ArgCount \in 0..(Len(LocalDecls) - 1)
  /\ Actuals \in {<<>>, SubSeq(LocalDecls, 2, ArgCount + 1)}
  /\ Projections \subseteq ProjectionKinds
  /\ \A n \in {MaxField, MaxVariant, MaxProj} : n \in Nat \ {0}

VARIABLES
  local,    \* the local the place starts from
  proj,     \* the projection elements read so far
  truth,    \* [ty, variant]: the place's MIR type, and <<v>> when it is downcast to variant v
  placeTy,  \* get_rustc_place_type of the place, Panic once it panicked
  pathTy    \* get_path_rustc_type of the place's path

vars == <<local, proj, truth, placeTy, pathTy>>

(***************************************************************************)
(* Projection elements.  A Field element carries its ordinal; rustc also   *)
(* stores the field's type in it, which the MIR builder takes from truth.  *)
(***************************************************************************)
Elems ==
  {<<k>> : k \in Projections \ {"field", "downcast"}}
    \cup {<<"field", i>> : i \in IF "field" \in Projections
                                   THEN 0..(MaxField - 1) ELSE {}}
    \cup {<<"downcast", v>> : v \in IF "downcast" \in Projections
                                      THEN 0..(MaxVariant - 1) ELSE {}}

-----------------------------------------------------------------------------
(***************************************************************************)
(* The reference: MIR typing of a projection on a well-typed place.        *)
(***************************************************************************)
IsEnum(t) == t[1] = "adt" /\ t[2] \notin Unions /\ Len(Adts[t[2]]) > 1

FieldTypes(tr) ==
  CASE tr.ty[1] = "adt"     -> Adts[tr.ty[2]][IF tr.variant = <<>> THEN 1
                                                ELSE tr.variant[1] + 1]
    [] tr.ty[1] = "tuple"   -> tr.ty[2]
    [] tr.ty[1] = "closure" -> tr.ty[3]
    [] OTHER                -> <<>>

WellTyped(tr, e) ==
  CASE e[1] = "deref" -> tr.ty[1] \in {"ref", "ptr"}
    [] e[1] = "field" -> /\ e[2] < Len(FieldTypes(tr))
                         /\ IsEnum(tr.ty) => tr.variant # <<>>
    [] e[1] \in {"index", "constindex", "subslice"} ->
         tr.ty[1] \in {"array", "slice"}
    [] e[1] = "downcast" -> /\ IsEnum(tr.ty) /\ tr.variant = <<>>
                            /\ e[2] < Len(Adts[tr.ty[2]])
    [] OTHER -> TRUE

TrueStep(tr, e) ==
  CASE e[1] \in {"deref", "index", "constindex"} ->
         [ty |-> tr.ty[2], variant |-> <<>>]
    [] e[1] = "field"    -> [ty |-> FieldTypes(tr)[e[2] + 1], variant |-> <<>>]
    [] e[1] = "downcast" -> [tr EXCEPT !.variant = <<e[2]>>]
    [] OTHER             -> [tr EXCEPT !.variant = <<>>]

-----------------------------------------------------------------------------
(***************************************************************************)
(* get_element_type: the element of an array or slice, also behind a      *)
(* reference.                                                              *)
(***************************************************************************)
ElementType(t) ==
  CASE t[1] \in {"array", "slice"} -> t[2]
    [] t[1] = "ref" -> IF t[2][1] \in {"array", "slice"} THEN t[2][2] ELSE t[2]
    [] OTHER -> t

(***************************************************************************)
(* get_type_for_projection_element, one element of the fold.  `fty` is the *)
(* type a Field element carries.  unreachable!() and todo!() panic.        *)
(***************************************************************************)
\* Mutation: an array is indexed like an ADT, as the whole value.
PlaceStepArrayAsAdt(t, e, fty) ==
  CASE e[1] = "deref" -> CASE t[1] = "adt" -> t
                           [] t[1] \in {"ref", "ptr"} -> t[2]
                           [] OTHER -> Panic
    [] e[1] = "field" -> fty
    [] e[1] \in {"index", "constindex", "subslice"} ->
         CASE t[1] \in {"adt", "array"} -> t
           [] t[1] = "slice" -> t[2]
           [] t[1] = "ref" -> ElementType(t[2])
           [] OTHER -> Panic
    [] e[1] = "downcast" -> t
    [] OTHER -> Panic

\* Mutation: Downcast is left to todo!() like the casts.
PlaceStepNoDowncast(t, e, fty) ==
  CASE e[1] = "deref" -> CASE t[1] = "adt" -> t
                           [] t[1] \in {"ref", "ptr"} -> t[2]
                           [] OTHER -> Panic
    [] e[1] = "field" -> fty
    [] e[1] \in {"index", "constindex", "subslice"} ->
         CASE t[1] \in {"adt"} -> t
           [] t[1] \in {"array", "slice"} -> t[2]
           [] t[1] = "ref" -> ElementType(t[2])
           [] OTHER -> Panic
    [] OTHER -> Panic

PlaceStep(t, e, fty) ==
  CASE e[1] = "deref" -> CASE t[1] = "adt" -> t
                           [] t[1] \in {"ref", "ptr"} -> t[2]
                           [] OTHER -> Panic
    [] e[1] = "field" -> fty
    [] e[1] \in {"index", "constindex", "subslice"} ->
         CASE t[1] \in {"adt"} -> t
           [] t[1] \in {"array", "slice"} -> t[2]
           [] t[1] = "ref" -> ElementType(t[2])
           [] OTHER -> Panic
    [] e[1] = "downcast" -> t
    [] OTHER -> Panic

-----------------------------------------------------------------------------
(***************************************************************************)
(* get_path_rustc_type.  The path of a place has one selector per          *)
(* projection element, of the same kind, except the casts, which leave the *)
(* path as it is.                                                          *)
(***************************************************************************)
Deref(t) == IF t[1] = "ref" THEN t[2] ELSE t

\* closure args: the parent's generic arguments, then the closure kind, the
\* signature as a fn pointer and the tupled upvars.
ClosureSubsts(t) == t[2] \o <<<<"prim", "i8">>, <<"fnptr">>, <<"tuple", t[3]>>>>

PathField(t, i) ==
  LET bt == Deref(t)
  IN CASE bt[1] = "adt" /\ bt[2] \notin Unions
            /\ i < Len(Adts[bt[2]][Len(Adts[bt[2]])]) ->
              Adts[bt[2]][Len(Adts[bt[2]])][i + 1]
       [] bt[1] = "closure" /\ i + 4 < Len(ClosureSubsts(bt)) ->
              ClosureSubsts(bt)[i + 5]
       [] bt[1] = "tuple" /\ i < Len(bt[2]) -> bt[2][i + 1]
       [] OTHER -> Unit

\* Mutation: a downcast keeps the enum's type, as in the place resolver.
PathStepKeepDowncast(t, e) ==
  CASE e[1] = "field" -> PathField(t, e[2])
    [] e[1] = "deref" -> Deref(t)
    [] e[1] = "index" -> IF t[1] \in {"array", "slice"} THEN t[2] ELSE Unit
    [] e[1] \in {"opaquecast", "subtype", "downcast"} -> t
    [] OTHER -> Unit

PathStep(t, e) ==
  CASE e[1] = "field" -> PathField(t, e[2])
    [] e[1] = "deref" -> Deref(t)
    [] e[1] = "index" -> IF t[1] \in {"array", "slice"} THEN t[2] ELSE Unit
    [] e[1] \in {"opaquecast", "subtype"} -> t
    [] OTHER -> Unit

(***************************************************************************)
(* The root of a path: Result for local 0, Parameter{k} (the caller's      *)
(* actual argument type when there is one) for 1..arg_count, and           *)
(* LocalVariable{k} otherwise.                                             *)
(***************************************************************************)
RootType(k) ==
  IF k \in 1..ArgCount /\ Len(Actuals) >= k THEN Actuals[k]
  ELSE LocalDecls[k + 1]

-----------------------------------------------------------------------------
(***************************************************************************)
(* The body visitor starts reading a place rooted at local k.              *)
(***************************************************************************)
ReadPlace(k) ==
  /\ local' = k
  /\ proj' = <<>>
  /\ truth' = [ty |-> LocalDecls[k + 1], variant |-> <<>>]
  /\ placeTy' = LocalDecls[k + 1]
  /\ pathTy' = RootType(k)

Init ==
  \E k \in 0..(Len(LocalDecls) - 1) :
    /\ local = k
    /\ proj = <<>>
    /\ truth = [ty |-> LocalDecls[k + 1], variant |-> <<>>]
    /\ placeTy = LocalDecls[k + 1]
    /\ pathTy = RootType(k)

(***************************************************************************)
(* The place read is one projection element longer.  A panic in the place  *)
(* resolver aborts the analysis: nothing is read after it.                 *)
(***************************************************************************)
Project(e) ==
  /\ placeTy # Panic
  /\ Len(proj) < MaxProj
  /\ WellTyped(truth, e)
  /\ proj' = Append(proj, e)
  /\ truth' = TrueStep(truth, e)
  /\ placeTy' = PlaceStep(placeTy, e, TrueStep(truth, e).ty)
  /\ pathTy' = PathStep(pathTy, e)
  /\ UNCHANGED local

Next ==
  \/ \E e \in Elems : Project(e)
  \/ placeTy # Panic /\ \E k \in 0..(Len(LocalDecls) - 1) : ReadPlace(k)

Spec == Init /\ [][Next]_vars

-----------------------------------------------------------------------------
(***************************************************************************)
(* The types a resolver can meet: the declared types of the locals, the    *)
(* variants of the ADTs (as tuples) and unit, closed under taking the types *)
(* directly inside a type (a closure's ClosureSubsts included).  After k   *)
(* projections a type is at most k + 1 levels down, so MaxProj + 1 rounds  *)
(* of closure suffice.                                                     *)
(***************************************************************************)
InnerTypes(t) ==
  CASE t[1] \in {"ref", "ptr", "array", "slice"} -> {t[2]}
    [] t[1] = "tuple" -> {t[2][i] : i \in DOMAIN t[2]}
    [] t[1] = "closure" -> {ClosureSubsts(t)[i] : i \in DOMAIN ClosureSubsts(t)}
    [] OTHER -> {}

RootTypes ==
  {LocalDecls[k] : k \in DOMAIN LocalDecls} \cup {Unit}
    \cup UNION {{<<"tuple", Adts[a][v]>> : v \in DOMAIN Adts[a]} : a \in DOMAIN Adts}

TypeClosure[n \in Nat] ==
  IF n = 0 THEN RootTypes
  ELSE TypeClosure[n - 1] \cup UNION {InnerTypes(t) : t \in TypeClosure[n - 1]}

AllTypes == TypeClosure[MaxProj + 1]

(***************************************************************************)
(* Every variable has its type.                                            *)
(***************************************************************************)
TypeOK ==
  /\ local \in 0..(Len(LocalDecls) - 1)
  /\ proj \in Seq(Elems) /\ Len(proj) <= MaxProj
  /\ truth.ty \in AllTypes
  /\ truth.variant \in {<<>>} \cup {<<v>> : v \in 0..(MaxVariant - 1)}
  /\ placeTy \in AllTypes \cup {Panic}
  /\ pathTy \in AllTypes

(***************************************************************************)
(* get_rustc_place_type gives every place the type MIR typing gives it,   *)
(* whatever chain of derefs, fields, indexing and downcasts led there.    *)
(***************************************************************************)
PlaceTypeExact == placeTy # Panic => placeTy = truth.ty

(***************************************************************************)
(* get_path_rustc_type answers unit when it does not know (spec 4.6), and *)
(* otherwise the type of the place the path stands for: derefs through    *)
(* references and raw pointers to the pointee, fields by the variant the  *)
(* place was downcast to, closure fields to the captured upvar.           *)
(***************************************************************************)
PathTypeSound == pathTy # Unit => pathTy = truth.ty

(***************************************************************************)
(* Resolving the type of a well-typed place never aborts the analysis     *)
(* (spec open question 2: OpaqueCast and Subtype are the identity).       *)
(***************************************************************************)
ResolverTotal == placeTy # Panic

=============================================================================
