------------------------- MODULE TypeVisitorProofs -------------------------
(***************************************************************************)
(* Proofs about the specialisation of generic arguments in TypeVisitor,   *)
(* for every set of functions, parameter names, primitives and wrappers   *)
(* that satisfies TypeVisitorAssumption.                                   *)
(*                                                                         *)
(* Specialize and Subst are recursive functions over GenericTypes.  TLAPS  *)
(* sees such a definition as a CHOOSE of a function equal to its body; to  *)
(* unfold it, a witness written without recursion is shown to satisfy the  *)
(* same equation, so that the chosen function satisfies it too, and the    *)
(* equation is then read at a base type and at a wrapper around one.       *)
(***************************************************************************)
EXTENDS TypeVisitor, NaturalsInduction, TLAPS

Bases == BaseTypes(ParamNames)

LEMMA BaseShape ==
  ASSUME NEW u \in Bases
  PROVE  /\ u[1] \in {"prim", "param"}
         /\ u[1] = "param" => u[2] \in ParamNames
BY DEF Bases, BaseTypes

LEMMA WrappedShape ==
  ASSUME NEW u \in GenericTypes, u \notin Bases
  PROVE  /\ u[1] \in Wrappers
         /\ u[1] \in {"ref", "ptr", "slice", "array", "adt"}
         /\ u[2] \in Bases
         /\ u = <<u[1], u[2]>>
BY TypeVisitorAssumption DEF GenericTypes, TypesOver, Bases

(***************************************************************************)
(* A generic argument written in some of the parameters is a generic type. *)
(***************************************************************************)
LEMMA TypesOverMono ==
  ASSUME NEW ps, NEW qs, ps \subseteq qs
  PROVE  TypesOver(ps) \subseteq TypesOver(qs)
BY DEF TypesOver, BaseTypes

-----------------------------------------------------------------------------
(***************************************************************************)
(* specialize_generic_argument_type, unfolded.                             *)
(***************************************************************************)
SpBody(map, f, u) ==
  IF ~map.some \/ u[1] = "adt" THEN u
  ELSE IF u[1] \in {"ref", "ptr", "slice", "array"} THEN <<u[1], f[u[2]]>>
  ELSE IF u[1] = "param" /\ u[2] \in DOMAIN map.val THEN map.val[u[2]]
  ELSE u

SpFix(map) == CHOOSE f : f = [u \in GenericTypes |-> SpBody(map, f, u)]

\* What Specialize does to a base type: look a parameter up in the map.
SpLook(map, u) ==
  IF map.some /\ u[1] = "param" /\ u[2] \in DOMAIN map.val
    THEN map.val[u[2]] ELSE u

SpWit(map) ==
  [u \in GenericTypes |->
     IF u \in Bases THEN SpLook(map, u)
     ELSE IF ~map.some \/ u[1] = "adt" THEN u
     ELSE <<u[1], SpLook(map, u[2])>>]

LEMMA SpBodyBase ==
  ASSUME NEW map, NEW f, NEW u \in Bases
  PROVE  SpBody(map, f, u) = SpLook(map, u)
BY BaseShape DEF SpBody, SpLook

LEMMA SpBodyWrapped ==
  ASSUME NEW map, NEW f, NEW u \in GenericTypes, u \notin Bases
  PROVE  SpBody(map, f, u) =
           IF ~map.some \/ u[1] = "adt" THEN u ELSE <<u[1], f[u[2]]>>
BY WrappedShape DEF SpBody

LEMMA SpWitFix ==
  ASSUME NEW map
  PROVE  SpWit(map) = [u \in GenericTypes |-> SpBody(map, SpWit(map), u)]
<1>1. ASSUME NEW u \in GenericTypes
      PROVE  SpWit(map)[u] = SpBody(map, SpWit(map), u)
  <2>1. CASE u \in Bases
    BY <2>1, SpBodyBase DEF SpWit
  <2>2. CASE u \notin Bases
    <3>1. u[2] \in Bases /\ u[2] \in GenericTypes
      BY <2>2, WrappedShape DEF Bases, GenericTypes, TypesOver
    <3>2. SpWit(map)[u[2]] = SpLook(map, u[2])
      BY <3>1 DEF SpWit
    <3>. QED
      BY <2>2, <3>2, SpBodyWrapped DEF SpWit
  <2>. QED
    BY <2>1, <2>2
<1>. QED
  BY <1>1 DEF SpWit

LEMMA SpecializeIsFix ==
  ASSUME NEW map, NEW t
  PROVE  Specialize(t, map) = SpFix(map)[t]
BY DEF Specialize, SpFix, SpBody

LEMMA SpecializeBase ==
  ASSUME NEW map, NEW u \in Bases
  PROVE  Specialize(u, map) = SpLook(map, u)
<1>1. SpFix(map) = [v \in GenericTypes |-> SpBody(map, SpFix(map), v)]
  BY SpWitFix DEF SpFix
<1>2. u \in GenericTypes
  BY DEF Bases, GenericTypes, TypesOver
<1>. QED
  BY <1>1, <1>2, SpecializeIsFix, SpBodyBase

LEMMA SpecializeWrapped ==
  ASSUME NEW map, NEW u \in GenericTypes, u \notin Bases
  PROVE  Specialize(u, map) =
           IF ~map.some \/ u[1] = "adt" THEN u ELSE <<u[1], SpLook(map, u[2])>>
<1>1. SpFix(map) = [v \in GenericTypes |-> SpBody(map, SpFix(map), v)]
  BY SpWitFix DEF SpFix
<1>2. u[2] \in Bases /\ u[2] \in GenericTypes
  BY WrappedShape DEF Bases, GenericTypes, TypesOver
<1>3. SpFix(map)[u[2]] = SpLook(map, u[2])
  BY <1>1, <1>2, SpBodyBase
<1>. QED
  BY <1>1, <1>3, SpecializeIsFix, SpBodyWrapped

-----------------------------------------------------------------------------
(***************************************************************************)
(* The reference substitution, unfolded.                                   *)
(***************************************************************************)
SbBody(m, f, u) ==
  IF u[1] = "param" THEN (IF u[2] \in DOMAIN m THEN m[u[2]] ELSE u)
  ELSE IF u[1] = "prim" THEN u
  ELSE <<u[1], f[u[2]]>>

SbFix(m) == CHOOSE f : f = [u \in GenericTypes |-> SbBody(m, f, u)]

\* What Subst does to a base type.
SbLook(m, u) == IF u[1] = "param" /\ u[2] \in DOMAIN m THEN m[u[2]] ELSE u

SbWit(m) ==
  [u \in GenericTypes |->
     IF u \in Bases THEN SbLook(m, u) ELSE <<u[1], SbLook(m, u[2])>>]

LEMMA SbBodyBase ==
  ASSUME NEW m, NEW f, NEW u \in Bases
  PROVE  SbBody(m, f, u) = SbLook(m, u)
BY BaseShape DEF SbBody, SbLook

LEMMA SbBodyWrapped ==
  ASSUME NEW m, NEW f, NEW u \in GenericTypes, u \notin Bases
  PROVE  SbBody(m, f, u) = <<u[1], f[u[2]]>>
BY WrappedShape DEF SbBody

LEMMA SbWitFix ==
  ASSUME NEW m
  PROVE  SbWit(m) = [u \in GenericTypes |-> SbBody(m, SbWit(m), u)]
<1>1. ASSUME NEW u \in GenericTypes
      PROVE  SbWit(m)[u] = SbBody(m, SbWit(m), u)
  <2>1. CASE u \in Bases
    BY <2>1, SbBodyBase DEF SbWit
  <2>2. CASE u \notin Bases
    <3>1. u[2] \in Bases /\ u[2] \in GenericTypes
      BY <2>2, WrappedShape DEF Bases, GenericTypes, TypesOver
    <3>2. SbWit(m)[u[2]] = SbLook(m, u[2])
      BY <3>1 DEF SbWit
    <3>. QED
      BY <2>2, <3>2, SbBodyWrapped DEF SbWit
  <2>. QED
    BY <2>1, <2>2
<1>. QED
  BY <1>1 DEF SbWit

LEMMA SubstIsFix ==
  ASSUME NEW m, NEW t
  PROVE  Subst(t, m) = SbFix(m)[t]
BY DEF Subst, SbFix, SbBody

LEMMA SubstBase ==
  ASSUME NEW m, NEW u \in Bases
  PROVE  Subst(u, m) = SbLook(m, u)
<1>1. SbFix(m) = [v \in GenericTypes |-> SbBody(m, SbFix(m), v)]
  BY SbWitFix DEF SbFix
<1>2. u \in GenericTypes
  BY DEF Bases, GenericTypes, TypesOver
<1>. QED
  BY <1>1, <1>2, SubstIsFix, SbBodyBase

LEMMA SubstWrapped ==
  ASSUME NEW m, NEW u \in GenericTypes, u \notin Bases
  PROVE  Subst(u, m) = <<u[1], SbLook(m, u[2])>>
<1>1. SbFix(m) = [v \in GenericTypes |-> SbBody(m, SbFix(m), v)]
  BY SbWitFix DEF SbFix
<1>2. u[2] \in Bases /\ u[2] \in GenericTypes
  BY WrappedShape DEF Bases, GenericTypes, TypesOver
<1>3. SbFix(m)[u[2]] = SbLook(m, u[2])
  BY <1>1, <1>2, SbBodyBase
<1>. QED
  BY <1>1, <1>3, SubstIsFix, SbBodyWrapped

-----------------------------------------------------------------------------
(***************************************************************************)
(* One frame as FaithfulGenericMap requires it: its map binds each of the  *)
(* function's parameters to what the parameter denotes.                    *)
(***************************************************************************)
FaithfulFrame(fr) ==
  \A p \in DOMAIN fr.truth :
    /\ fr.map.some
    /\ p \in DOMAIN fr.map.val
    /\ fr.map.val[p] = fr.truth[p]

\* A base type over the caller's parameters is looked up alike by both.
LEMMA LookAgree ==
  ASSUME NEW fr, DOMAIN fr.truth \subseteq ParamNames, FaithfulFrame(fr),
         NEW b \in BaseTypes(DOMAIN fr.truth)
  PROVE  /\ b \in Bases
         /\ SpLook(fr.map, b) = SbLook(fr.truth, b)
<1>1. b \in Bases
  BY DEF BaseTypes, Bases
<1>2. CASE b[1] = "param"
  <2>1. PICK q \in DOMAIN fr.truth : b = <<"param", q>>
    BY <1>2 DEF BaseTypes
  <2>2. fr.map.some /\ q \in DOMAIN fr.map.val /\ fr.map.val[q] = fr.truth[q]
    BY DEF FaithfulFrame
  <2>. QED
    BY <1>1, <2>1, <2>2 DEF SpLook, SbLook
<1>3. CASE b[1] # "param"
  BY <1>1, <1>3 DEF SpLook, SbLook
<1>. QED
  BY <1>1, <1>2, <1>3

(***************************************************************************)
(* get_generic_arguments_map specialises every generic argument of a call  *)
(* through the caller's map.  For every set of parameter names, primitives *)
(* and wrappers without ADTs: when the caller's map is faithful, an        *)
(* argument written in the caller's parameters specialises to exactly what *)
(* it denotes, the caller's parameters substituted at every depth.  This  *)
(* is the step by which FaithfulGenericMap passes from a caller to its     *)
(* callee when parameter names do not clash.                               *)
(***************************************************************************)
THEOREM SpecializeFaithful ==
  ASSUME "adt" \notin Wrappers,
         NEW fr, DOMAIN fr.truth \subseteq ParamNames, FaithfulFrame(fr),
         NEW t \in TypesOver(DOMAIN fr.truth)
  PROVE  Specialize(t, fr.map) = Subst(t, fr.truth)
<1>1. t \in GenericTypes
  BY TypesOverMono DEF GenericTypes
<1>2. CASE t \in BaseTypes(DOMAIN fr.truth)
  <2>1. t \in Bases /\ SpLook(fr.map, t) = SbLook(fr.truth, t)
    BY <1>2, LookAgree
  <2>. QED
    BY <2>1, SpecializeBase, SubstBase
<1>3. CASE t \notin BaseTypes(DOMAIN fr.truth)
  <2>1. PICK w \in Wrappers, b \in BaseTypes(DOMAIN fr.truth) : t = <<w, b>>
    BY <1>3 DEF TypesOver
  <2>2. t \notin Bases /\ w # "adt"
    BY <2>1, TypeVisitorAssumption DEF Bases, BaseTypes
  <2>3. b \in Bases /\ SpLook(fr.map, b) = SbLook(fr.truth, b)
    BY LookAgree
  <2>4. Subst(t, fr.truth) = <<w, SbLook(fr.truth, b)>>
    BY <1>1, <2>1, <2>2, SubstWrapped
  <2>5. CASE fr.map.some
    BY <1>1, <2>1, <2>2, <2>3, <2>4, <2>5, SpecializeWrapped
  <2>6. CASE ~fr.map.some
    <3>1. DOMAIN fr.truth = {}
      BY <2>6 DEF FaithfulFrame
    <3>2. SbLook(fr.truth, b) = b
      BY <3>1 DEF SbLook
    <3>. QED
      BY <1>1, <2>1, <2>2, <2>4, <2>6, <3>2, SpecializeWrapped
  <2>. QED
    BY <2>5, <2>6
<1>. QED
  BY <1>2, <1>3

(***************************************************************************)
(* specialize_generic_argument_type returns an ADT as it is (type_visitor  *)
(* .rs:380): for every instance with ADTs, a call that passes ADT<P> where *)
(* the faithful caller binds P to anything but P itself gives the callee   *)
(* ADT<P>, a type over the caller's parameter, in place of the ADT of what  *)
(* P denotes.                                                              *)
(***************************************************************************)
THEOREM AdtArgumentNotSpecialised ==
  ASSUME "adt" \in Wrappers,
         NEW fr, DOMAIN fr.truth \subseteq ParamNames, FaithfulFrame(fr),
         NEW p \in DOMAIN fr.truth, fr.truth[p] # <<"param", p>>
  PROVE  LET t == <<"adt", <<"param", p>>>>
         IN  /\ Specialize(t, fr.map) = t
             /\ Subst(t, fr.truth) = <<"adt", fr.truth[p]>>
             /\ Specialize(t, fr.map) # Subst(t, fr.truth)
<1> DEFINE t == <<"adt", <<"param", p>>>>
<1>1. <<"param", p>> \in Bases
  BY DEF Bases, BaseTypes
<1>2. t \in GenericTypes /\ t \notin Bases
  <2>1. t \in GenericTypes
    BY <1>1 DEF t, Bases, GenericTypes, TypesOver
  <2>2. t \notin Bases
    BY DEF t, Bases, BaseTypes
  <2>. QED
    BY <2>1, <2>2
<1>3. Specialize(t, fr.map) = t
  BY <1>2, SpecializeWrapped
<1>4. Subst(t, fr.truth) = <<"adt", fr.truth[p]>>
  BY <1>2, SubstWrapped DEF SbLook
<1>. QED
  BY <1>3, <1>4

-----------------------------------------------------------------------------
(***************************************************************************)
(* What FaithfulGenericMap rests on.  A function's type parameters have    *)
(* distinct names (rustc rejects a duplicate); the functions on a chain    *)
(* declare parameters of different names (the run type_visitor_capture    *)
(* shows the map going wrong when a callee reuses a name of its caller);   *)
(* no argument wraps a parameter in an ADT (AdtArgumentNotSpecialised).    *)
(***************************************************************************)
ParamsWellFormed ==
  \A g \in Fns :
    /\ FnParams[g] \in Seq(ParamNames)
    /\ \A i, j \in DOMAIN FnParams[g] : FnParams[g][i] = FnParams[g][j] => i = j

ParamsDisjoint ==
  \A g, h \in Fns : g # h => Range(FnParams[g]) \cap Range(FnParams[h]) = {}

(***************************************************************************)
(* The inductive invariant: the stack is a non-empty sequence of frames,   *)
(* each frame's ghost truth is over its function's parameters, and every   *)
(* frame is faithful.                                                      *)
(***************************************************************************)
FrameShape(fr) ==
  /\ fr.fn \in Fns
  /\ DOMAIN fr.truth = Range(FnParams[fr.fn])

GInv ==
  /\ stack \in Seq(Range(stack))
  /\ Len(stack) >= 1
  /\ \A k \in DOMAIN stack : FrameShape(stack[k]) /\ FaithfulFrame(stack[k])

-----------------------------------------------------------------------------
(***************************************************************************)
(* The loop of get_generic_arguments_map, unfolded: GSteps(...)[i] is the  *)
(* pair of maps after the first i parameters.                              *)
(***************************************************************************)
GDef(params, args, prev, i) ==
  LET ty == Specialize(args[i], prev.sm)
  IN  [sm |-> IF prev.sm.some THEN Some(Put(prev.sm.val, params[i], ty))
              ELSE prev.sm,
       map |-> Put(prev.map, params[i], ty)]

GSteps(params, args, callerMap) ==
  CHOOSE f : f = [i \in 0..Len(params) |->
                    IF i = 0 THEN [sm |-> callerMap, map |-> <<>>]
                    ELSE GDef(params, args, f[i - 1], i)]

\* The end of get_generic_arguments_map, from the map the loop built.
GAMOf(m, actuals) ==
  LET withSelf ==
        IF actuals # <<>> /\ "Self" \notin DOMAIN m
          THEN Put(m, "Self", Deref(actuals[1])) ELSE m
  IN  IF DOMAIN withSelf = {} THEN None ELSE Some(withSelf)

LEMMA GAMUnfold ==
  ASSUME NEW params, NEW args, NEW callerMap, NEW actuals
  PROVE  GenericArgumentsMap(params, args, callerMap, actuals) =
           GAMOf(GSteps(params, args, callerMap)[Len(params)].map, actuals)
<1>1. GenericArgumentsMap(params, args, callerMap, actuals) =
        LET n == Len(params)
            step == GSteps(params, args, callerMap)
            withSelf ==
              IF actuals # <<>> /\ "Self" \notin DOMAIN step[n].map
                THEN Put(step[n].map, "Self", Deref(actuals[1]))
                ELSE step[n].map
        IN IF DOMAIN withSelf = {} THEN None ELSE Some(withSelf)
  BY DEF GenericArgumentsMap, GSteps, GDef
<1>. QED
  BY <1>1 DEF GAMOf

LEMMA GStepsDef ==
  ASSUME NEW params \in Seq(ParamNames), NEW args, NEW callerMap
  PROVE  /\ GSteps(params, args, callerMap)[0] = [sm |-> callerMap, map |-> <<>>]
         /\ \A i \in 1..Len(params) :
              GSteps(params, args, callerMap)[i] =
                GDef(params, args, GSteps(params, args, callerMap)[i - 1], i)
<1> DEFINE f == GSteps(params, args, callerMap)
<1>1. FiniteNatInductiveDefHypothesis(f, [sm |-> callerMap, map |-> <<>>],
        LAMBDA v, i : GDef(params, args, v, i), 0, Len(params))
  BY DEF FiniteNatInductiveDefHypothesis, GSteps
<1>2. Len(params) \in Nat
  OBVIOUS
<1>3. FiniteNatInductiveDefConclusion(f, [sm |-> callerMap, map |-> <<>>],
        LAMBDA v, i : GDef(params, args, v, i), 0, Len(params))
  BY <1>1, <1>2, FiniteNatInductiveDef
<1>. QED
  BY <1>3 DEF FiniteNatInductiveDefConclusion

LEMMA GStepsAt ==
  ASSUME NEW params \in Seq(ParamNames), NEW args, NEW callerMap,
         NEW i \in 1..Len(params)
  PROVE  GSteps(params, args, callerMap)[i] =
           GDef(params, args, GSteps(params, args, callerMap)[i - 1], i)
BY GStepsDef

(***************************************************************************)
(* What a call of get_generic_arguments_map may assume: the callee's       *)
(* parameter names are distinct and none is a parameter of the caller,     *)
(* the caller's frame is faithful, and every argument is written in the    *)
(* caller's parameters.                                                    *)
(***************************************************************************)
GCtx(params, args, fr) ==
  /\ params \in Seq(ParamNames)
  /\ \A i, j \in DOMAIN params : params[i] = params[j] => i = j
  /\ DOMAIN fr.truth \subseteq ParamNames
  /\ FaithfulFrame(fr)
  /\ Range(params) \cap DOMAIN fr.truth = {}
  /\ args \in [DOMAIN params -> TypesOver(DOMAIN fr.truth)]

(***************************************************************************)
(* The loop invariant after the first i parameters: substitution_map is    *)
(* still faithful to the caller, and `map` binds exactly those parameters, *)
(* each to what its argument denotes.                                      *)
(***************************************************************************)
GJ(params, args, fr, i) ==
  LET v == GSteps(params, args, fr.map)[i]
  IN  /\ FaithfulFrame([map |-> v.sm, truth |-> fr.truth])
      /\ DOMAIN v.map = {params[j] : j \in 1..i}
      /\ \A j \in 1..i : v.map[params[j]] = Subst(args[j], fr.truth)

LEMMA GJBase ==
  ASSUME NEW params, NEW args, NEW fr, GCtx(params, args, fr)
  PROVE  GJ(params, args, fr, 0)
<1>1. GSteps(params, args, fr.map)[0] = [sm |-> fr.map, map |-> <<>>]
  BY GStepsDef DEF GCtx
<1>2. FaithfulFrame([map |-> fr.map, truth |-> fr.truth])
  BY DEF GCtx, FaithfulFrame
<1>. QED
  BY <1>1, <1>2 DEF GJ

LEMMA GJStep ==
  ASSUME "adt" \notin Wrappers,
         NEW params, NEW args, NEW fr, GCtx(params, args, fr),
         NEW i \in 1..Len(params), GJ(params, args, fr, i - 1)
  PROVE  GJ(params, args, fr, i)
<1>0. GSteps(params, args, fr.map)[i] =
        GDef(params, args, GSteps(params, args, fr.map)[i - 1], i)
  <2>1. params \in Seq(ParamNames)
    BY DEF GCtx
  <2>. QED
    BY <2>1, GStepsAt
<1> DEFINE v  == GSteps(params, args, fr.map)[i - 1]
           v2 == GSteps(params, args, fr.map)[i]
           ty == Specialize(args[i], v.sm)
<1>1. /\ params \in Seq(ParamNames)
      /\ i \in DOMAIN params
      /\ DOMAIN fr.truth \subseteq ParamNames
      /\ args[i] \in TypesOver(DOMAIN fr.truth)
      /\ params[i] \notin DOMAIN fr.truth
  BY DEF GCtx, Range
<1>2. v2 = GDef(params, args, v, i)
  BY <1>0
<1>3. /\ FaithfulFrame([map |-> v.sm, truth |-> fr.truth])
      /\ DOMAIN v.map = {params[j] : j \in 1..i - 1}
      /\ \A j \in 1..i - 1 : v.map[params[j]] = Subst(args[j], fr.truth)
  BY DEF GJ
<1>4. ty = Subst(args[i], fr.truth)
  <2> DEFINE cf == [map |-> v.sm, truth |-> fr.truth]
  <2>1. /\ DOMAIN cf.truth \subseteq ParamNames
        /\ FaithfulFrame(cf)
        /\ args[i] \in TypesOver(DOMAIN cf.truth)
    BY <1>1, <1>3
  <2>2. Specialize(args[i], cf.map) = Subst(args[i], cf.truth)
    BY <2>1, SpecializeFaithful
  <2>. QED
    BY <2>2
<1>5. v2.sm = IF v.sm.some THEN Some(Put(v.sm.val, params[i], ty)) ELSE v.sm
  BY <1>2 DEF GDef
<1>6. v2.map = Put(v.map, params[i], ty)
  BY <1>2 DEF GDef
<1>7. FaithfulFrame([map |-> v2.sm, truth |-> fr.truth])
  <2>1. CASE v.sm.some
    <3>1. v2.sm = Some(Put(v.sm.val, params[i], ty))
      BY <1>5, <2>1
    <3>2. ASSUME NEW p \in DOMAIN fr.truth
          PROVE  /\ p # params[i]
                 /\ p \in DOMAIN v.sm.val
                 /\ v.sm.val[p] = fr.truth[p]
      BY <1>1, <1>3 DEF FaithfulFrame
    <3>3. ASSUME NEW p \in DOMAIN fr.truth
          PROVE  /\ p \in DOMAIN Put(v.sm.val, params[i], ty)
                 /\ Put(v.sm.val, params[i], ty)[p] = fr.truth[p]
      BY <3>2 DEF Put
    <3>. QED
      BY <3>1, <3>3 DEF FaithfulFrame, Some
  <2>2. CASE ~v.sm.some
    BY <1>3, <1>5, <2>2 DEF FaithfulFrame
  <2>. QED
    BY <2>1, <2>2
<1>8. DOMAIN v2.map = {params[j] : j \in 1..i}
  BY <1>1, <1>3, <1>6 DEF Put
<1>9. ASSUME NEW j \in 1..i PROVE v2.map[params[j]] = Subst(args[j], fr.truth)
  <2>1. CASE j = i
    BY <1>4, <1>6, <2>1 DEF Put
  <2>2. CASE j # i
    <3>1. j \in DOMAIN params /\ params[j] # params[i]
      BY <1>1, <2>2 DEF GCtx
    <3>2. params[j] \in DOMAIN v.map
      BY <1>3, <2>2
    <3>. QED
      BY <1>3, <1>6, <2>2, <3>1, <3>2 DEF Put
  <2>. QED
    BY <2>1, <2>2
<1>. QED
  BY <1>7, <1>8, <1>9 DEF GJ


(***************************************************************************)
(* The induction over the loop of get_generic_arguments_map.  GUpTo(i)     *)
(* says that the loop invariant held after each of the first i            *)
(* parameters; GMark records it as 1 or 0 for every i, and is shown equal  *)
(* to the constant 1 because both satisfy the same finite recursive        *)
(* definition.                                                             *)
(***************************************************************************)
GUpTo(params, args, fr, i) == \A j \in 0..i : GJ(params, args, fr, j)

GMark(params, args, fr) ==
  [i \in 0..Len(params) |-> IF GUpTo(params, args, fr, i) THEN 1 ELSE 0]

GOnes(params) == [i \in 0..Len(params) |-> 1]

LEMMA GLoop ==
  ASSUME "adt" \notin Wrappers,
         NEW params, NEW args, NEW fr, GCtx(params, args, fr)
  PROVE  \A i \in 0..Len(params) : GJ(params, args, fr, i)
<1>0. Len(params) \in Nat
  BY DEF GCtx
<1>1. FiniteNatInductiveDefConclusion(GMark(params, args, fr), 1,
        LAMBDA v, i : IF v = 1 /\ (GJ(params, args, fr, i - 1) =>
                                   GJ(params, args, fr, i))
                      THEN 1 ELSE 0, 0, Len(params))
  <2>1. GMark(params, args, fr)[0] = 1
    BY GJBase DEF GMark, GUpTo
  <2>2. ASSUME NEW i \in 1..Len(params)
        PROVE  GMark(params, args, fr)[i] =
                 IF GMark(params, args, fr)[i - 1] = 1 /\
                    (GJ(params, args, fr, i - 1) => GJ(params, args, fr, i))
                 THEN 1 ELSE 0
    <3>1. GUpTo(params, args, fr, i) <=>
            GUpTo(params, args, fr, i - 1) /\ GJ(params, args, fr, i)
      BY <1>0 DEF GUpTo
    <3>2. GUpTo(params, args, fr, i - 1) => GJ(params, args, fr, i - 1)
      BY <1>0 DEF GUpTo
    <3>3. /\ GMark(params, args, fr)[i] =
               IF GUpTo(params, args, fr, i) THEN 1 ELSE 0
          /\ GMark(params, args, fr)[i - 1] =
               IF GUpTo(params, args, fr, i - 1) THEN 1 ELSE 0
      BY <1>0 DEF GMark
    <3>. QED
      BY <3>1, <3>2, <3>3
  <2>. QED
    BY <2>1, <2>2 DEF FiniteNatInductiveDefConclusion, GMark
<1>2. FiniteNatInductiveDefConclusion(GOnes(params), 1,
        LAMBDA v, i : IF v = 1 /\ (GJ(params, args, fr, i - 1) =>
                                   GJ(params, args, fr, i))
                      THEN 1 ELSE 0, 0, Len(params))
  <2>1. ASSUME NEW i \in 1..Len(params)
        PROVE  GJ(params, args, fr, i - 1) => GJ(params, args, fr, i)
    BY <2>1, GJStep
  <2>. QED
    BY <1>0, <2>1 DEF FiniteNatInductiveDefConclusion, GOnes
<1>3. GMark(params, args, fr) = GOnes(params)
  BY <1>0, <1>1, <1>2, FiniteNatInductiveUnique
<1>. QED
  BY <1>0, <1>3 DEF GMark, GOnes, GUpTo


(***************************************************************************)
(* get_generic_arguments_map is right for every callee: when the callee's  *)
(* parameter names are distinct and none of the caller's, the caller's     *)
(* map is faithful and no argument is an ADT, the map it returns is Some   *)
(* and binds every parameter of the callee to the substitution of its      *)
(* argument through what the caller's parameters denote; binding "Self"    *)
(* afterwards never overwrites a parameter.                                *)
(***************************************************************************)
THEOREM GenericArgumentsMapFaithful ==
  ASSUME "adt" \notin Wrappers,
         NEW params, NEW args, NEW fr, GCtx(params, args, fr), NEW actuals,
         NEW i \in DOMAIN params
  PROVE  LET G == GenericArgumentsMap(params, args, fr.map, actuals)
         IN  /\ G.some
             /\ params[i] \in DOMAIN G.val
             /\ G.val[params[i]] = Subst(args[i], fr.truth)
<1> DEFINE n == Len(params)
           m == GSteps(params, args, fr.map)[n].map
<1>1. n \in Nat /\ DOMAIN params = 1..n
  BY DEF GCtx
<1>2. /\ DOMAIN m = {params[j] : j \in 1..n}
      /\ \A j \in 1..n : m[params[j]] = Subst(args[j], fr.truth)
  <2>1. GJ(params, args, fr, n)
    BY <1>1, GLoop
  <2>. QED
    BY <2>1 DEF GJ
<1>3. params[i] \in DOMAIN m /\ m[params[i]] = Subst(args[i], fr.truth)
  BY <1>1, <1>2
<1>4. LET w == IF actuals # <<>> /\ "Self" \notin DOMAIN m
                 THEN Put(m, "Self", Deref(actuals[1])) ELSE m
      IN  /\ DOMAIN m \subseteq DOMAIN w
          /\ \A x \in DOMAIN m : w[x] = m[x]
  BY DEF Put
<1>5. GenericArgumentsMap(params, args, fr.map, actuals) = GAMOf(m, actuals)
  BY GAMUnfold
<1>. QED
  BY <1>3, <1>4, <1>5 DEF GAMOf, Some


-----------------------------------------------------------------------------
(***************************************************************************)
(* The invariant GInv holds initially: the entry function has no type      *)
(* parameters, so its frame's truth is empty.                              *)
(***************************************************************************)
LEMMA GInvInit == Init => GInv
<1> SUFFICES ASSUME Init PROVE GInv
  OBVIOUS
<1>1. FnParams[Entry] = <<>> /\ Entry \in Fns
  BY TypeVisitorAssumption
<1>. QED
  BY <1>1 DEF Init, GInv, FrameShape, FaithfulFrame, Range

(***************************************************************************)
(* Dropping the last visitor keeps GInv: the frames left are unchanged.    *)
(***************************************************************************)
LEMMA GInvReturn == GInv /\ Return => GInv'
<1> SUFFICES ASSUME GInv, Return PROVE GInv'
  OBVIOUS
<1>1. /\ stack' \in Seq(Range(stack))
      /\ Len(stack') = Len(stack) - 1
      /\ \A k \in 1..Len(stack') : stack'[k] = stack[k]
  BY DEF GInv, Return
<1>2. stack' \in Seq(Range(stack'))
  BY <1>1 DEF Range
<1>. QED
  BY <1>1, <1>2 DEF GInv, Return


(***************************************************************************)
(* Appending to a sequence of its own elements gives a sequence over them  *)
(* and the new one.                                                        *)
(***************************************************************************)
LEMMA AppendInRange ==
  ASSUME NEW s, s \in Seq(Range(s)), NEW e
  PROVE  Append(s, e) \in Seq(Range(s) \cup {e})
<1>1. s \in Seq(Range(s) \cup {e})
  OBVIOUS
<1>. QED
  BY <1>1

(***************************************************************************)
(* Inlining a call keeps GInv: the caller's frame gives the context        *)
(* GenericArgumentsMapFaithful needs (the guard keeps the callee off the   *)
(* chain, so its parameters are not the caller's), and the new frame's     *)
(* truth at a parameter is what its argument denotes, which is what the    *)
(* new map binds it to.                                                    *)
(***************************************************************************)
LEMMA GInvCall ==
  ASSUME ParamsWellFormed, ParamsDisjoint, "adt" \notin Wrappers, GInv,
         NEW g \in Fns \ {Entry},
         NEW args \in [DOMAIN FnParams[g] ->
                         TypesOver(Range(FnParams[stack[Len(stack)].fn]))],
         NEW actuals, Call(g, args, actuals)
  PROVE  GInv'
<1> DEFINE caller == stack[Len(stack)]
           F == FnParams[g]
           nf == [fn |-> g,
                  map |-> GenericArgumentsMap(F, args, caller.map, actuals),
                  truth |-> [p \in Range(F) |->
                               Subst(args[CHOOSE i \in DOMAIN F : F[i] = p],
                                     caller.truth)]]
<1>1. stack' = Append(stack, nf)
  BY DEF Call
<1>2. Len(stack) \in DOMAIN stack /\ Len(stack) \in Nat
  BY DEF GInv
<1>3. /\ FrameShape(caller) /\ FaithfulFrame(caller)
      /\ g # caller.fn
  BY <1>2 DEF GInv, Call
<1>4. /\ F \in Seq(ParamNames)
      /\ \A i, j \in DOMAIN F : F[i] = F[j] => i = j
  BY DEF ParamsWellFormed
<1>5. DOMAIN caller.truth \subseteq ParamNames
  BY <1>3 DEF FrameShape, ParamNames, Range
<1>6. Range(F) \cap DOMAIN caller.truth = {}
  BY <1>3 DEF FrameShape, ParamsDisjoint
<1>7. GCtx(F, args, caller)
  BY <1>3, <1>4, <1>5, <1>6 DEF GCtx, FrameShape
<1>8. FrameShape(nf)
  BY DEF FrameShape
<1>9. FaithfulFrame(nf)
  <2> SUFFICES ASSUME NEW p \in Range(F)
               PROVE  /\ nf.map.some
                      /\ p \in DOMAIN nf.map.val
                      /\ nf.map.val[p] = nf.truth[p]
    BY DEF FaithfulFrame
  <2>1. PICK i \in DOMAIN F : F[i] = p
    BY DEF Range
  <2>2. (CHOOSE j \in DOMAIN F : F[j] = p) = i
    BY <1>4, <2>1
  <2>3. nf.truth[p] = Subst(args[i], caller.truth)
    BY <2>2
  <2>4. LET G == GenericArgumentsMap(F, args, caller.map, actuals)
        IN  /\ G.some
            /\ F[i] \in DOMAIN G.val
            /\ G.val[F[i]] = Subst(args[i], caller.truth)
    BY <1>7, <2>1, GenericArgumentsMapFaithful
  <2>. QED
    BY <2>1, <2>3, <2>4
<1>10. /\ stack' \in Seq(Range(stack'))
       /\ Len(stack') = Len(stack) + 1
       /\ \A k \in 1..Len(stack) : stack'[k] = stack[k]
       /\ stack'[Len(stack) + 1] = nf
  <2>1. /\ Len(stack') = Len(stack) + 1
        /\ DOMAIN stack' = 1..Len(stack) + 1
        /\ \A k \in 1..Len(stack) : stack'[k] = stack[k]
        /\ stack'[Len(stack) + 1] = nf
    BY <1>1, <1>2 DEF GInv
  <2>2. stack' \in Seq(Range(stack'))
    <3>1. stack' \in Seq(Range(stack) \cup {nf})
      BY <1>1, AppendInRange DEF GInv
    <3>2. stack' \in [1..Len(stack) + 1 -> Range(stack')]
      BY <2>1, <3>1 DEF Range
    <3>. QED
      BY <1>2, <3>2
  <2>. QED
    BY <2>1, <2>2
<1>. QED
  BY <1>8, <1>9, <1>10 DEF GInv


LEMMA GInvStep ==
  ASSUME ParamsWellFormed, ParamsDisjoint, "adt" \notin Wrappers
  PROVE  GInv /\ [Next]_vars => GInv'
<1> SUFFICES ASSUME GInv, [Next]_vars PROVE GInv'
  OBVIOUS
<1>1. CASE \E g \in Fns \ {Entry} :
             \E args \in [DOMAIN FnParams[g] ->
                            TypesOver(Range(FnParams[stack[Len(stack)].fn]))],
                actuals \in {<<>>} \cup {<<t>> : t \in TypesOver({})} :
               Call(g, args, actuals)
  <2>1. PICK g \in Fns \ {Entry} :
             \E args \in [DOMAIN FnParams[g] ->
                            TypesOver(Range(FnParams[stack[Len(stack)].fn]))],
                actuals \in {<<>>} \cup {<<t>> : t \in TypesOver({})} :
               Call(g, args, actuals)
    BY <1>1
  <2>2. PICK args \in [DOMAIN FnParams[g] ->
                         TypesOver(Range(FnParams[stack[Len(stack)].fn]))],
             actuals \in {<<>>} \cup {<<t>> : t \in TypesOver({})} :
               Call(g, args, actuals)
    BY <2>1
  <2>. QED
    BY <2>2, GInvCall
<1>2. CASE Return
  BY <1>2, GInvReturn
<1>3. CASE UNCHANGED vars
  <2>1. stack' = stack
    BY <1>3 DEF vars
  <2>. QED
    BY <2>1, Zenon DEF GInv
<1>. QED
  BY <1>1, <1>2, <1>3 DEF Next

(***************************************************************************)
(* For every set of functions whose type parameters have distinct names,   *)
(* no two functions sharing one, and for arguments that wrap no parameter  *)
(* in an ADT: along every chain of inlined calls, the generic_argument_map *)
(* of every visitor binds each type parameter of its function to the type  *)
(* the parameter really denotes (the run type_visitor checks               *)
(* FaithfulGenericMap on a small instance).                                *)
(***************************************************************************)
THEOREM FaithfulGenericMapHolds ==
  ASSUME ParamsWellFormed, ParamsDisjoint, "adt" \notin Wrappers
  PROVE  Spec => []FaithfulGenericMap
<1>1. Init => GInv
  BY GInvInit
<1>2. GInv /\ [Next]_vars => GInv'
  BY GInvStep
<1>3. GInv => FaithfulGenericMap
  BY DEF GInv, FaithfulFrame, FaithfulGenericMap
<1>. QED
  BY <1>1, <1>2, <1>3, PTL DEF Spec

=============================================================================
