----------------------------- MODULE TypeNames -----------------------------
(***************************************************************************)
(* The types handed to append_mangled_type and is_concrete, enumerated up  *)
(* to a nesting depth: a behaviour starts from a leaf type and wraps it in *)
(* one type constructor per step (a reference, pointer, slice, array,      *)
(* tuple, fn pointer, generic ADT, fn item, closure or trait object), or   *)
(* starts over from another leaf.  Every ADT has a fixed number of type    *)
(* and lifetime parameters, as in rustc.                                    *)
(***************************************************************************)
EXTENDS Utils

CONSTANTS
  Leaves,      \* the types of depth 0
  AdtDefs1,    \* DefIds of ADTs with one type parameter
  AdtDefsLt1,  \* DefIds of ADTs with one lifetime and one type parameter
  FnDefs,      \* DefIds of generic fns with one type parameter
  ClosureDefs, \* DefIds of closures
  TraitDefs,   \* DefIds of traits with one type parameter
  MaxDepth     \* how deep types nest

ASSUME TypeNamesAssumption == MaxDepth \in Nat \ {0}

VARIABLE ty    \* the type handed to the helpers

Bool == <<"bool">>

(***************************************************************************)
(* The types with t as their only non-leaf part.                           *)
(***************************************************************************)
Wrap(t) ==
  {<<"ref", t, m>> : m \in BOOLEAN} \cup {<<"ptr", t, m>> : m \in BOOLEAN}
  \cup {<<"slice", t>>, <<"array", t>>, <<"tuple", <<t>>>>,
        <<"tuple", <<t, Bool>>>>, <<"tuple", <<Bool, t>>>>,
        <<"fnptr", <<t>>, Bool>>, <<"fnptr", <<>>, t>>,
        <<"fnptr", <<Bool, t>>, Bool>>}
  \cup {<<"adt", d, <<t>>>> : d \in AdtDefs1}
  \cup {<<"adt", d, <<<<"region">>, t>>>> : d \in AdtDefsLt1}
  \cup {<<"fndef", d, <<t>>>> : d \in FnDefs}
  \cup {<<"closure", d, <<t>>>> : d \in ClosureDefs}
  \cup {<<"dynamic", <<[def |-> d, args |-> <<t>>]>>>> : d \in TraitDefs}

TypesUpTo[n \in 0..MaxDepth] ==
  IF n = 0 THEN Leaves
  ELSE TypesUpTo[n - 1] \cup UNION {Wrap(t) : t \in TypesUpTo[n - 1]}

Universe == TypesUpTo[MaxDepth]

MangledNames == [u \in Universe |-> AppendMangledType(u)]

Init == ty \in Leaves

Construct ==
  /\ ty \in TypesUpTo[MaxDepth - 1]
  /\ ty' \in Wrap(ty)

StartOver == ty' \in Leaves \ {ty}

Next == Construct \/ StartOver

Spec == Init /\ [][Next]_ty

-----------------------------------------------------------------------------
(***************************************************************************)
(* The types directly inside a type, lifetimes left out: the reference     *)
(* for what "fully concrete" means (no Bound, Param, Infer or Error type   *)
(* anywhere in it).                                                        *)
(***************************************************************************)
InnerTypes(t) ==
  CASE t[1] \in {"adt", "closure", "fndef"} -> SelectSeq(t[3], IsTypeArg)
    [] t[1] = "dynamic" -> IF t[2] = <<>> THEN <<>> ELSE t[2][1].args
    [] t[1] \in {"array", "slice", "ptr", "ref"} -> <<t[2]>>
    [] t[1] = "fnptr" -> Append(t[2], t[3])
    [] t[1] = "tuple" -> t[2]
    [] t[1] = "alias" -> t[3]
    [] OTHER -> <<>>

RECURSIVE FullyConcrete(_)
FullyConcrete(t) ==
  /\ t[1] \notin {"bound", "param", "infer", "error"}
  /\ \A i \in DOMAIN InnerTypes(t) : FullyConcrete(InnerTypes(t)[i])

(***************************************************************************)
(* append_mangled_type's contract (utils.rs, its doc comment): the string  *)
(* appended uniquely identifies the type, so no two types of the universe  *)
(* get the same mangled name.                                              *)
(***************************************************************************)
MangledNameUnique ==
  \A u \in Universe : u # ty => MangledNames[u] # AppendMangledType(ty)

(***************************************************************************)
(* is_concrete never calls a fully concrete type generic: a type without   *)
(* a type parameter, bound or inference variable anywhere in it is         *)
(* reported concrete.                                                      *)
(***************************************************************************)
ConcreteComplete == FullyConcrete(ty) => IsConcrete(ty)

(***************************************************************************)
(* is_concrete's doc comment: it determines whether the type is fully      *)
(* concrete, so a type it reports concrete has no type parameter anywhere. *)
(***************************************************************************)
ConcreteSound == IsConcrete(ty) => FullyConcrete(ty)

=============================================================================
