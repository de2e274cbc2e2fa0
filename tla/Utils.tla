------------------------------- MODULE Utils -------------------------------
(***************************************************************************)
(* The naming and concreteness helpers of src/analysis/memory/utils.rs,    *)
(* adapted from MIRAI: the summary key of a definition (summary_key_str),  *)
(* the mangled name of a type (append_mangled_type, qualified_type_name,   *)
(* push_component_name) and the test that a type is fully concrete         *)
(* (is_concrete, are_concrete).  They are pure functions; this module      *)
(* defines them over a small model of rustc's data, and builds the very    *)
(* strings the code builds (TLA+ strings concatenate with \o).             *)
(*                                                                         *)
(* A DefId is a record [krate, path]: its crate's name and its def path, a *)
(* sequence of components [data, name, dis] (DefPathData kind, the symbol  *)
(* of a namespaced kind, the disambiguator).  A type is a tuple whose      *)
(* first element is its TyKind; a generic argument is a type or the        *)
(* lifetime <<"region">>.                                                  *)
(***************************************************************************)
EXTENDS Naturals, Sequences, SequencesExt, TLC

(***************************************************************************)
(* The DefPathData kinds that carry a symbol, and the fixed names of the   *)
(* others (push_component_name).                                           *)
(***************************************************************************)
NamedData == {"TypeNs", "ValueNs", "MacroNs", "LifetimeNs"}

FixedDataName ==
  [CrateRoot |-> "crate_root", Impl |-> "implement", ForeignMod |-> "foreign_mod",
   Use |-> "use", GlobalAsm |-> "global_asm", Closure |-> "closure",
   Ctor |-> "ctor", AnonConst |-> "constant", OpaqueTy |-> "opaque_type",
   AnonAdt |-> "anonymous_type"]

PushComponentName(c) ==
  IF c.data \in NamedData THEN c.name ELSE FixedDataName[c.data]

(***************************************************************************)
(* str.ends_with(suffix).                                                  *)
(***************************************************************************)
EndsWith(s, t) ==
  Len(s) >= Len(t) /\ SubSeq(s, Len(s) - Len(t) + 1, Len(s)) = t

(***************************************************************************)
(* qualified_type_name: the crate name, then `_` and each component, with  *)
(* `_` and the disambiguator when it is not 0.                             *)
(***************************************************************************)
QualifiedTypeName(def) ==
  FoldLeft(LAMBDA name, c :
             name \o "_" \o PushComponentName(c)
                  \o (IF c.dis # 0 THEN "_" \o ToString(c.dis) ELSE ""),
           def.krate, def.path)

(***************************************************************************)
(* append_mangled_type, returning the string it appends.  MangledArgs is   *)
(* the loop over the type arguments of a substitution list, each preceded *)
(* by `_`; lifetimes are skipped.                                          *)
(***************************************************************************)
IsTypeArg(a) == a[1] # "region"

RECURSIVE AppendMangledType(_), MangledArgs(_)

MangledArgs(args) ==
  FoldLeft(LAMBDA s, a : s \o "_" \o AppendMangledType(a), "",
           SelectSeq(args, IsTypeArg))

AppendMangledType(t) ==
  CASE t[1] \in {"bool", "char", "str"} -> t[1]
    [] t[1] \in {"int", "uint", "float"} -> t[2]
    [] t[1] = "adt"     -> QualifiedTypeName(t[2]) \o MangledArgs(t[3])
    [] t[1] = "closure" -> "closure_" \o QualifiedTypeName(t[2])
                             \o MangledArgs(t[3])
    [] t[1] = "dynamic" -> "trait_" \o
                             (IF t[2] = <<>> THEN ""
                              ELSE QualifiedTypeName(t[2][1].def)
                                     \o MangledArgs(t[2][1].args))
    [] t[1] = "foreign" -> "extern_type_" \o QualifiedTypeName(t[2])
    [] t[1] = "fndef"   -> "fn_" \o QualifiedTypeName(t[2]) \o MangledArgs(t[3])
    [] t[1] = "array"   -> "array_" \o AppendMangledType(t[2])
    [] t[1] = "slice"   -> "slice_" \o AppendMangledType(t[2])
    [] t[1] = "ptr"     -> "pointer_" \o (IF t[3] THEN "mut_" ELSE "const_")
                             \o AppendMangledType(t[2])
    [] t[1] = "ref"     -> "ref_" \o (IF t[3] THEN "mut_" ELSE "")
                             \o AppendMangledType(t[2])
    [] t[1] = "fnptr"   -> "fn_ptr_"
                             \o FoldLeft(LAMBDA s, a : s \o AppendMangledType(a) \o "_",
                                         "", t[2])
                             \o AppendMangledType(t[3])
    [] t[1] = "tuple"   -> "tuple_" \o ToString(Len(t[2])) \o MangledArgs(t[2])
    [] t[1] = "param"   -> "generic_par_" \o t[2]
    [] t[1] = "never"   -> "_"
    [] OTHER            -> "default formatted " \o t[2]

(***************************************************************************)
(* summary_key_str.  The loop carries the key built so far and the symbol  *)
(* of the last TypeNs component met (type_ns).  typeOfParent is            *)
(* tcx.type_of(tcx.parent(def_id)), read only for an impl component with a *)
(* non-zero disambiguator.                                                 *)
(***************************************************************************)
KeyStep(st, c, def, typeOfParent) ==
  LET base == IF EndsWith(st.name, "foreign_contracts") THEN ""
              ELSE IF EndsWith(st.name, ".") THEN st.name
              ELSE st.name \o "."
      name == base \o PushComponentName(c)
      tns  == IF c.data = "TypeNs" THEN <<c.name>> ELSE st.tns
      suffix ==
        CASE c.dis = 0 -> ""
          [] c.data = "Impl" /\ tns = <<"num">> /\ def.krate = "core"
               -> "_" \o AppendMangledType(typeOfParent)
          [] c.data = "Impl" /\ tns # <<>> -> "_" \o tns[1]
          [] OTHER -> "_" \o ToString(c.dis)
  IN [name |-> name \o suffix, tns |-> tns]

SummaryKeyStr(def, typeOfParent) ==
  FoldLeft(LAMBDA st, c : KeyStep(st, c, def, typeOfParent),
           [name |-> def.krate, tns |-> <<>>], def.path).name

(***************************************************************************)
(* is_concrete and are_concrete: Bound, Param, Infer and Error are not     *)
(* concrete; an ADT, closure or fn item is concrete when its type          *)
(* arguments are, a tuple when its elements are, a reference when its      *)
(* referent is; every other kind is concrete.                              *)
(***************************************************************************)
RECURSIVE IsConcrete(_)

\* Mutation: a lifetime argument makes the argument list generic.
AreConcreteRegionsGeneric(args) ==
  \A i \in DOMAIN args : IsTypeArg(args[i]) /\ IsConcrete(args[i])

AreConcrete(args) ==
  \A i \in DOMAIN args : IsTypeArg(args[i]) => IsConcrete(args[i])

IsConcrete(t) ==
  CASE t[1] \in {"bound", "param", "infer", "error"} -> FALSE
    [] t[1] \in {"adt", "closure", "fndef"} -> AreConcrete(t[3])
    [] t[1] = "tuple" -> \A i \in DOMAIN t[2] : IsConcrete(t[2][i])
    [] t[1] = "ref"   -> IsConcrete(t[2])
    [] OTHER          -> TRUE

=============================================================================
