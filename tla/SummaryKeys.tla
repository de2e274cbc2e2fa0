---------------------------- MODULE SummaryKeys ----------------------------
(***************************************************************************)
(* The definitions handed to summary_key_str, enumerated up to a path      *)
(* length: a behaviour starts at a crate root and descends one def-path    *)
(* component per step as Rust nests items (modules in modules, impl blocks *)
(* and fns in modules, methods in impl blocks, closures in fns), or starts *)
(* over in another crate.  Only fns and closures have summaries.           *)
(***************************************************************************)
EXTENDS Utils

CONSTANTS
  Crates,      \* crate names
  Modules,     \* module names
  Fns,         \* fn names
  ImplDis,     \* disambiguators of the impl blocks of one module
  ClosureDis,  \* disambiguators of the closures of one fn
  ImplSelf,    \* ImplSelf[d]: the self type of impl block d of a core num
               \* module; several blocks may implement traits for one type
  MaxLen       \* the longest def path

\* MaxLen is a natural number; ImplDis and ClosureDis are sets of naturals.

VARIABLE def   \* the DefId whose key is asked for

Comp(data, name, dis) == [data |-> data, name |-> name, dis |-> dis]

LastData(p) == Last(p).data

(***************************************************************************)
(* The components that may follow a def path, as Rust nests items.         *)
(***************************************************************************)
Children(p) ==
  CASE p = <<>> \/ LastData(p) = "TypeNs" ->
         {Comp("TypeNs", m, 0) : m \in Modules}
           \cup {Comp("Impl", "", d) : d \in ImplDis}
           \cup {Comp("ValueNs", f, 0) : f \in Fns}
    [] LastData(p) = "Impl" -> {Comp("ValueNs", f, 0) : f \in Fns}
    [] OTHER -> {Comp("Closure", "", d) : d \in ClosureDis}

PathsUpTo[n \in 0..MaxLen] ==
  IF n = 0 THEN {<<>>}
  ELSE PathsUpTo[n - 1] \cup
         UNION {{Append(p, c) : c \in Children(p)} : p \in PathsUpTo[n - 1]}

HasSummary(d) == d.path # <<>> /\ LastData(d.path) \in {"ValueNs", "Closure"}

Defs == {d \in [krate : Crates, path : PathsUpTo[MaxLen]] : HasSummary(d)}

(***************************************************************************)
(* tcx.type_of(tcx.parent(def_id)): the self type of an impl block, the    *)
(* fn item type of a fn, the closure type of a closure.  A module parent  *)
(* has no type, but then no impl block is on the path and it is not read.  *)
(***************************************************************************)
TypeOfParent(d) ==
  LET parent == [krate |-> d.krate, path |-> SubSeq(d.path, 1, Len(d.path) - 1)]
      kind == IF parent.path = <<>> THEN "CrateRoot" ELSE LastData(parent.path)
  IN CASE kind = "Impl" -> ImplSelf[Last(parent.path).dis]
       [] kind = "ValueNs" -> <<"fndef", parent, <<>>>>
       [] OTHER -> <<"closure", parent, <<>>>>

Key(d) == SummaryKeyStr(d, TypeOfParent(d))

Keys == [d \in Defs |-> Key(d)]

Init == def \in [krate : Crates, path : {<<>>}]

Descend ==
  /\ Len(def.path) < MaxLen
  /\ \E c \in Children(def.path) : def' = [def EXCEPT !.path = Append(@, c)]

StartOver == def' \in [krate : Crates \ {def.krate}, path : {<<>>}]

Next == Descend \/ StartOver

Spec == Init /\ [][Next]_def

-----------------------------------------------------------------------------
UnderForeignContracts(d) ==
  \E i \in DOMAIN d.path : d.path[i].name = "foreign_contracts"

Native == {d \in Defs : ~UnderForeignContracts(d)}

InNumImpl(d) ==
  /\ d.krate = "core"
  /\ \E j \in 2..Len(d.path) :
       d.path[j].data = "Impl" /\ d.path[j - 1] = Comp("TypeNs", "num", 0)

(***************************************************************************)
(* summary_key_str's doc comment: the key uniquely identifies a            *)
(* definition, so no two fns or closures share a key (apart from the       *)
(* aliases foreign_contracts creates on purpose).                          *)
(***************************************************************************)
SummaryKeyUnique ==
  def \in Native => \A d \in Native : d # def => Keys[d] # Key(def)

(***************************************************************************)
(* summary_key_str's doc comment, for the methods of the impl blocks of a  *)
(* num module of core: their key identifies them uniquely, although        *)
(* summary_key_str names such an impl block by its mangled self type in    *)
(* place of its disambiguator.                                             *)
(***************************************************************************)
NumImplKeysUnique ==
  def \in Native /\ InNumImpl(def) =>
    \A d \in Native : d # def => Keys[d] # Key(def)

\* The definition that `foreign_contracts::<crate>::...` at p[i] stands for.
Target(d, i) ==
  [krate |-> d.path[i + 1].name, path |-> SubSeq(d.path, i + 2, Len(d.path))]

(***************************************************************************)
(* The foreign_contracts prefix (the comment in summary_key_str): a fn     *)
(* under `foreign_contracts::<crate>::...` of any crate gets the key of    *)
(* the fn at `...` in <crate>, so contracts can be written for functions   *)
(* of crates one does not modify.  Methods of core::num's impl blocks are  *)
(* keyed by the mangled self type, which an impl outside core cannot have  *)
(* (inherent impls of primitive types are only allowed in core), so they   *)
(* are not aliased.                                                        *)
(***************************************************************************)
ForeignContractsAlias ==
  LET p == def.path
  IN \A i \in 1..Len(p) - 2 :
       ( /\ p[i] = Comp("TypeNs", "foreign_contracts", 0)
         /\ p[i + 1].data = "TypeNs" /\ p[i + 1].name \in Crates
         /\ HasSummary(def)
         /\ ~InNumImpl(Target(def, i)) )
       => Key(def) = Key(Target(def, i))

=============================================================================
