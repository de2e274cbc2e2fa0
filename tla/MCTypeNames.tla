---------------------------- MODULE MCTypeNames ----------------------------
(***************************************************************************)
(* Instances of TypeNames: DefIds of core and of a user crate `my`, the    *)
(* leaf types of every kind append_mangled_type and is_concrete tell       *)
(* apart (including a projection, which both leave to their default arm),  *)
(* and, for the uniqueness violation, two ADTs whose crate and module      *)
(* names meet at an underscore.                                            *)
(***************************************************************************)
EXTENDS TypeNames

TyNs(n) == [data |-> "TypeNs", name |-> n, dis |-> 0]
ValNs(n) == [data |-> "ValueNs", name |-> n, dis |-> 0]

Option == [krate |-> "core", path |-> <<TyNs("option"), TyNs("Option")>>]
CellRef == [krate |-> "core", path |-> <<TyNs("cell"), TyNs("Ref")>>]
From   == [krate |-> "core", path |-> <<TyNs("convert"), TyNs("From")>>]
Point  == [krate |-> "my", path |-> <<TyNs("Point")>>]
Opaque == [krate |-> "my", path |-> <<TyNs("Opaque")>>]
Id     == [krate |-> "my", path |-> <<ValNs("id")>>]
MainClosure ==
  [krate |-> "my",
   path |-> <<ValNs("main"), [data |-> "Closure", name |-> "", dis |-> 0]>>]

MCAdtDefs1 == {Option}
MCAdtDefsLt1 == {CellRef}
MCFnDefs == {Id}
MCClosureDefs == {MainClosure}
MCTraitDefs == {From}

Param == <<"param", "T">>

MCLeaves ==
  {<<"bool">>, <<"int", "i32">>, <<"uint", "u8">>, <<"str">>, <<"never">>,
   <<"tuple", <<>>>>, Param, <<"adt", Point, <<>>>>, <<"dynamic", <<>>>>,
   <<"foreign", Opaque>>, <<"infer", "?0t">>,
   <<"alias", "Alias(Projection, AliasTy { args: [T], def_id: DefId(0:3 ~ my[d3a1]::Tr::Out) })",
     <<Param>>>>}

\* struct Foo in crate my_lib, and struct Foo in module lib of crate my
MCLeavesUnderscore ==
  MCLeaves \cup
    {<<"adt", [krate |-> "my_lib", path |-> <<TyNs("Foo")>>], <<>>>>,
     <<"adt", [krate |-> "my", path |-> <<TyNs("lib"), TyNs("Foo")>>], <<>>>>}
=============================================================================
