--------------------------- MODULE MCTypeVisitor ---------------------------
(***************************************************************************)
(* Instances of TypeVisitor: a non-generic entry `main` and two generic    *)
(* functions of two type parameters each, inlined up to three deep.        *)
(***************************************************************************)
EXTENDS TypeVisitor, TLC

\* f and g declare parameters of different names.
DistinctParams == ("main" :> <<>>) @@ ("f" :> <<"A", "B">>) @@ ("g" :> <<"T", "U">>)

\* f and g both declare <T, U>, as most generic Rust code does.
SharedParams == ("main" :> <<>>) @@ ("f" :> <<"T", "U">>) @@ ("g" :> <<"T", "U">>)
=============================================================================
