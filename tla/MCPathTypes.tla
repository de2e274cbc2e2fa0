---------------------------- MODULE MCPathTypes ----------------------------
(***************************************************************************)
(* Small instances of PathTypes: a struct S, a two-variant enum E and a    *)
(* union U; a function whose locals are the return place, two parameters  *)
(* (&E and [S; n]), a tuple with a union in it, &[E], a closure,         *)
(* &[(S, E); n] and &&E.                                                   *)
(***************************************************************************)
EXTENDS PathTypes, TLC

Bool == <<"prim", "bool">>
S == <<"adt", "S">>
E == <<"adt", "E">>

MCAdts ==
  ("S" :> << <<I32, <<"ref", I32>>, <<"array", E>>>> >>)
    @@ ("E" :> << <<I32>>, <<S, I32>> >>)
    @@ ("U" :> << <<I32, Bool>> >>)

\* A closure of a non-generic function, capturing an i32.
PlainClosure == <<"closure", <<>>, <<I32>>>>

\* A closure of a function with two type parameters, capturing an i32.
GenericClosure == <<"closure", <<I32, Bool>>, <<I32>>>>

MCLocals ==
  <<Unit, <<"ref", E>>, <<"array", S>>, <<"tuple", <<I32, <<"adt", "U">>>>>>,
    <<"ref", <<"slice", E>>>>, PlainClosure,
    <<"ref", <<"array", <<"tuple", <<S, E>>>>>>>>, <<"ref", <<"ref", E>>>>>>

MCLocalsRawPtr == Append(MCLocals, <<"ptr", S>>)

MCLocalsGenericClosure == Append(MCLocals, GenericClosure)

MCActuals == SubSeq(MCLocals, 2, 3)
=============================================================================
