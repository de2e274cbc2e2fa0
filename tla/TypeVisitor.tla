----------------------------- MODULE TypeVisitor -----------------------------
(***************************************************************************)
(* Generic substitution in TypeVisitor (src/analysis/mir_visitor/          *)
(* type_visitor.rs) along a chain of inlined calls.                        *)
(*                                                                         *)
(* Every function being analysed has a visitor whose                      *)
(* `generic_argument_map` maps the names of its type parameters to the     *)
(* types they stand for.  At a call, the callee's map is built by         *)
(* `get_generic_arguments_map` from the call's generic arguments, which    *)
(* are written in the caller's parameters and are specialised through the *)
(* caller's map.  The ghost `truth` of each frame is what the callee's     *)
(* parameters really denote: the call's arguments with the caller's       *)
(* parameters substituted simultaneously and everywhere.                  *)
(***************************************************************************)
EXTENDS Naturals, Sequences

CONSTANTS
  Fns,        \* functions that can be inlined
  Entry,      \* the entry function (not generic)
  FnParams,   \* FnParams[g]: the names of g's type parameters, in index order
  Prims,      \* primitive types (bool, i32, ...)
  Wrappers,   \* type constructors considered: "ref", "ptr", "slice", "adt"
  MaxDepth    \* the deepest inlining chain considered

ASSUME TypeVisitorAssumption ==
  /\ Entry \in Fns
  /\ FnParams[Entry] = <<>>
  /\ Wrappers \subseteq {"ref", "ptr", "slice", "array", "adt"}
  /\ MaxDepth \in Nat \ {0}

VARIABLE stack   \* the visitors of the inlined calls, the entry first

vars == <<stack>>

(***************************************************************************)
(* Types: <<"prim", n>>, <<"param", name>>, and one wrapper around a type: *)
(* references, raw pointers, slices, arrays and a one-parameter ADT.       *)
(***************************************************************************)
ParamNames == UNION {{FnParams[g][i] : i \in DOMAIN FnParams[g]} : g \in Fns}

BaseTypes(ps) == {<<"prim", n>> : n \in Prims} \cup {<<"param", p>> : p \in ps}

TypesOver(ps) ==
  BaseTypes(ps) \cup {<<w, t>> : w \in Wrappers, t \in BaseTypes(ps)}

Range(s) == {s[i] : i \in DOMAIN s}

(***************************************************************************)
(* Option<HashMap<Symbol, Ty>>: [some |-> FALSE] is None.                  *)
(***************************************************************************)
None == [some |-> FALSE, val |-> <<>>]
Some(m) == [some |-> TRUE, val |-> m]

Put(m, k, v) == [x \in DOMAIN m \cup {k} |-> IF x = k THEN v ELSE m[x]]

(***************************************************************************)
(* specialize_generic_argument_type: nothing to do without a map; an ADT   *)
(* is returned as it is; references, pointers, slices and arrays are       *)
(* rebuilt around their specialised element; a parameter is looked up.     *)
(***************************************************************************)
\* Mutation: only a bare parameter is specialised, not one under a wrapper.
SpecializeShallow(t, map) ==
  IF map.some /\ t[1] = "param" /\ t[2] \in DOMAIN map.val
    THEN map.val[t[2]] ELSE t

(***************************************************************************)
(* The generic arguments of a call: a type over the parameters with at     *)
(* most one wrapper.                                                       *)
(***************************************************************************)
GenericTypes == TypesOver(ParamNames)

Specialize(t, map) ==
  LET sp[u \in GenericTypes] ==
        IF ~map.some \/ u[1] = "adt" THEN u
        ELSE IF u[1] \in {"ref", "ptr", "slice", "array"} THEN <<u[1], sp[u[2]]>>
        ELSE IF u[1] = "param" /\ u[2] \in DOMAIN map.val THEN map.val[u[2]]
        ELSE u
  IN sp[t]

(***************************************************************************)
(* get_generic_arguments_map: for each parameter of the callee in index    *)
(* order, its argument is specialised through `substitution_map` (a clone *)
(* of the caller's map), and the result is inserted under the parameter's  *)
(* name both into `map` and into `substitution_map`.  Then "Self" is bound *)
(* to the (dereferenced) first actual argument type unless bound already;  *)
(* an empty map is None.                                                   *)
(***************************************************************************)
Deref(t) == IF t[1] = "ref" THEN t[2] ELSE t

GenericArgumentsMap(params, args, callerMap, actuals) ==
  LET n == Len(params)
      step[i \in 0..n] ==
        IF i = 0 THEN [sm |-> callerMap, map |-> <<>>]
        ELSE LET prev == step[i - 1]
                 ty == Specialize(args[i], prev.sm)
             IN [sm |-> IF prev.sm.some
                          THEN Some(Put(prev.sm.val, params[i], ty))
                          ELSE prev.sm,
                 map |-> Put(prev.map, params[i], ty)]
      withSelf ==
        IF actuals # <<>> /\ "Self" \notin DOMAIN step[n].map
          THEN Put(step[n].map, "Self", Deref(actuals[1]))
          ELSE step[n].map
  IN IF DOMAIN withSelf = {} THEN None ELSE Some(withSelf)

(***************************************************************************)
(* The reference substitution: every parameter, at any depth, replaced by  *)
(* what it denotes in the caller.                                          *)
(***************************************************************************)
Subst(t, m) ==
  LET sb[u \in GenericTypes] ==
        IF u[1] = "param" THEN (IF u[2] \in DOMAIN m THEN m[u[2]] ELSE u)
        ELSE IF u[1] = "prim" THEN u
        ELSE <<u[1], sb[u[2]]>>
  IN sb[t]

Init == stack = <<[fn |-> Entry, map |-> None, truth |-> <<>>]>>

(***************************************************************************)
(* The body visitor meets a call of g with generic arguments `args`        *)
(* (written in the caller's parameters) and first actual argument types   *)
(* `actuals`, and inlines g: a child visitor gets the map built from the   *)
(* caller's.  Recursion is cut: a function already on the chain is not    *)
(* inlined again.                                                          *)
(***************************************************************************)
Call(g, args, actuals) ==
  LET caller == stack[Len(stack)]
  IN /\ Len(stack) < MaxDepth
     /\ \A k \in DOMAIN stack : stack[k].fn # g
     /\ stack' = Append(stack,
          [fn |-> g,
           map |-> GenericArgumentsMap(FnParams[g], args, caller.map, actuals),
           truth |-> [p \in Range(FnParams[g]) |->
                        Subst(args[CHOOSE i \in DOMAIN FnParams[g] :
                                      FnParams[g][i] = p],
                              caller.truth)]])

(***************************************************************************)
(* The callee's analysis is over; its visitor is dropped.                  *)
(***************************************************************************)
Return ==
  /\ Len(stack) > 1
  /\ stack' = SubSeq(stack, 1, Len(stack) - 1)

Next ==
  \/ \E g \in Fns \ {Entry} :
       \E args \in [DOMAIN FnParams[g] ->
                      TypesOver(Range(FnParams[stack[Len(stack)].fn]))],
          actuals \in {<<>>} \cup {<<t>> : t \in TypesOver({})} :
         Call(g, args, actuals)
  \/ Return

Spec == Init /\ [][Next]_vars

-----------------------------------------------------------------------------
AllTypes == TypesOver(ParamNames)
             \cup {<<w, t>> : w \in Wrappers, t \in TypesOver(ParamNames)}

IsTypeMap(m, D) ==
  /\ DOMAIN m \subseteq D
  /\ \A x \in DOMAIN m : m[x] \in AllTypes

IsFrame(fr) ==
  /\ DOMAIN fr = {"fn", "map", "truth"}
  /\ fr.fn \in Fns
  /\ fr.map.some \in BOOLEAN
  /\ IsTypeMap(fr.map.val, ParamNames \cup {"Self"})
  /\ IsTypeMap(fr.truth, ParamNames)

(***************************************************************************)
(* Every variable has its type.                                            *)
(***************************************************************************)
TypeOK ==
  /\ \A k \in DOMAIN stack : IsFrame(stack[k])
  /\ Len(stack) \in 1..MaxDepth

(***************************************************************************)
(* The map of every inlined visitor binds each type parameter of its       *)
(* function to the type the parameter really denotes along the chain of    *)
(* calls (spec 4.6: type parameters are specialised through the map).      *)
(***************************************************************************)
FaithfulGenericMap ==
  \A k \in DOMAIN stack :
    \A p \in DOMAIN stack[k].truth :
      /\ stack[k].map.some
      /\ p \in DOMAIN stack[k].map.val
      /\ stack[k].map.val[p] = stack[k].truth[p]

NoParams(t) ==
  LET np[u \in AllTypes] ==
        IF u[1] = "param" THEN FALSE
        ELSE IF u[1] = "prim" THEN TRUE
        ELSE np[u[2]]
  IN np[t]

(***************************************************************************)
(* Below a non-generic entry, every type parameter of an inlined function  *)
(* is bound to a type without parameters.                                  *)
(***************************************************************************)
MapsConcrete ==
  \A k \in DOMAIN stack :
    \A p \in DOMAIN stack[k].truth :
      stack[k].map.some /\ p \in DOMAIN stack[k].map.val
        => NoParams(stack[k].map.val[p])

=============================================================================
