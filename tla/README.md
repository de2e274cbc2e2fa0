# Formal models of rust-mir-checker

This directory has TLA+ models of the parts of rust-mir-checker that are
under `src/`, TLC configurations that check them on small instances, and
TLAPS proofs of their main safety results. `PROJECT.json` lists each run,
mutant, finding and hazard. Its `map` ties every modelled definition to the
source lines it translates.

## 1. The system and its parts

`mir-checker` is a rustc driver. It runs an abstract-interpretation analysis
over the MIR of a crate and reports possible runtime errors and memory-safety
bugs as compiler warnings. Under `src/` there are:

| part | source | state it keeps | operations |
|---|---|---|---|
| Driver binary | `bin/mir-checker.rs` | `rustc_args`; the process exit status | `main`: read args, add `--sysroot`, then either pass through to plain rustc (`MIR_CHECKER_BE_RUSTC`) or force `-Zalways_encode_mir`/`-Cpanic=abort` and run rustc with the callbacks; map `Ok`/`Err` to exit 0/1 |
| Compiler callbacks | `analysis/callback.rs` | `source_name`, `analysis_options` | `config` (records the local source path, panics otherwise); `after_analysis` → `run_analysis` (skip list, `GlobalContext::new`, `NumericalAnalysis::run`) |
| Numerical analysis driver | `analysis/analyzer/numerical_analysis.rs`, `analysis_trait.rs` | the global context, including the diagnostics store | `run` (domain dispatch, `analyze_function(entry)`, `emit_diagnostics`), `analyze_function` (fixed point, then checker) |
| Diagnostics store | `analysis/diagnostics.rs` | `DiagnosticsForDefId.map: HashMap<DefId, Vec<Diagnostic>>`; each `Diagnostic` wraps a rustc `Diag`, which must be emitted or cancelled before it is dropped | `insert`, `Diagnostic::{clone, upgrade_to_error, emit, cancel, compare}`, `DiagnosticCause::from` |
| Type visitor | `analysis/mir_visitor/type_visitor.rs` | per analysed function: `generic_argument_map`, `actual_argument_types`, `path_ty_cache` | `get_generic_arguments_map`, `specialize_generic_argument_type`/`specialize_substs`, `get_path_rustc_type`, `get_rustc_place_type`, the size queries |
| Summary keys, type mangling | `analysis/memory/utils.rs` | none (pure functions) | `summary_key_str`, `qualified_type_name`, `append_mangled_type`, `is_concrete`, ... |

The fixed-point iterator, the body visitor and its transfer functions, the
checker, the path/expression algebra and the Apron domains are described in
`spec.md` but are not under `src/`.

How the parts interact:
1. `main` builds the argument vector and hands `MirCheckerCallbacks` to rustc.
2. rustc calls `config`, runs its front end and calls `after_analysis`.
3. `after_analysis` runs `NumericalAnalysis::run`. Its fixed-point iterator
   inlines callees, and a `TypeVisitor` with its own generic map goes with
   each inlined callee.
4. The checker of every analysed function buffers diagnostics.
5. When a function's visitor finishes, its buffer is inserted into
   `DiagnosticsForDefId` under the function's `DefId`.
6. At the end, `emit_diagnostics` emits, cancels or upgrades every stored
   diagnostic.
7. Errors reported by the session (under `--deny_warnings`) become exit
   status 1.

### What is hard here

- **Diag lifecycle.** A rustc `Diag` dropped without `emit` or `cancel` is a
  compiler bug. Whether that happens depends on how many times a `DefId` is
  inserted and on every combination of options.
- **Hash order.** `map.into_values()` iterates in a randomly seeded order.
  Only a stable sort by primary span follows it, so the emission order of
  equal spans depends on the run.
- **Substitution along inlining chains.** The callee's map is built while the
  caller's map clone is being updated. Parameter names can coincide between
  caller and callee.
- **Argument rewriting.** The driver recognises flags token by token, so
  user-supplied variants slip through.
- **Panics outside rustc's fatal-error path.** `unreachable!()` and `todo!()`
  give exit status 101.

### What makes each part correct

- **Diagnostics.**
  - Every reported diagnostic ends emitted or cancelled, exactly once.
  - The emitted ones are exactly those that pass the suppress and
    memory-safety filters.
  - They come out in span order, upgraded to errors under deny.
  - The order is the same in every run.
- **Driver.**
  - The crate is analysed exactly when the configuration says it should be,
    and then with MIR encoding forced and panics aborting.
  - rustc gets one sysroot.
  - The exit status is 0 or 1 and reflects the errors.
- **Type visitor.**
  - Every inlined visitor's map binds each parameter to the type it really
    denotes.
  - Below a concrete entry, every binding is concrete.

## 2. Modules

| module | models | state (VARIABLES) | actions |
|---|---|---|---|
| `Diagnostics` | diagnostics store and `emit_diagnostics` | `opts`, `buffer[f]` (a visitor's `buffered_diagnostics`), `store[f]` (`map[f]`), `visits[f]` (inserts so far), per diagnostic `span`, `cause`, `mem`, `level`, `fate`; `out` (emission order), `phase` | `Report` (checker buffers a diagnostic), `Finish` (`insert`), `EmitDiagnostics` |
| `Driver` | `main` and `MirCheckerCallbacks` | `env` (environment and rustc outcomes), `args`, `pc`, `errors`, `analysed`, `exitCode` | `Main`, `PlainRustc`, `Config`, `FrontEnd`, `AfterAnalysis`, `Codegen`, `Exit`, `Panic` |
| `TypeVisitor` | `get_generic_arguments_map` and `specialize_generic_argument_type` along a chain of inlined calls | `stack` of visitors: function, `generic_argument_map`, a ghost `truth` (what each parameter really denotes) | `Call` (inline a callee), `Return` |
| `DiagnosticLifecycle` | what the diagnostics promise rustc (abstract) | `life[d]` ∈ unborn/pending/emitted/cancelled, `closed` | `Create(d)`, `Settle` |
| `PathTypes` | `get_path_rustc_type` and `get_rustc_place_type` along one MIR place | `local`, `proj` (projection elements so far), ghost `truth` (rustc's `PlaceTy`), `placeTy`, `pathTy` | `ReadPlace(k)`, `Project(e)` |
| `Utils` | the pure helpers of `utils.rs` | | operators only |
| `TypeNames` | harness for `append_mangled_type` and `is_concrete` | `ty` | `Construct` (wrap in one constructor), `StartOver` |
| `SummaryKeys` | harness for `summary_key_str` | `def` (a DefId being built) | `Descend` (one path component), `StartOver` |
| `DiagnosticsProofs`, `DriverProofs` | TLAPS proofs about `Diagnostics` and `Driver` | | |
| `MCDiagnostics`, `MCDriver`, `MCTypeVisitor`, `MCPathTypes`, `MCTypeNames`, `MCSummaryKeys` | the TLC instances | | |

### Diagnostics

- `Report` stands for the checker pushing a `Diagnostic` into the live
  visitor's buffer. The checker is not under `src/`, so this action is
  modelled from the spec (marked `spec_modelled`).
- `Finish(f)` is `DiagnosticsForDefId::insert`. The new vector replaces the
  old one, and every diagnostic of the old vector becomes `"dropped"`.
- `EmitDiagnostics` is the whole of `emit_diagnostics`, in one step:
  - flatten the map in some hash order (`IterationOrders`: any injective
    ranking of the functions);
  - apply `upgrade_to_error` under deny;
  - stable-sort with `Diagnostic::compare` (`EmitBefore`: span, then flattened
    position);
  - cancel the suppressed causes, then cancel the non-memory-safety ones under
    `memory_safety_only`;
  - emit the rest in order.
- `DiagnosticCause::from` is `CauseOf`.
- `Clone` loses the span, so a clone has span `NoSpan = 0`. Spans range over
  `0..MaxSpan`.

### Driver

- rustc is an environment. `env` fixes, up front, whether the front end
  succeeds, whether a global context is built, whether the analysis finds
  something, the input kind, the skip-list bit and the deny flag.
- `Main` models everything up to `RunCompiler::run`. `WithSysroot` and
  `WithAnalyzerFlags` are the argument rewrites, token by token.
- `Exit` maps `errors` to 0/1. `Panic` is the 101 status of an uncaught
  panic.

### TypeVisitor

- Types are primitives, parameters and one level of `ref`/`ptr`/`slice`/
  `array`/`adt` around them.
- `GenericArgumentsMap` translates the loop of `get_generic_arguments_map`:
  - each parameter's argument is specialised through the running
    `substitution_map`, in index order;
  - the result is inserted under the parameter's name into both
    `substitution_map` and `map`;
  - `Self` is added through `or_insert` after a `Ref` is stripped;
  - an empty map becomes `None`.
- `Specialize` is `specialize_generic_argument_type` for the modelled kinds.
- `Call` and `Return` stand for the body visitor inlining a callee. That code
  is not under `src/`, so these two actions are modelled from spec 4.2.
- The ghost `truth` is the simultaneous substitution (`Subst`) that the map is
  meant to compute. It is a reference definition, not code.

### DiagnosticLifecycle and the refinement

- `DiagnosticLifecycle` is the abstract promise: each diagnostic is created
  at most once while the crate is analysed, stays pending until one emission
  point, is then emitted or cancelled, and never changes again. `FairSpec`
  adds weak fairness on `Settle`: the emission point is reached.
- `Diagnostics` maps onto it with `LifeOf`: buffered and stored are pending;
  a dropped diagnostic maps to `"dropped"`, which is no abstract state, so a
  drop breaks the refinement. `closed` is `phase = "emitted"`.
- `Report` is `Create`, `Finish` is a stutter, `EmitDiagnostics` is
  `Settle` with the kept diagnostics as the emitted set.

### PathTypes

- A place is a local and a chain of projection elements. `Project(e)`
  extends the place by one well-typed element and advances both resolvers:
  - `PlaceStep` is `get_type_for_projection_element` (the fold of
    `get_rustc_place_type`), with `ElementType` for `get_element_type`;
  - `PathStep` is one selector of `get_path_rustc_type`: `PathField` for
    `Field` (last variant of an enum, `subs[i+4]` of a closure, tuple
    element), `Deref` for `get_dereferenced_type`, unit otherwise;
  - `RootType` is the root of the path: the caller's actual argument for a
    parameter, the declared type otherwise.
- `truth` is rustc's own place typing (`PlaceTy::projection_ty`), including
  the variant a `Downcast` selects. It is the reference, not code.
- `unreachable!()` and `todo!()` make `placeTy` the value `Panic`; nothing is
  read after it.
- `ReadPlace(k)` is the body visitor starting a new place.

### Utils, TypeNames, SummaryKeys

- `Utils` builds the very strings the code builds (`\o` on TLA+ strings):
  `PushComponentName`, `QualifiedTypeName` (a `FoldLeft` over the def path),
  `AppendMangledType` and `MangledArgs`, `KeyStep`/`SummaryKeyStr` (the loop
  of `summary_key_str`, carrying the key and the last `TypeNs` symbol), and
  `IsConcrete`/`AreConcrete`. rustc data is abstracted: a DefId is a crate
  name and a sequence of `[data, name, dis]` components, a type a tuple
  headed by its kind.
- `TypeNames` enumerates types up to nesting depth `MaxDepth` from a set of
  leaves (primitives, `str`, `!`, unit, a param, an inference variable, a param-carrying
  alias, a struct, a foreign type, a bare trait object); the wrappers add generic ADTs, fn items, closures and trait objects. Every ADT has the number
  of type and lifetime parameters rustc requires. `FullyConcrete` is the
  reference definition of "no type parameter anywhere".
- `SummaryKeys` enumerates DefIds along Rust's item nesting (modules hold
  modules, impl blocks and fns; impl blocks hold fns; fns hold closures) up
  to `MaxLen` components. `TypeOfParent` is `tcx.type_of(parent)`: an impl
  block's self type (`ImplSelf`, by disambiguator). Several impl blocks of a
  module may share a self type, as the trait impls of `core::convert::num`
  do.

## 3. Runs

| run | cfg | expect | checks | bounds |
|---|---|---|---|---|
| diagnostics_store | MCDiagnostics.cfg | pass | NoDiagnosticDropped, EmissionContract | 2 functions, 3 diagnostics, spans 0..1, one insert per function, suppress ∈ {∅, {Arithmetic}}, memonly and deny both ways |
| diagnostics_reinsert | MCDiagnosticsReinsert.cfg | violation | NoDiagnosticDropped | as above, two inserts per function |
| diagnostics_determinism | MCDiagnosticsDeterminism.cfg | violation | Determinism | as diagnostics_store |
| driver | MCDriver.cfg | pass | TypeOK, AnalysisScope, ExitReflectsErrors | all 2^8·2 environments, 4 command lines |
| type_visitor | MCTypeVisitor.cfg | pass | FaithfulGenericMap | main → f<A,B> → g<T,U>, depth 3, prims {i32,bool}, wrappers {ref,slice} |
| type_visitor_capture | MCTypeVisitorCapture.cfg | violation | FaithfulGenericMap | f and g both name their parameters T, U |
| diagnostics_lifecycle | MCDiagnosticsLifecycle.cfg | pass | DiagnosticsLifecycle (`Lifecycle!FairSpec`) | 2 functions, 2 diagnostics, one insert each, under `FairSpec` |
| pathtypes | MCPathTypes.cfg | pass | PlaceTypeExact, PathTypeSound, ResolverTotal | struct S, 2-variant enum E, union U; 8 locals (params &E and [S; n]); deref, field, index, constindex, downcast; chains of up to 5 |
| pathtypes_subslice | MCPathTypesSubslice.cfg | violation | PlaceTypeExact | Subslice projections |
| typenames | MCTypeNames.cfg | pass | ConcreteComplete | 12 leaves, depth 2 |
| typenames_fnptr | MCTypeNamesFnPtr.cfg | violation | MangledNameUnique | as typenames |
| summarykeys_numimpl | MCSummaryKeys.cfg | violation | NumImplKeysUnique | crates core, my; modules num, core, foreign_contracts; impl disambiguators 0..2, those of num with self types i8, u32, u32; paths of up to 5 components |

**Further counterexamples.** These configurations are not among the
project's runs. Each checks one contract of the code on an instance that
contains the case the passing run leaves out, and TLC finds it violated.
They are listed as hazards in `PROJECT.json` and described under
Findings below.

| cfg | module | violates | bounds |
|---|---|---|---|
| MCDriverSysroot.cfg | MCDriver | SysrootSetOnce | as driver |
| MCDriverStdin.cfg | MCDriver | ExitCodeContract | as driver |
| MCTypeVisitorAdt.cfg | MCTypeVisitor | MapsConcrete | wrappers {ref, adt} |
| MCPathTypesRawPtr.cfg | MCPathTypes | PathTypeSound | a local `*const S` |
| MCPathTypesClosure.cfg | MCPathTypes | PathTypeSound | a closure of a generic fn |
| MCPathTypesCast.cfg | MCPathTypes | ResolverTotal | OpaqueCast/Subtype projections |
| MCTypeNamesUnderscore.cfg | MCTypeNames | MangledNameUnique | adds my_lib::Foo and my::lib::Foo, depth 1 |
| MCTypeNamesConcrete.cfg | MCTypeNames | ConcreteSound | as typenames |
| MCSummaryKeysUnique.cfg | MCSummaryKeys | SummaryKeyUnique | as summarykeys_numimpl |
| MCSummaryKeysForeign.cfg | MCSummaryKeys | ForeignContractsAlias | as summarykeys_numimpl |

**Why the bounds are enough.**
- Two functions and three diagnostics already give the cases that matter:
  - two diagnostics in one function;
  - diagnostics of two functions with equal spans;
  - a spanless clone against a spanned diagnostic;
  - each filter applied to a diagnostic that it drops and to one that it
    keeps.
- The suppress set takes the two values that matter: one cause suppressed and
  none.
- For the driver, every environment bit is enumerated. The four command lines
  are:
  - a plain one;
  - one with a user sysroot in two tokens;
  - one with a user sysroot in one token;
  - one that already forces MIR encoding.
- For the type visitor:
  - depth 3 is the first depth at which a map is built from a map that was
    itself built from arguments;
  - two primitives make bindings distinguishable;
  - one level of wrapping is the least that puts a parameter under a
    constructor.

- For `PathTypes`, the locals cover every type constructor the resolvers
  treat differently (reference, raw pointer only in its violation run,
  array, slice, tuple, struct, enum, union, closure), and five projections
  reach a field of an element of a downcast behind two derefs.
- For `TypeNames`, depth 2 is the least at which a constructor's argument is
  itself built, which is where mangled names can be ambiguous; the
  universe then has a few thousand types, and every pair is compared.
- For `SummaryKeys`, three impl disambiguators give two non-zero ones (the
  collision) and core::num's three impls; five components reach
  `foreign_contracts::core::num::{impl}::f`.

**Symmetry.** `MCDiagnostics` declares functions and diagnostics as model
values and uses symmetry over both. Every property quantifies over them
uniformly: `Determinism` ranges over all rankings of the functions.

**Deadlock.** Deadlock checking is off for `Diagnostics` and `Driver`. Their
final states, emitted and exited, are the real end of the process. It is off
for `PathTypes`, whose walk ends once the resolver panicked (the analysis
aborts). It stays on for `TypeVisitor`, where a chain can always return or
inline, and for the harnesses `TypeNames` and `SummaryKeys`, which can
always start over.

**Fairness.** Only `diagnostics_lifecycle` assumes fairness (`FairSpec` of
`Diagnostics`): weak fairness of `Finish(f)` while `f`'s buffer is not
empty, and of `EmitDiagnostics`. The analysis is one sequential thread
(`NumericalAnalysis::run`): a visitor that buffered diagnostics runs to its
end and is inserted, and `run` calls `emit_diagnostics` unconditionally once
the entry function is analysed (`numerical_analysis.rs:132`). Nothing else
is fair: the other properties are safety properties.

## 4. Findings

Each violation run, and each further counterexample (marked ‡), is a
disagreement between the code and `spec.md` or the code's comments.

- **`diagnostics_reinsert`** (`diagnostics.rs:132`). A second `insert` for a
  `DefId` drops the diagnostics it replaces un-emitted. Spec 4.7 says each
  diagnostic is emitted or cancelled exactly once. This happens whenever the
  analysis finishes a visitor twice for one function.
- **`diagnostics_determinism`** (`numerical_analysis.rs:34`). Diagnostics of
  different functions with equal primary spans come out in hash order. The
  spec says the ordering is deterministic.
- ‡ **`driver_sysroot`** (`mir-checker.rs:36`). `--sysroot=PATH` is not
  recognised, so a second sysroot is appended.
- ‡ **`driver_stdin`** (`callback.rs:31`). A non-file input panics with status
  101.
- **`type_visitor_capture`** (`type_visitor.rs:233`). The callee's bindings
  are written into the map that later arguments are specialised with. With
  f<T,U> calling g::<&bool, &T> and T = &i32, g's U becomes &&bool instead of
  &&i32.
- ‡ **`type_visitor_adt`** (`type_visitor.rs:380`). An ADT is not specialised,
  so `Wrap<A>` reaches the callee with `A` unresolved.
- ‡ **`pathtypes_rawptr`** (`type_visitor.rs:146`). `get_dereferenced_type`
  strips only references, so `*p` of a `*const S` path has type `*const S`.
- ‡ **`pathtypes_closure`** (`type_visitor.rs:133`). A closure's field `i` is
  read at `subs[i+4]`; in a generic function's closure this is a synthetic
  argument, not the captured variable.
- **`pathtypes_subslice`** (`type_visitor.rs:331`). A `Subslice` is typed as
  one element; rustc keeps the array or slice type.
- ‡ **`pathtypes_cast`** (`type_visitor.rs:345`). `OpaqueCast` and `Subtype`
  reach `todo!()` and abort the analysis.
- **`typenames_fnptr`** (`utils.rs:111`). `fn(fn() -> bool) -> bool` and
  `fn() -> fn(bool) -> bool` both mangle to `fn_ptr_fn_ptr_bool_bool`.
- ‡ **`typenames_crate_names`** (`utils.rs:144`). `my_lib::Foo` and
  `my::lib::Foo` both give `my_lib_Foo`.
- ‡ **`typenames_concrete`** (`utils.rs:255`). `is_concrete` calls `[T]`,
  `*const T` and projections on `T` concrete.
- **`summarykeys_numimpl`** (`utils.rs:186`). An impl block of a core module
  named `num` is named by its mangled self type instead of its
  disambiguator. `impl From<u8> for u32` and `impl From<u16> for u32` in
  `core::convert::num` give both `from` methods the key
  `core.convert.num.implement_u32.from`. The doc comment says the key
  uniquely identifies a definition.
- ‡ **`summarykeys_unique`** (`utils.rs:194`). The methods `f` of two impl
  blocks of one module both get the key `crate.module.implement_module.f`.
- ‡ **`summarykeys_foreign`** (`utils.rs:179`). Under
  `foreign_contracts::core`, the module `core` becomes `type_ns`, so a method
  of an impl at core's root gets `core.implement_core.f` instead of the
  `core.implement_1.f` it stands for.

## 5. Proofs

### `DiagnosticsProofs`

These hold for all constants that satisfy `ConstantsAssumption`: finite
`Diag`, `MaxVisits ≥ 1`, `MaxSpan ∈ Nat`, and suppress options drawn from the
nine causes.

- **`TypeCorrect`: `Spec => []TypeOK`.** Each action is shown to preserve the
  type. The emission step relies on the lemma `EmittedIsSeq`: a function from
  `1..Cardinality(S)` onto `S ⊆ Diag` is a sequence of diagnostics.
- **`DropsOnlyOnReinsert`: `Spec => []DropsNeedReinsert`.** A diagnostic is
  dropped only if some function has been inserted twice. `DropsNeedReinsert`
  alone is not inductive: `Finish` could drop a diagnostic stored by a
  function that was never visited. The inductive invariant is
  `IInv = TypeOK /\ StoreEmptyBeforeFirstInsert /\ DropsNeedReinsert`, where
  `StoreEmptyBeforeFirstInsert` says a function's stored vector is empty
  until its first insert.
- **`NoDropWhenInsertedOnce`: with `MaxVisits = 1`, `Spec =>
  []NoDiagnosticDropped`.** The property the `diagnostics_store` run checks,
  for every number of functions and diagnostics.
- **`ImplementsLifecycle`: with `MaxVisits = 1`, `Spec => Lifecycle!Spec`.**
  The safety part of the refinement the `diagnostics_lifecycle` run checks.
  The step proof needs more than `IInv`: `RInv` adds that a diagnostic in a
  buffer is `"buffered"` (`InBufferIsBuffered`), that the buffers are
  disjoint (`BuffersDisjoint`), and that a buffered diagnostic is in a
  buffer (`BufferedInBuffer`). With them, `Report` of `d` maps to
  `Create(d)` (`d` was unborn), `Finish` changes no abstract state (its
  buffer's diagnostics stay pending, and the replaced store is empty because
  of `StoreEmptyBeforeFirstInsert`), and `EmitDiagnostics` maps to `Settle`
  with the kept diagnostics as witness (no diagnostic is still buffered,
  since every buffer is empty when the analysis is done).

### `DriverProofs`

For every set of command lines and environments that satisfies
`DriverAssumption`:
- **`DriverTypeCorrect`: `Spec => []TypeOK`**;
- **`AnalysisScopeHolds`: `Spec => []AnalysisScope`**;
- **`ExitReflectsErrorsHolds`: `Spec => []ExitReflectsErrors`**.

All three follow from one inductive invariant `DInv`, which records what
each stage of `pc` has established: the process is the checker, the command
line was read and carries both analyser flags (`Flagged`), the input is a
local file, the front end succeeded, `errors` is exactly "analysed and deny
and findings" after codegen, and `exitCode` is -1 until exit. The lemma
`AnalyzerFlagsSet` proves that `WithAnalyzerFlags` yields a token sequence
containing `-Zalways_encode_mir` and `-Cpanic=abort` whatever it is given.

Further, in `DiagnosticsProofs`:
- **`EmissionContractHolds`: with `MaxVisits = 1`, `Spec =>
  []EmissionContract`.** The emitted sequence is exactly the kept stored
  diagnostics, each once, in `EmitBefore` order, and every other stored one
  is cancelled. `EmissionContract` is not inductive: the emission step needs
  to know that every stored diagnostic is in some function's stored vector
  (`StoredInStore`, without which `Owner` and `Idx` are arbitrary and the
  sort order is not strict), that all levels are still `Warning` and no
  fate is settled before emission. `EInv` adds these to `RInv`. The lemma
  `EmitBeforeFacts` shows `EmitBefore` is irreflexive and follows spans on
  stored diagnostics, so the emitted sequence `s` is injective; the lemma
  `InjectiveOnto` (an injective map from `1..Cardinality(K)` into a finite
  `K` is onto) then gives `Range(out') = kept`.


### `PathTypesProofs`

For all constants satisfying `PathTypesAssumption`, and a set of types `T`
with `WellFormedTypes(T)`: `T` holds the locals' types and everything inside
them and inside the ADTs' fields, each of a known kind, and every ADT has a
variant. TLC checks both hypotheses below, and the inductive invariants, on
the `pathtypes` instance with `T = AllTypes`. Each theorem excludes exactly
the construct of one counterexample run:
- **`PlaceTypeExactHolds`: if `"subslice" \notin Projections`, `Spec =>
  []PlaceTypeExact`**, for any `T`. The invariant needs only that `truth`
  stays a record: each arm of `get_type_for_projection_element` takes the
  step MIR typing takes, and the casts make the resolver panic, so nothing
  is compared after them.
- **`PathTypeSoundHolds`: if also `PlainTypes(T)` (no raw pointer, no closure
  of a generic function), `Spec => []PathTypeSound`**, with all eight
  projection kinds. `PathInv` says the path type is unit or the place type,
  that it is unit while the place is downcast, and that the variant is one
  of the enum's. Lemmas: `RootIsDeclared` (the actual argument types are the
  declared ones, from `SubSeqProperties`), `PathFieldExact` (a non-enum
  struct has exactly one variant, so "last variant" is the right one; a
  non-generic closure's `subs[i+4]` is out of range, hence unit),
  `FieldTypesClosed` and `UnitAbsorbs`.
- **`ResolverTotalHolds`: if `Projections` has none of `subslice`,
  `opaquecast`, `subtype`, `Spec => []ResolverTotal`.** `TotalInv` is
  `PlaceTypeExact` together with `truth.ty \in T`, so that every element
  meets the arm that handles it. The exclusion of `subslice` is needed: with
  it, TLC finds `(*x)[a..][i]` on a `&[(S, E); n]` local typed as the
  element after the subslice, and the following `Index` reaches
  `unreachable!()` (the same code as finding `pathtypes_subslice`).

`PathTypes` uses no `RECURSIVE` operator: its type universe `AllTypes` is a
recursive function `TypeClosure` over the depth, so that the proof module
may extend it.

### `TypeVisitorProofs`

For all constants satisfying `TypeVisitorAssumption`:
- **`SpecializeFaithful`**: if `"adt" \notin Wrappers`, then
  `Specialize(t, fr.map) = Subst(t, fr.truth)` for every generic argument
  `t` over the frame's parameters. This needs the frame's map to be
  faithful (`FaithfulFrame`: `Some`, binding each parameter to its truth).
- **`AdtArgumentNotSpecialised`**: if `"adt" \in Wrappers`, the argument
  `Adt<P>` is returned unchanged by `Specialize` while `Subst` gives
  `Adt<truth[P]>`. The two differ whenever `P` denotes another type. This
  is the divergence of `type_visitor.rs:380`, proved for every instance.
- **`GenericArgumentsMapFaithful`**: take a callee whose parameter names are
  distinct and none of the caller's, a faithful caller frame, and arguments
  over the caller's parameters. Then `get_generic_arguments_map` returns
  `Some` map binding every callee parameter to `Subst(arg, caller.truth)`.
  Binding `Self` afterwards never overwrites a parameter.
- **`FaithfulGenericMapHolds`**: under `ParamsWellFormed` (each function's
  parameter names are distinct), `ParamsDisjoint` (no two functions share a
  name) and `"adt" \notin Wrappers`, `Spec => []FaithfulGenericMap` at
  every inlining depth. Both hypotheses hold on the `type_visitor` instance
  (its functions are f<A,B> and g<T,U>). `type_visitor_capture` shows that without `ParamsDisjoint` the
  property fails. The inductive invariant `GInv` adds that the stack is a
  non-empty sequence and that each frame's truth is over its function's
  parameters (`FrameShape`). The caller's truth must be over the caller's
  own parameters: only then does the guard "g is not on the chain" make
  the callee's names disjoint from it.

The recursive functions `Specialize` and `Subst` are unfolded as follows.
A non-recursive witness (`SpWit`, `SbWit`) satisfies the same equation, so
the `CHOOSE` of the definition satisfies it too. The loop of
`get_generic_arguments_map` is an induction over its index:
- `GStepsDef` unfolds the loop's recursive function with
  `FiniteNatInductiveDef`.
- `GJStep` is the step of the loop invariant `GJ`: `substitution_map`
  stays faithful and `map` binds the first `i` parameters correctly.
- `GLoop` concludes by `FiniteNatInductiveUnique`. The 0/1 function
  "`GJ` held up to `i`" satisfies the same finite recursive definition as
  the constant 1 function, so the two are equal.

This route avoids the library's induction rules, whose predicate parameter
the installed provers cannot instantiate.

Run `tlapm DiagnosticsProofs.tla`, `tlapm DriverProofs.tla`,
`tlapm PathTypesProofs.tla` and `tlapm TypeVisitorProofs.tla` to check them.

**What stays with TLC:**
- liveness: the fairness part of `DiagnosticsLifecycle` (the prover does not
  handle `ENABLED` and `WF`);
- `EmissionContract` with more than one insert per function, outside the
  theorem's hypothesis `MaxVisits = 1` (a re-insert drops diagnostics,
  finding `diagnostics_reinsert`); `Determinism` is violated (finding
  `diagnostics_determinism`), so there is nothing to prove;
- what the resolvers do on the excluded constructs,
  which TLC shows violated;
- `FaithfulGenericMap` when parameter names are
  shared (violated, `type_visitor_capture`) or ADT arguments are allowed
  (`MapsConcrete` is violated, `MCTypeVisitorAdt.cfg`);
- `Utils` with its harnesses `TypeNames` and `SummaryKeys`. They declare
  `RECURSIVE` operators and use `SequencesExt`, which the proof system
  cannot handle in a module with theorems. Their type printers recurse on
  type trees of any depth, so recasting them would need an induction over
  data of unbounded depth.

## 6. Not modelled

**Not under `src/`:**
- the WTO fixed-point iterator;
- the body visitor;
- the checker;
- the abstract environment and the path algebra.

Apron is external. These appear only through `Report`, `Call`, `Return` and
`ReadPlace`.

**Under `src/` but not modelled:**
- the size and layout queries of the type visitor (rustc's layout engine);
- `analysis_trait.rs` and the domain dispatch of `NumericalAnalysis::run`,
  which only choose an Apron domain;
- the skip list is an input bit of `Driver` (`callback.rs:58`), since the
  spec itself prescribes a substring match.

**Next steps:** model the fixed-point iterator from the spec (an interval
domain on a small CFG with widening delay and narrowing) and compose it with
`Diagnostics` through the checker.
