------------------------------- MODULE Driver -------------------------------
(***************************************************************************)
(* The mir-checker process (src/bin/mir-checker.rs) and the callbacks it  *)
(* hands to rustc (src/analysis/callback.rs).                              *)
(*                                                                         *)
(* `main` reads the command line, adds `--sysroot` unless one is given,    *)
(* and either behaves as plain rustc (MIR_CHECKER_BE_RUSTC set) or forces  *)
(* `-Zalways_encode_mir` and `-Cpanic=abort`, strips the analyzer flags    *)
(* and runs rustc with MirCheckerCallbacks.  rustc calls `config` first,   *)
(* then, when the front end succeeded, `after_analysis`, which analyses    *)
(* the crate unless its source path is on the skip list.  The process     *)
(* exits 0 when rustc reports success and 1 otherwise.                     *)
(***************************************************************************)
EXTENDS Integers, Sequences, FiniteSets

CONSTANTS
  UserArgs,  \* the command lines (sequences of Tokens) considered
  Inputs     \* the kinds of rustc input considered: "local" file or "stdin"

Tokens == {"src", "--sysroot", "PATH", "--sysroot=PATH",
           "-Zalways_encode_mir", "-Cpanic=abort"}

ASSUME DriverAssumption ==
  /\ UserArgs \subseteq Seq(Tokens)
  /\ Inputs \subseteq {"local", "stdin"}

VARIABLES
  env,       \* the process environment and build: see Envs
  args,      \* rustc_args, as handed to rustc
  pc,        \* where the process is: see Pcs
  errors,    \* the rustc session has reported an error
  analysed,  \* NumericalAnalysis::run has run
  exitCode   \* the process exit status, -1 before exit

vars == <<env, args, pc, errors, analysed, exitCode>>

(***************************************************************************)
(* beRustc: MIR_CHECKER_BE_RUSTC is set; sysroot: compile_time_sysroot()   *)
(* is Some; argsOk: raw_args succeeds; input: what rustc compiles;         *)
(* skipListed: the source path contains a skip-list substring; frontEndOk: *)
(* the crate type-checks; contextOk: GlobalContext::new is Some; deny:     *)
(* --deny_warnings; findings: the analysis emits a diagnostic.             *)
(***************************************************************************)
Envs == [beRustc : BOOLEAN, sysroot : BOOLEAN, argsOk : BOOLEAN,
         input : Inputs, skipListed : BOOLEAN, frontEndOk : BOOLEAN,
         contextOk : BOOLEAN, deny : BOOLEAN, findings : BOOLEAN]

Pcs == {"main", "rustc", "config", "frontend", "after_analysis", "codegen",
        "exit", "exited", "panicked"}

Contains(s, t) == \E i \in DOMAIN s : s[i] = t

Init ==
  /\ env \in Envs
  /\ args \in UserArgs
  /\ pc = "main"
  /\ errors = FALSE
  /\ analysed = FALSE
  /\ exitCode = -1

(***************************************************************************)
(* main: everything before `RunCompiler::run`.                             *)
(***************************************************************************)
WithSysroot(a) ==
  IF env.sysroot /\ ~Contains(a, "--sysroot")
    THEN a \o <<"--sysroot", "PATH">>
    ELSE a

WithAnalyzerFlags(a) ==
  (IF Contains(a, "-Zalways_encode_mir") THEN a
   ELSE Append(a, "-Zalways_encode_mir")) \o <<"-Cpanic=abort">>

Main ==
  /\ pc = "main"
  /\ \/ /\ ~env.argsOk
        /\ pc' = "exit"
        /\ errors' = TRUE
        /\ UNCHANGED args
     \/ /\ env.argsOk
        /\ args' = IF env.beRustc THEN WithSysroot(args)
                   ELSE WithAnalyzerFlags(WithSysroot(args))
        /\ pc' = IF env.beRustc THEN "rustc" ELSE "config"
        /\ UNCHANGED errors
  /\ UNCHANGED <<env, analysed, exitCode>>

(***************************************************************************)
(* Plain rustc (TimePassesCallbacks): succeeds iff the crate compiles.     *)
(***************************************************************************)
PlainRustc ==
  /\ pc = "rustc"
  /\ pc' = "exit"
  /\ errors' = ~env.frontEndOk
  /\ UNCHANGED <<env, args, analysed, exitCode>>

(***************************************************************************)
(* MirCheckerCallbacks::config: the input must be a local file, otherwise  *)
(* `unreachable!()` panics.                                                *)
(***************************************************************************)
Config ==
  /\ pc = "config"
  /\ pc' = IF env.input = "local" THEN "frontend" ELSE "panicked"
  /\ UNCHANGED <<env, args, errors, analysed, exitCode>>

(***************************************************************************)
(* rustc's front end; after_analysis is reached only when it succeeded.    *)
(***************************************************************************)
FrontEnd ==
  /\ pc = "frontend"
  /\ pc' = IF env.frontEndOk THEN "after_analysis" ELSE "exit"
  /\ errors' = ~env.frontEndOk
  /\ UNCHANGED <<env, args, analysed, exitCode>>

(***************************************************************************)
(* after_analysis -> run_analysis: skip listed sources, build the global   *)
(* context, run the numerical analysis and emit its diagnostics, which     *)
(* are errors under deny_warnings; then Compilation::Continue.             *)
(***************************************************************************)
AnalysisRuns == ~env.skipListed /\ env.contextOk

\* Mutation: the skip list is not consulted.
AfterAnalysisNoSkip ==
  /\ pc = "after_analysis"
  /\ analysed' = env.contextOk
  /\ errors' = (env.contextOk /\ env.deny /\ env.findings)
  /\ pc' = "codegen"
  /\ UNCHANGED <<env, args, exitCode>>

\* Mutation: diagnostics upgraded by deny_warnings do not fail the session.
AfterAnalysisNoDeny ==
  /\ pc = "after_analysis"
  /\ analysed' = AnalysisRuns
  /\ pc' = "codegen"
  /\ UNCHANGED <<env, args, errors, exitCode>>

AfterAnalysis ==
  /\ pc = "after_analysis"
  /\ analysed' = AnalysisRuns
  /\ errors' = (AnalysisRuns /\ env.deny /\ env.findings)
  /\ pc' = "codegen"
  /\ UNCHANGED <<env, args, exitCode>>

(***************************************************************************)
(* rustc continues to code generation and returns Err iff the session has  *)
(* reported an error.                                                      *)
(***************************************************************************)
Codegen ==
  /\ pc = "codegen"
  /\ pc' = "exit"
  /\ UNCHANGED <<env, args, errors, analysed, exitCode>>

(***************************************************************************)
(* The end of main: EXIT_SUCCESS on Ok, EXIT_FAILURE on Err.               *)
(***************************************************************************)
\* Mutation: failure exits with status 2.
ExitStatusTwo ==
  /\ pc = "exit"
  /\ exitCode' = IF errors THEN 2 ELSE 0
  /\ pc' = "exited"
  /\ UNCHANGED <<env, args, errors, analysed>>

Exit ==
  /\ pc = "exit"
  /\ exitCode' = IF errors THEN 1 ELSE 0
  /\ pc' = "exited"
  /\ UNCHANGED <<env, args, errors, analysed>>

(***************************************************************************)
(* A panic that is not a rustc fatal error escapes catch_fatal_errors: the *)
(* process ends with Rust's panic status 101.                              *)
(***************************************************************************)
Panic ==
  /\ pc = "panicked"
  /\ exitCode' = 101
  /\ pc' = "exited"
  /\ UNCHANGED <<env, args, errors, analysed>>

Next == Main \/ PlainRustc \/ Config \/ FrontEnd \/ AfterAnalysis \/ Codegen
          \/ Exit \/ Panic

Spec == Init /\ [][Next]_vars

-----------------------------------------------------------------------------
(***************************************************************************)
(* Every variable has its type.                                            *)
(***************************************************************************)
TypeOK ==
  /\ env \in Envs
  /\ args \in Seq(Tokens)
  /\ pc \in Pcs
  /\ errors \in BOOLEAN
  /\ analysed \in BOOLEAN
  /\ exitCode \in {-1, 0, 1, 101}

(***************************************************************************)
(* When the process has run to its end, the crate was analysed exactly     *)
(* when the driver was not a plain rustc, the command line was read, the   *)
(* input was a local file that compiled, was not skip-listed and got a     *)
(* global context; and then rustc was told to keep the MIR of every crate  *)
(* and to abort on panic (the analysis relies on both).                    *)
(***************************************************************************)
AnalysisScope ==
  pc = "exited" =>
    /\ analysed <=> /\ ~env.beRustc /\ env.argsOk /\ env.input = "local"
                    /\ env.frontEndOk /\ ~env.skipListed /\ env.contextOk
    /\ analysed => Contains(args, "-Zalways_encode_mir")
                    /\ Contains(args, "-Cpanic=abort")

(***************************************************************************)
(* The exit status of a process that ends through main is 0 exactly when   *)
(* the command line was read, the crate compiled and no diagnostic was     *)
(* upgraded to an error by deny_warnings (spec section 6).                 *)
(***************************************************************************)
ExitReflectsErrors ==
  (pc = "exited" /\ exitCode # 101) =>
    (exitCode = 0 <=> /\ env.argsOk /\ env.frontEndOk
                      /\ ~(analysed /\ env.deny /\ env.findings))

(***************************************************************************)
(* Spec section 6: the process exits with 0 or 1, whatever rustc compiles. *)
(***************************************************************************)
ExitCodeContract == pc = "exited" => exitCode \in {0, 1}

SysrootCount(a) ==
  Cardinality({i \in DOMAIN a : a[i] \in {"--sysroot", "--sysroot=PATH"}})

(***************************************************************************)
(* main overrides rustc's default sysroot without giving rustc a second   *)
(* one: the rustc it runs sees at most one sysroot option (rustc refuses   *)
(* an option given twice).                                                 *)
(***************************************************************************)
SysrootSetOnce == pc # "main" => SysrootCount(args) <= 1

=============================================================================
