---------------------------- MODULE DriverProofs ----------------------------
(***************************************************************************)
(* Proofs about the mir-checker process (Driver), for every set of command *)
(* lines and inputs that satisfies DriverAssumption.                       *)
(***************************************************************************)
EXTENDS Driver, SequenceTheorems, TLAPS

(***************************************************************************)
(* main's argument rewriting keeps a command line a sequence of tokens.    *)
(***************************************************************************)
LEMMA WithSysrootType ==
  ASSUME NEW a \in Seq(Tokens) PROVE WithSysroot(a) \in Seq(Tokens)
<1>1. <<"--sysroot", "PATH">> \in Seq(Tokens)
  BY DEF Tokens
<1>. QED
  BY <1>1, ConcatProperties DEF WithSysroot

(***************************************************************************)
(* Whatever the user passed, the command line main hands to rustc with     *)
(* MirCheckerCallbacks asks for the MIR of every crate and for panics that *)
(* abort: `-Zalways_encode_mir` is added when absent, `-Cpanic=abort`      *)
(* always.                                                                 *)
(***************************************************************************)
LEMMA AnalyzerFlagsSet ==
  ASSUME NEW a \in Seq(Tokens)
  PROVE  /\ WithAnalyzerFlags(a) \in Seq(Tokens)
         /\ Contains(WithAnalyzerFlags(a), "-Zalways_encode_mir")
         /\ Contains(WithAnalyzerFlags(a), "-Cpanic=abort")
<1> DEFINE b == IF Contains(a, "-Zalways_encode_mir") THEN a
                ELSE Append(a, "-Zalways_encode_mir")
           c == <<"-Cpanic=abort">>
<1>1. WithAnalyzerFlags(a) = b \o c
  BY DEF WithAnalyzerFlags
<1>2. /\ b \in Seq(Tokens)
      /\ Contains(b, "-Zalways_encode_mir")
  <2>1. CASE Contains(a, "-Zalways_encode_mir")
    BY <2>1
  <2>2. CASE ~Contains(a, "-Zalways_encode_mir")
    <3>1. /\ Append(a, "-Zalways_encode_mir") \in Seq(Tokens)
          /\ Len(Append(a, "-Zalways_encode_mir")) = Len(a) + 1
          /\ Append(a, "-Zalways_encode_mir")[Len(a) + 1] = "-Zalways_encode_mir"
      BY AppendProperties DEF Tokens
    <3>2. DOMAIN Append(a, "-Zalways_encode_mir") = 1..Len(a) + 1
      BY <3>1, LenProperties
    <3>. QED
      BY <2>2, <3>1, <3>2 DEF Contains
  <2>. QED
    BY <2>1, <2>2
<1>3. c \in Seq(Tokens) /\ Len(c) = 1 /\ c[1] = "-Cpanic=abort"
  BY DEF Tokens
<1>4. /\ b \o c \in Seq(Tokens)
      /\ Len(b \o c) = Len(b) + 1
      /\ \A i \in 1..Len(b) + 1 :
           (b \o c)[i] = IF i <= Len(b) THEN b[i] ELSE c[i - Len(b)]
  BY <1>2, <1>3, ConcatProperties
<1>5. DOMAIN b = 1..Len(b) /\ Len(b) \in Nat /\ DOMAIN (b \o c) = 1..Len(b) + 1
  BY <1>2, <1>4, LenProperties
<1>6. Contains(b \o c, "-Zalways_encode_mir")
  <2>1. PICK i \in DOMAIN b : b[i] = "-Zalways_encode_mir"
    BY <1>2 DEF Contains
  <2>. QED
    BY <2>1, <1>4, <1>5 DEF Contains
<1>7. Contains(b \o c, "-Cpanic=abort")
  BY <1>3, <1>4, <1>5 DEF Contains
<1>. QED
  BY <1>1, <1>4, <1>6, <1>7

-----------------------------------------------------------------------------
(***************************************************************************)
(* The inductive invariant.  Good is what makes the process succeed; the  *)
(* stages of pc record what has been established on the way to            *)
(* after_analysis: the driver is the checker, the command line was read   *)
(* and rewritten, the input is a local file, the crate type-checked.       *)
(***************************************************************************)
Good == env.argsOk /\ env.frontEndOk /\ ~(analysed /\ env.deny /\ env.findings)

Scope == /\ ~env.beRustc /\ env.argsOk /\ env.input = "local"
         /\ env.frontEndOk /\ ~env.skipListed /\ env.contextOk

Flagged == Contains(args, "-Zalways_encode_mir") /\ Contains(args, "-Cpanic=abort")

DInv ==
  /\ TypeOK
  /\ pc \in {"main", "rustc", "config", "frontend", "after_analysis"} =>
       ~analysed /\ ~errors
  /\ pc \in {"config", "frontend", "after_analysis", "codegen"} =>
       ~env.beRustc /\ env.argsOk /\ Flagged
  /\ pc \in {"frontend", "after_analysis", "codegen"} => env.input = "local"
  /\ pc \in {"after_analysis", "codegen"} => env.frontEndOk
  /\ pc = "rustc" => env.beRustc /\ env.argsOk
  /\ pc = "codegen" => (errors <=> analysed /\ env.deny /\ env.findings)
  /\ pc \in {"codegen", "exit", "exited"} => (analysed <=> Scope)
  /\ analysed => Flagged
  /\ pc = "exit" => (errors <=> ~Good)
  /\ pc # "exited" => exitCode = -1
  /\ pc = "exited" /\ exitCode # 101 => (exitCode = 0 <=> Good)
  /\ pc = "panicked" => ~analysed /\ env.input # "local"
  /\ pc = "exited" /\ exitCode = 101 => ~analysed /\ env.input # "local"

LEMMA DInvInit == Init => DInv
BY DriverAssumption DEF Init, DInv, TypeOK, Pcs

LEMMA DInvStep == DInv /\ [Next]_vars => DInv'
<1> SUFFICES ASSUME DInv, [Next]_vars PROVE DInv'
  OBVIOUS
<1>1. CASE Main
  <2>1. CASE ~env.argsOk
    BY <1>1, <2>1 DEF Main, DInv, TypeOK, Pcs, Good, Scope
  <2>2. CASE env.argsOk /\ env.beRustc
    <3>1. args' \in Seq(Tokens)
      BY <1>1, <2>2, WithSysrootType DEF Main, DInv, TypeOK
    <3>. QED
      BY <1>1, <2>2, <3>1 DEF Main, DInv, TypeOK, Pcs
  <2>3. CASE env.argsOk /\ ~env.beRustc
    <3>1. WithSysroot(args) \in Seq(Tokens)
      BY WithSysrootType DEF DInv, TypeOK
    <3>2. args' \in Seq(Tokens) /\ Flagged'
      BY <1>1, <2>3, <3>1, AnalyzerFlagsSet DEF Main, Flagged
    <3>. QED
      BY <1>1, <2>3, <3>2 DEF Main, DInv, TypeOK, Pcs
  <2>. QED
    BY <2>1, <2>2, <2>3
<1>2. CASE PlainRustc
  BY <1>2 DEF PlainRustc, DInv, TypeOK, Pcs, Good, Scope, Flagged
<1>3. CASE Config
  BY <1>3 DEF Config, DInv, TypeOK, Pcs, Flagged
<1>4. CASE FrontEnd
  BY <1>4 DEF FrontEnd, DInv, TypeOK, Pcs, Good, Scope, Flagged
<1>5. CASE AfterAnalysis
  BY <1>5 DEF AfterAnalysis, AnalysisRuns, DInv, TypeOK, Pcs, Scope, Flagged
<1>6. CASE Codegen
  BY <1>6 DEF Codegen, DInv, TypeOK, Pcs, Good, Scope, Flagged
<1>7. CASE Exit
  BY <1>7 DEF Exit, DInv, TypeOK, Pcs, Good, Scope, Flagged
<1>8. CASE Panic
  BY <1>8 DEF Panic, DInv, TypeOK, Pcs, Good, Scope, Flagged
<1>9. CASE UNCHANGED vars
  BY <1>9 DEF vars, DInv, TypeOK, Good, Scope, Flagged
<1>. QED
  BY <1>1, <1>2, <1>3, <1>4, <1>5, <1>6, <1>7, <1>8, <1>9 DEF Next

(***************************************************************************)
(* For every command line and input, every state of the process has its    *)
(* type: in particular main's argument rewriting keeps rustc_args a list   *)
(* of tokens, and the exit status is -1 (running), 0, 1 or 101.            *)
(***************************************************************************)
THEOREM DriverTypeCorrect == Spec => []TypeOK
<1>1. DInv => TypeOK
  BY DEF DInv
<1>. QED
  BY DInvInit, DInvStep, <1>1, PTL DEF Spec

(***************************************************************************)
(* For every command line and input, a process that ran to its end         *)
(* analysed the crate exactly when main, config and the front end let      *)
(* after_analysis run it, and then rustc ran with -Zalways_encode_mir and  *)
(* -Cpanic=abort (the run driver checks AnalysisScope on small instances). *)
(***************************************************************************)
THEOREM AnalysisScopeHolds == Spec => []AnalysisScope
<1>1. DInv => AnalysisScope
  BY DEF DInv, AnalysisScope, Scope, Flagged
<1>. QED
  BY DInvInit, DInvStep, <1>1, PTL DEF Spec

(***************************************************************************)
(* For every command line and input, a process that ends through main      *)
(* exits 0 exactly when the command line was read, the crate compiled and  *)
(* no diagnostic was upgraded to an error by deny_warnings.               *)
(***************************************************************************)
THEOREM ExitReflectsErrorsHolds == Spec => []ExitReflectsErrors
<1>1. DInv => ExitReflectsErrors
  BY DEF DInv, ExitReflectsErrors, Good
<1>. QED
  BY DInvInit, DInvStep, <1>1, PTL DEF Spec

=============================================================================
