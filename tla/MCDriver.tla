------------------------------ MODULE MCDriver ------------------------------
(***************************************************************************)
(* Instances of Driver: command lines without a sysroot, with one given as *)
(* two tokens or as one `--sysroot=PATH` token, and with the MIR flag      *)
(* already present.                                                        *)
(***************************************************************************)
EXTENDS Driver

MCUserArgs == {<<"src">>,
               <<"src", "--sysroot", "PATH">>,
               <<"src", "--sysroot=PATH">>,
               <<"src", "-Zalways_encode_mir">>}
=============================================================================
