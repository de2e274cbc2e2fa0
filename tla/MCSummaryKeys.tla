--------------------------- MODULE MCSummaryKeys ---------------------------
(***************************************************************************)
(* Instances of SummaryKeys: core and a user crate, modules num, core and  *)
(* foreign_contracts, three impl blocks per module, one fn name, one       *)
(* closure per fn.  The impl blocks of a num module are those of i8 and,   *)
(* twice, u32; summary_key_str tests only the module name "num", and     *)
(* core::convert::num has impl From<u8> for u32 and                        *)
(* impl From<u16> for u32, both defining `from`.                          *)
(***************************************************************************)
EXTENDS SummaryKeys

MCImplSelf ==
  (0 :> <<"int", "i8">>) @@ (1 :> <<"uint", "u32">>) @@ (2 :> <<"uint", "u32">>)
=============================================================================
