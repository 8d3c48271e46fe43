----------------------------- MODULE MCVCLinkStats -----------------------------
(***************************************************************************)
(* VCLinkStats for TLC: two masters and one VC that both ends have; VC 1   *)
(* exists only at the masters, VC 2 at neither end.                        *)
(***************************************************************************)
EXTENDS VCLinkStats, TLC

MCOutSizes == 0 :> 2 @@ 1 :> 1
MCInSizes == 0 :> 1
=============================================================================
