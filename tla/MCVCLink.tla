------------------------------- MODULE MCVCLink -------------------------------
(***************************************************************************)
(* VCLink for TLC: two masters share the slave.  Their VCs 0 and 1 have    *)
(* buffers of different sizes at the two ends, so that a VC can be full at *)
(* one end and not at the other; VC 2 exists at neither.                   *)
(***************************************************************************)
EXTENDS VCLink, TLC

MCOutSizes == 0 :> 2 @@ 1 :> 1
MCInSizes == 0 :> 1 @@ 1 :> 2
=============================================================================
