----------------------------- MODULE MCPacketPool -----------------------------
(***************************************************************************)
(* PacketPool for TLC.  Freelists of two overflow when the third of up to  *)
(* four packets is released; addresses are interchangeable.                *)
(***************************************************************************)
EXTENDS PacketPool, TLC

Addresses == Permutations(Packets) \cup Permutations(Payloads)
=============================================================================
