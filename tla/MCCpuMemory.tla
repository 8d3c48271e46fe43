------------------------------ MODULE MCCpuMemory ------------------------------
(***************************************************************************)
(* A CPU and a traffic generator at one memory, with limits scaled down    *)
(* and queues of one packet, so that sends are taken, buffered and         *)
(* refused; four requests are made in all.                                 *)
(***************************************************************************)
EXTENDS CpuMemory, TLC

CONSTANTS cpu, tg
===============================================================================
