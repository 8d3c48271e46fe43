------------------------------- MODULE MCCpuCache -------------------------------
(***************************************************************************)
(* Two CPUs, a cache and a memory, the topology at the top of README.md.   *)
(***************************************************************************)
EXTENDS CpuCacheMemory, TLC

CONSTANTS cpu0, cpu1
===============================================================================
