------------------------------ MODULE MCKernel ------------------------------
(* The kernel in small, for TLC.                                           *)
EXTENDS Kernel, MCKernelObjects, MCPreemption

(* A host call is one instruction between two interrupts and an interrupt  *)
(* reads no table, so the behaviours in which one of the two is all that   *)
(* happens show all that each can do.                                      *)
CallsOnly      == MCNext /\ IrqInit /\ UNCHANGED irqVars
InterruptsOnly == ObjectsInit /\ Interrupts

MCKernelSpec == KernelInit /\ [][CallsOnly \/ InterruptsOnly]_kernelVars
=============================================================================
