------------------------------- MODULE Kernel -------------------------------
(***************************************************************************)
(* The kernel around a module that runs: the host functions it calls on    *)
(* the tables (KernelObjects), and the interrupts that are taken between   *)
(* its instructions (Preemption).  No handler of an interrupt touches a    *)
(* table, and a call of a host function that does not wait counts as one   *)
(* instruction.  A fault stops all: the handler of aborts does not return. *)
(***************************************************************************)
EXTENDS KernelObjects, Preemption

kernelVars == <<objectVars, irqVars>>

KernelInit == ObjectsInit /\ IrqInit

HostCall   == At("module") /\ ObjectsNext /\ UNCHANGED irqVars
Interrupts == ~fault /\ IrqNext /\ UNCHANGED objectVars

KernelNext == HostCall \/ Interrupts

KernelSpec == KernelInit /\ [][KernelNext]_kernelVars
=============================================================================
