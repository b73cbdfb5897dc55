---------------------------- MODULE MCPreemption ----------------------------
(* Preemption with an acknowledging interrupt controller, for TLC.         *)
EXTENDS Preemption

NoDevices  == {}
NetDevice  == {48}
TwoDevices == {48, 49}
AllCalls   == {"yield", "sleep", "getc"}
JustYield  == {"yield"}
NoCalls    == {}
=============================================================================
