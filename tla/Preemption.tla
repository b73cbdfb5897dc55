----------------------------- MODULE Preemption -----------------------------
(***************************************************************************)
(* How a timer tick is meant to take the CPU from a running WASM module:   *)
(* the virtual timer, the GICv2 CPU interface as gic.asm and               *)
(* virtio_irq.asm use it, irq_entry and proc_schedule_loop                 *)
(* (exceptions.asm), the flag preempt_pending, and the host functions that *)
(* wait for it (host_yield, host_sleep, host_getc).  The model starts when *)
(* the kernel has unmasked interrupts and runs its first module.           *)
(*                                                                         *)
(* The interrupt controller and the timer are hardware, modelled from how  *)
(* the kernel programs them.  The handler runs with interrupts masked, so  *)
(* one interrupt is one action.                                            *)
(***************************************************************************)
EXTENDS Naturals

CONSTANTS
  AckRegister,  \* the register at GICC_BASE + 0: "CTLR" on a GICv2, "IAR" on
                \* the controller gic_ack_irq is written for
  Devices,      \* the VirtIO interrupts that are ever raised
  Calls,        \* the waiting host functions the modules call
  LeafCode      \* may interrupted code hold its return address in x30 only?

Timer      == 27
VirtioIrqs == {48, 49, 50}
Spurious   == 1023

ASSUME BoardAssumption == /\ AckRegister \in {"CTLR", "IAR"}
                          /\ Devices \subseteq VirtioIrqs
                          /\ Calls \subseteq {"yield", "sleep", "getc"}
                          /\ LeafCode \in BOOLEAN

VARIABLES
  timer,      \* CNTV_CTL_EL0: armed (enabled, unmasked) or off
  line,       \* interrupts whose input to the distributor is asserted
  active,     \* interrupts acknowledged and not ended
  preempt,    \* preempt_pending
  uart,       \* a character waits in the UART
  main,       \* where the interrupted program is
  linkLost    \* x30 was overwritten while it held a return address

irqVars == <<timer, line, active, preempt, uart, main, linkLost>>

Irqs == {Timer} \cup Devices

(* module: computing; yield, getc, held: in a loop until the flag is clear *)
(* (held: the one in the loop of host_getc); slept, getcTest: at the tests *)
(* behind a wfi; sleep, getcWfi: at a wfi, before it or stopped in it;     *)
(* sched, toWfi, tick, schedWfi: proc_schedule_loop before its test, on    *)
(* its two branches, and stopped; spin: in proc_schedule, which does not   *)
(* return; wild: after a return to a lost address.                         *)
AtWfi   == {"sleep", "getcWfi"}
MainAt  == AtWfi \cup {"module", "yield", "getc", "held", "slept", "getcTest",
                       "sched", "toWfi", "tick", "schedWfi", "spin", "wild"}

IrqInit == /\ timer = "armed"      \* timer_set_interval(10) in kernel.asm
           /\ line = {}
           /\ active = {}
           /\ preempt = FALSE
           /\ uart = FALSE
           /\ main = "module"
           /\ linkLost = FALSE

-----------------------------------------------------------------------------
(* The hardware.                                                           *)

(* gic_init writes its priorities over the registers from GICD_BASE on, so *)
(* the timer keeps the reset value; virtio_irq_init sets its three.        *)
Priority(i) == IF i = Timer THEN 0 ELSE 128

Deliverable(on, act) ==
  {i \in on \ act : \A a \in act : Priority(i) < Priority(a)}
Signalled == Deliverable(line, active) # {}

(* What a load from GICC_BASE returns.                                     *)
Acked(on, act) ==
  IF AckRegister = "CTLR" THEN {1}
  ELSE IF Deliverable(on, act) = {} THEN {Spurious}
  ELSE {i \in Deliverable(on, act) :
          \A j \in Deliverable(on, act) : Priority(i) <= Priority(j)}

TimerFires == /\ timer = "armed"
              /\ Timer \notin line
              /\ line' = line \cup {Timer}
              /\ UNCHANGED <<timer, active, preempt, uart, main, linkLost>>

DeviceRaises == /\ \E i \in Devices \ line : line' = line \cup {i}
                /\ UNCHANGED <<timer, active, preempt, uart, main, linkLost>>

KeyPressed == /\ ~uart
              /\ uart' = TRUE
              /\ UNCHANGED <<timer, line, active, preempt, main, linkLost>>

-----------------------------------------------------------------------------
(* irq_entry.  gic_ack_irq acknowledges and ends the interrupt it read.    *)

(* irq_timer: the line drops with the timer.                               *)
TimerIrq == /\ timer' = "off"
            /\ line' = line \ {Timer}
            /\ preempt' = TRUE
            /\ UNCHANGED active

(* Wrong on purpose: the SPI number is taken for the interrupt's.          *)
VirtioIrqBySpi ==
  /\ \E second \in Acked(line, active) :
       /\ line' = line \ (IF second \in VirtioIrqs THEN {second} ELSE {})
       /\ active' = active \cup {i - 32 : i \in {second} \cap VirtioIrqs}
  /\ preempt' = TRUE
  /\ UNCHANGED timer

(* virtio_irq_handler acknowledges a second time; meanwhile the timer may  *)
(* have fired.  For a VirtIO interrupt the device drops its line, and the  *)
(* value written back to end the interrupt is no longer the one read.      *)
VirtioIrq ==
  /\ \E on \in {line} \cup (IF timer = "armed" THEN {line \cup {Timer}} ELSE {}) :
       \E second \in Acked(on, active) :
         /\ line' = on \ (IF second \in VirtioIrqs THEN {second} ELSE {})
         /\ active' = active \cup ({second} \cap VirtioIrqs)
  /\ preempt' = TRUE
  /\ UNCHANGED timer

(* The handler saves x0 to x18 and x29, and calls with bl: x30 is lost.    *)
(* It returns behind the wfi it interrupted, or to one not yet executed.   *)
IrqTaken ==
  /\ Signalled
  /\ \E id \in Acked(line, active) :
       IF id = Timer THEN TimerIrq
       ELSE IF id \in VirtioIrqs THEN VirtioIrq
       ELSE UNCHANGED <<timer, line, active, preempt>>
  /\ main' \in CASE main = "sleep"    -> {main, "slept"}
                 [] main = "getcWfi"  -> {main, "getcTest"}
                 [] main = "schedWfi" -> {"sched"}
                 [] OTHER             -> {main}
  /\ linkLost' \in {linkLost, LeafCode /\ main \notin {"sched", "schedWfi",
                                              "toWfi", "tick", "spin", "wild"}}
  /\ UNCHANGED uart

-----------------------------------------------------------------------------
(* The program.  An interrupt that is signalled is taken before the next   *)
(* instruction.                                                            *)

At(p) == main = p /\ ~Signalled

(* Every return of the interrupted function goes through x30.              *)
ReturnTo(p) == /\ main' = IF linkLost THEN "wild" ELSE p
               /\ linkLost' = FALSE

HostYield == /\ At("module") /\ "yield" \in Calls
             /\ preempt' = TRUE
             /\ main' = "yield"
             /\ UNCHANGED <<timer, line, active, uart, linkLost>>

(* host_sleep stops in wfi before its first test.                          *)
HostSleep == /\ At("module") /\ "sleep" \in Calls
             /\ main' = "sleep"
             /\ UNCHANGED <<timer, line, active, preempt, uart, linkLost>>

SleepTest ==
  /\ At("slept")
  /\ \/ preempt /\ preempt' = FALSE /\ ReturnTo("module")
     \/ ~preempt /\ UNCHANGED preempt /\ ReturnTo("module")    \* time is up
     \/ ~preempt /\ UNCHANGED <<preempt, linkLost>> /\ main' = "sleep"
  /\ UNCHANGED <<timer, line, active, uart>>

HostGetc == /\ At("module") /\ "getc" \in Calls
            /\ main' = "getc"
            /\ UNCHANGED <<timer, line, active, preempt, uart, linkLost>>

(* Behind the loop host_yield returns, and host_getc goes on to its test   *)
(* or to its wfi.                                                          *)
LoopEnds == \/ At("yield") /\ ReturnTo("module")
            \/ At("getc") /\ main' = "getcTest" /\ UNCHANGED linkLost
            \/ At("held") /\ main' = "getcWfi" /\ UNCHANGED linkLost

(* Wrong on purpose: the flag is cleared by the function that waits for it. *)
FlagClearedHere == /\ LoopEnds
                   /\ preempt' = FALSE
                   /\ UNCHANGED <<timer, line, active, uart>>

(* While the flag is set host_yield and host_getc wait for the scheduler   *)
(* to clear it.                                                            *)
FlagIsClear == /\ LoopEnds
               /\ ~preempt
               /\ UNCHANGED <<timer, line, active, preempt, uart>>

(* host_getc looks for a character first: with one it returns, whatever    *)
(* the flag says.                                                          *)
GetcTest ==
  /\ At("getcTest")
  /\ \/ uart /\ uart' = FALSE /\ ReturnTo("module")
     \/ /\ ~uart
        /\ main' = IF preempt THEN "held" ELSE "getcWfi"
        /\ UNCHANGED <<uart, linkLost>>
  /\ UNCHANGED <<timer, line, active, preempt>>

(* The last module returns, and the kernel enters proc_schedule_loop.      *)
ModuleEnds == /\ At("module")
              /\ ReturnTo("sched")
              /\ UNCHANGED <<timer, line, active, preempt, uart>>

SchedTest == /\ At("sched")
             /\ main' = IF preempt THEN "tick" ELSE "toWfi"
             /\ UNCHANGED <<timer, line, active, preempt, uart, linkLost>>

SchedWfi == /\ At("toWfi")
            /\ main' = "schedWfi"
            /\ UNCHANGED <<timer, line, active, preempt, uart, linkLost>>

SchedTick == /\ At("tick")
             /\ preempt' = FALSE
             /\ timer' = "armed"
             /\ line' = line \ {Timer}
             /\ main' = "spin"
             /\ UNCHANGED <<active, uart, linkLost>>

Hardware == TimerFires \/ DeviceRaises \/ KeyPressed
Waiting  == SleepTest \/ FlagIsClear \/ GetcTest
Program  == \/ HostYield \/ HostSleep \/ HostGetc \/ ModuleEnds \/ Waiting
            \/ SchedTest \/ SchedWfi \/ SchedTick

IrqNext == Hardware \/ IrqTaken \/ Program

IrqSpec == IrqInit /\ [][IrqNext]_irqVars

(* An armed timer fires, a signalled interrupt is taken, and the CPU goes  *)
(* on executing; nothing obliges a device or a user to act.                *)
FairIrqSpec == /\ IrqSpec
               /\ WF_irqVars(TimerFires) /\ WF_irqVars(IrqTaken)
               /\ WF_irqVars(Program)
-----------------------------------------------------------------------------
IrqTypeOK == /\ timer \in {"armed", "off"}
             /\ line \subseteq Irqs
             /\ active \subseteq Irqs
             /\ preempt \in BOOLEAN
             /\ uart \in BOOLEAN
             /\ main \in MainAt
             /\ linkLost \in BOOLEAN

(* The tick is one-shot: irq_timer switches the timer off and only         *)
(* proc_schedule_loop, on seeing the flag, switches it on again.  So a     *)
(* tick must not be forgotten on the way.                                  *)
TickKept == timer = "off" => preempt

(* Whatever interrupts and waits, only host_sleep can lose a tick: it      *)
(* clears the flag itself.                                                 *)
TickLostInSleepOnly == [][TickKept /\ ~TickKept' => main = "slept"]_irqVars

(* gic.asm, line 118: the interrupt is acknowledged, so a timer interrupt  *)
(* ends in the preemption flag.                                            *)
TickIsDelivered == Timer \in line ~> preempt

(* wasm_host.c, line 1534: host_yield returns control to the scheduler.    *)
YieldGoesOn == main = "yield" ~> main # "yield"

(* exceptions.asm, line 203: once the modules are done, a flag that is set *)
(* makes the loop call proc_schedule.                                      *)
TickIsScheduled == preempt /\ main \in {"sched", "toWfi", "schedWfi"}
                     ~> main = "spin"
=============================================================================
