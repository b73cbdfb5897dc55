-------------------------- MODULE PreemptionProofs --------------------------
(* What can be said of the preemption flag on every board.                 *)
EXTENDS Preemption, TLAPS

(* Whatever a load from the interface returns, only lines and devices that *)
(* exist are ever marked: the second acknowledgement adds nothing else.    *)
THEOREM TypeCorrect == IrqSpec => []IrqTypeOK
<1>1. IrqInit => IrqTypeOK
  BY DEF IrqInit, IrqTypeOK, MainAt, AtWfi
<1>2. IrqTypeOK /\ [IrqNext]_irqVars => IrqTypeOK'
  <2> SUFFICES ASSUME IrqTypeOK, [IrqNext]_irqVars
               PROVE  IrqTypeOK'
    OBVIOUS
  <2> USE DEF IrqTypeOK, Irqs
  <2>1. CASE Hardware
    BY <2>1 DEF Hardware, TimerFires, DeviceRaises, KeyPressed
  <2>2. CASE IrqTaken
    <3>1. PICK id \in Acked(line, active) :
            IF id = Timer THEN TimerIrq
            ELSE IF id \in VirtioIrqs THEN VirtioIrq
            ELSE UNCHANGED <<timer, line, active, preempt>>
      BY <2>2 DEF IrqTaken
    <3>2. CASE VirtioIrq
      <4>1. PICK on \in {line} \cup (IF timer = "armed" THEN {line \cup {Timer}}
                                     ELSE {}) :
              \E second \in Acked(on, active) :
                /\ line' = on \ (IF second \in VirtioIrqs THEN {second} ELSE {})
                /\ active' = active \cup ({second} \cap VirtioIrqs)
        BY <3>2 DEF VirtioIrq
      <4>2. PICK second \in Acked(on, active) :
                /\ line' = on \ (IF second \in VirtioIrqs THEN {second} ELSE {})
                /\ active' = active \cup ({second} \cap VirtioIrqs)
        BY <4>1
      <4>3. on \subseteq Irqs
        BY DEF Irqs
      <4>4. second \in VirtioIrqs => second \in on
        BY DEF Acked, Deliverable, VirtioIrqs, Spurious
      <4>5. line' \subseteq Irqs /\ active' \subseteq Irqs
        BY <4>2, <4>3, <4>4
      <4> QED
        BY <2>2, <3>2, <4>5 DEF IrqTaken, VirtioIrq, MainAt, AtWfi
    <3>3. CASE TimerIrq
      BY <2>2, <3>3 DEF IrqTaken, TimerIrq, MainAt, AtWfi
    <3>4. CASE UNCHANGED <<timer, line, active, preempt>>
      BY <2>2, <3>4 DEF IrqTaken, MainAt, AtWfi
    <3> QED
      BY <3>1, <3>2, <3>3, <3>4
  <2>3. CASE Program
    BY <2>3 DEF Program, Waiting, HostYield, HostSleep, HostGetc, ModuleEnds,
                SleepTest, FlagIsClear, LoopEnds, GetcTest, At, SchedTest, SchedWfi, SchedTick,
                ReturnTo, MainAt, AtWfi
  <2>4. CASE UNCHANGED irqVars
    BY <2>4 DEF irqVars
  <2> QED
    BY <2>1, <2>2, <2>3, <2>4 DEF IrqNext
<1> QED
  BY <1>1, <1>2, PTL DEF IrqSpec

(* Whatever the board, the devices and the calls: no step but the test in  *)
(* host_sleep forgets a tick, on which every later tick depends.           *)
THEOREM LostInSleepOnly == IrqSpec => TickLostInSleepOnly
<1>1. [IrqNext]_irqVars => [TickKept /\ ~TickKept' => main = "slept"]_irqVars
  <2> SUFFICES ASSUME IrqNext, TickKept, main # "slept"
               PROVE  TickKept'
    BY DEF irqVars
  <2> USE DEF TickKept
  <2>1. CASE Hardware
    BY <2>1 DEF Hardware, TimerFires, DeviceRaises, KeyPressed
  <2>2. CASE IrqTaken
    BY <2>2 DEF IrqTaken, TimerIrq, VirtioIrq
  <2>3. CASE Program
    BY <2>3 DEF Program, Waiting, HostYield, HostSleep, HostGetc, ModuleEnds,
                SleepTest, FlagIsClear, LoopEnds, GetcTest, At, SchedTest, SchedWfi, SchedTick
  <2> QED
    BY <2>1, <2>2, <2>3 DEF IrqNext
<1> QED
  BY <1>1, PTL DEF IrqSpec, TickLostInSleepOnly

(* Modules that never sleep never reach the one test that clears the flag  *)
(* with the timer off.                                                     *)
Awake == main \notin {"sleep", "slept"}

(* As long as no module calls host_sleep, a tick that was delivered is     *)
(* kept until proc_schedule_loop has armed the timer again: whatever the   *)
(* interrupt controller answers, whichever devices interrupt, and whether  *)
(* or not return addresses get lost.                                       *)
THEOREM TickNotForgotten ==
  ASSUME "sleep" \notin Calls
  PROVE  IrqSpec => []TickKept
<1> DEFINE IInv == TickKept /\ Awake
<1>1. IrqInit => IInv
  BY DEF IrqInit, TickKept, Awake
<1>2. IInv /\ [IrqNext]_irqVars => IInv'
  <2> SUFFICES ASSUME IInv, [IrqNext]_irqVars
               PROVE  TickKept' /\ Awake'
    OBVIOUS
  <2> USE DEF TickKept, Awake
  <2>1. CASE Hardware
    BY <2>1 DEF Hardware, TimerFires, DeviceRaises, KeyPressed
  <2>2. CASE IrqTaken
    <3>1. TickKept'
      BY <2>2 DEF IrqTaken, TimerIrq, VirtioIrq
    <3>2. Awake'
      BY <2>2 DEF IrqTaken
    <3> QED
      BY <3>1, <3>2
  <2>3. CASE HostYield \/ ModuleEnds
    BY <2>3 DEF HostYield, ModuleEnds, At, ReturnTo
  <2>4. CASE HostSleep \/ SleepTest
    BY <2>4 DEF HostSleep, SleepTest, At
  <2>5. CASE HostGetc \/ FlagIsClear \/ GetcTest
    BY <2>5 DEF HostGetc, FlagIsClear, LoopEnds, GetcTest, At, ReturnTo
  <2>6. CASE SchedTest \/ SchedWfi \/ SchedTick
    BY <2>6 DEF SchedTest, SchedWfi, SchedTick, At
  <2>7. CASE UNCHANGED irqVars
    BY <2>7 DEF irqVars
  <2> QED
    BY <2>1, <2>2, <2>3, <2>4, <2>5, <2>6, <2>7 DEF IrqNext, Program, Waiting
<1> QED
  BY <1>1, <1>2, PTL DEF IrqSpec
=============================================================================
