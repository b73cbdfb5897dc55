------------------------ MODULE ModuleRuntimeProofs -------------------------
(***************************************************************************)
(* The slot table's invariants for every number of slots and of loads, and *)
(* the proof that the table implements RunQueue; then the command lines    *)
(* over it.                                                                *)
(***************************************************************************)
EXTENDS CommandLines, TLAPS

USE DEF First, InState, WithId, Slots, Ids, States, SlotRec, NoCall, InCall,
        KernelPhases

(* What is past: the runtimes of the call and of the trapped modules come  *)
(* from loads already made.                                                *)
HistoryIsPast == /\ call.rt < nextId
                 /\ \A r \in trapped : r < nextId

IInv == /\ TypeOK
        /\ IdsDistinct
        /\ RuntimesDistinct
        /\ RunningIsCalledOrTrapped
        /\ ReadyNeverEntered
        /\ HistoryIsPast

-----------------------------------------------------------------------------
(* Every action but those that start or end a call changes at most one     *)
(* slot.  The new record keeps the identifier and the runtime of the old   *)
(* one, drops the runtime, or takes the identifier next_module_id had.     *)
UpdatesSlot(s, r) ==
  /\ table' = [table EXCEPT ![s] = r]
  /\ nextId' \in {nextId, nextId + 1} /\ nextId' \in 1 .. MaxLoads + 1
  /\ r.id = table[s].id \/ (r.id = nextId /\ nextId' = nextId + 1)
  /\ r.rt \in {table[s].rt, 0} \/ (r.rt = nextId /\ nextId' = nextId + 1)
  /\ r.state = "READY" => r = table[s] \/ r.rt = nextId
  /\ r.state = "RUNNING" => r = table[s]
  /\ kernel' \in KernelPhases
  /\ UNCHANGED <<currentId, call, trapped>>

LEMMA SlotUpdate ==
  ASSUME IInv, NEW s \in Slots, NEW r \in SlotRec, UpdatesSlot(s, r)
  PROVE  IInv'
<1>1. TypeOK'
  BY DEF UpdatesSlot, IInv, TypeOK
<1>a. /\ table'[s] = r
      /\ \A t \in Slots \ {s} : table'[t] = table[t]
      /\ nextId \in Nat /\ nextId' \in Nat /\ nextId <= nextId'
  BY DEF UpdatesSlot, IInv, TypeOK
<1>b. \A t \in Slots : table[t].id \in Nat /\ table[t].rt \in Nat
  BY DEF IInv, TypeOK, SlotRec, Ids
<1>2. IdsDistinct'
  <2>1. /\ r.id < nextId'
        /\ \A t \in Slots \ {s} : table[t].id = r.id => r.id = 0
    BY <1>a, <1>b DEF UpdatesSlot, IInv, IdsDistinct
  <2>2. \A t \in Slots \ {s} : table[t].id < nextId'
    BY <1>a, <1>b DEF IInv, IdsDistinct
  <2> QED
    BY <1>a, <2>1, <2>2 DEF IInv, IdsDistinct
<1>3. RuntimesDistinct'
  <2>1. /\ r.rt < nextId'
        /\ \A t \in Slots \ {s} : table[t].rt = r.rt => r.rt = 0
    <3>1. CASE r.rt = nextId /\ nextId' = nextId + 1
      BY <1>a, <1>b, <3>1 DEF IInv, RuntimesDistinct
    <3>2. CASE r.rt \in {table[s].rt, 0}
      BY <1>a, <1>b, <3>2 DEF IInv, TypeOK, RuntimesDistinct
    <3> QED
      BY <3>1, <3>2 DEF UpdatesSlot
  <2>2. \A t \in Slots \ {s} : table[t].rt < nextId'
    BY <1>a, <1>b DEF IInv, RuntimesDistinct
  <2> QED
    BY <1>a, <2>1, <2>2 DEF IInv, RuntimesDistinct
<1>4. RunningIsCalledOrTrapped'
  BY DEF UpdatesSlot, IInv, TypeOK, RunningIsCalledOrTrapped
<1>5. ReadyNeverEntered'
  BY DEF UpdatesSlot, IInv, TypeOK, ReadyNeverEntered, HistoryIsPast
<1>6. HistoryIsPast'
  BY DEF UpdatesSlot, IInv, TypeOK, HistoryIsPast
<1> QED
  BY <1>1, <1>2, <1>3, <1>4, <1>5, <1>6 DEF IInv

(* A load into slot s, whose record before the load is old.                *)
LEMMA LoadedSlotType ==
  ASSUME TypeOK, NEW old \in SlotRec, NEW name \in Names,
         NEW result \in {"magic", "heap", "fail", "ok"},
         result # "magic" => nextId <= MaxLoads
  PROVE  /\ LoadedSlot(old, name, result) \in SlotRec
         /\ NextIdAfter(result) \in {nextId, nextId + 1}
         /\ NextIdAfter(result) \in 1 .. MaxLoads + 1
  BY BoundsAssumption DEF TypeOK, LoadedSlot, NextIdAfter

LEMMA InitIInv == Init => IInv
  BY BoundsAssumption DEF Init, IInv, TypeOK, IdsDistinct, RuntimesDistinct,
     RunningIsCalledOrTrapped, ReadyNeverEntered, HistoryIsPast, Names

-----------------------------------------------------------------------------
(* LoadInit, HostSpawn and HostProcRestart load over the slot as it is.    *)
LEMMA LoadUpdates ==
  ASSUME IInv, NEW s \in Slots, NEW name \in Names, NEW result,
         LoadModuleInternal(s, table[s], name, result),
         UNCHANGED <<currentId, call, trapped>>, kernel' \in KernelPhases
  PROVE  \E r \in SlotRec : UpdatesSlot(s, r)
<1> DEFINE r == LoadedSlot(table[s], name, result)
<1>1. result \in {"magic", "heap", "fail", "ok"}
  BY DEF LoadModuleInternal, Results
<1>2. TypeOK /\ table[s] \in SlotRec /\ nextId \in Nat \ {0}
  BY DEF IInv, TypeOK
<1>3. /\ r \in SlotRec
      /\ nextId' \in {nextId, nextId + 1}
      /\ nextId' \in 1 .. MaxLoads + 1
  BY <1>1, <1>2, LoadedSlotType DEF LoadModuleInternal
<1>4. table' = [table EXCEPT ![s] = r]
  BY DEF LoadModuleInternal
<1>5. /\ r.id = table[s].id \/ (r.id = nextId /\ nextId' = nextId + 1)
      /\ r.rt \in {table[s].rt, 0} \/ (r.rt = nextId /\ nextId' = nextId + 1)
      /\ r.state = "READY" => r = table[s] \/ r.rt = nextId
      /\ r.state = "RUNNING" => r = table[s]
  BY <1>1, <1>2 DEF LoadedSlot, LoadModuleInternal, NextIdAfter
<1> QED
  BY <1>3, <1>4, <1>5 DEF UpdatesSlot

(* host_exit and host_proc_kill mark a slot exited.                        *)
LEMMA MarkUpdates ==
  ASSUME IInv, NEW s \in Slots, table' = [table EXCEPT ![s].state = "EXITED"],
         UNCHANGED <<nextId, currentId, call, trapped>>,
         kernel' \in KernelPhases
  PROVE  \E r \in SlotRec : UpdatesSlot(s, r)
<1> DEFINE r == [table[s] EXCEPT !.state = "EXITED"]
<1>1. table[s] \in SlotRec /\ nextId \in 1 .. MaxLoads + 1
  BY DEF IInv, TypeOK
<1>2. r \in SlotRec /\ table' = [table EXCEPT ![s] = r]
  BY <1>1
<1>3. r.id = table[s].id /\ r.rt = table[s].rt /\ r.state = "EXITED"
  BY <1>1
<1> QED
  BY <1>1, <1>2, <1>3 DEF UpdatesSlot

LEMMA ReloadUpdates ==
  ASSUME IInv, NEW s \in Slots, HostModuleReload(s)
  PROVE  \E r \in SlotRec : UpdatesSlot(s, r)
<1> DEFINE freed == [state |-> "FREE", id |-> table[s].id,
                     name |-> table[s].name, rt |-> 0]
<1>1. PICK result \in {"magic", "heap", "fail", "ok"} :
        /\ result # "magic" => nextId <= MaxLoads
        /\ table' = [table EXCEPT ![s] =
             IF result = "ok"
             THEN [LoadedSlot(freed, table[s].name, result)
                     EXCEPT !.id = table[s].id]
             ELSE LoadedSlot(freed, table[s].name, result)]
        /\ nextId' = NextIdAfter(result)
  BY DEF HostModuleReload, Results
<1> DEFINE loaded == LoadedSlot(freed, table[s].name, result)
           r == IF result = "ok" THEN [loaded EXCEPT !.id = table[s].id]
                ELSE loaded
<1>2. /\ TypeOK
      /\ table[s] \in SlotRec
      /\ nextId \in Nat \ {0}
      /\ table[s].name \in Names
  BY DEF IInv, TypeOK
<1>3. freed \in SlotRec /\ freed.id = table[s].id /\ freed.rt = 0
        /\ freed.state = "FREE"
  BY <1>2, BoundsAssumption
<1>4. /\ loaded \in SlotRec
      /\ nextId' \in {nextId, nextId + 1}
      /\ nextId' \in 1 .. MaxLoads + 1
  BY <1>1, <1>2, <1>3, LoadedSlotType
<1>5. r \in SlotRec
  BY <1>2, <1>4
<1>6. /\ r.id = table[s].id \/ (r.id = nextId /\ nextId' = nextId + 1)
      /\ r.rt = 0 \/ (r.rt = nextId /\ nextId' = nextId + 1)
      /\ r.state = "READY" => r.rt = nextId
      /\ r.state # "RUNNING"
  BY <1>1, <1>2, <1>3 DEF LoadedSlot, NextIdAfter
<1>7. UNCHANGED <<currentId, call, trapped>> /\ kernel' \in KernelPhases
  BY <1>2 DEF HostModuleReload, TypeOK
<1>8. table' = [table EXCEPT ![s] = r]
  BY <1>1
<1> HIDE DEF r
<1> QED
  BY <1>4, <1>5, <1>6, <1>7, <1>8 DEF UpdatesSlot

(* The four kinds of step there are.                                       *)
TableUnchanged == /\ UNCHANGED <<table, nextId, currentId, call, trapped>>
                  /\ kernel' \in KernelPhases

LEMMA StepKinds ==
  ASSUME IInv, [Next]_vars
  PROVE  \/ RunFirstReady
         \/ CallEnds
         \/ TableUnchanged
         \/ \E s \in Slots : \E r \in SlotRec : UpdatesSlot(s, r)
<1>0. TypeOK
  BY DEF IInv
<1>1. CASE LoadInit
  <2>1. PICK s \in Slots, result \in Results(Legacy) :
          /\ LoadModuleInternal(s, table[s], Legacy, result)
          /\ kernel' \in KernelPhases
    BY <1>1 DEF LoadInit
  <2> QED
    BY <1>1, <2>1, LoadUpdates DEF LoadInit, Names
<1>2. CASE ReadyQueueEmpty \/ ProcSchedule \/ LoadHangs
  BY <1>2 DEF ReadyQueueEmpty, ProcSchedule, LoadHangs, TableUnchanged,
     KernelPhases
<1>3. ASSUME NEW name \in Registry, HostSpawn(name)
      PROVE  \E s \in Slots : \E r \in SlotRec : UpdatesSlot(s, r)
  <2>1. PICK s \in Slots, result \in Results(name) :
          LoadModuleInternal(s, table[s], name, result)
    BY <1>3 DEF HostSpawn
  <2> QED
    BY <1>0, <1>3, <2>1, LoadUpdates DEF HostSpawn, Names, TypeOK
<1>4. CASE HostExit \/ WasiProcExit
  <2>1. /\ UNCHANGED <<nextId, currentId, call, trapped>>
        /\ kernel' \in KernelPhases
    BY <1>0, <1>4 DEF HostExit, WasiProcExit, TypeOK
  <2>2. CASE currentId \in Slots /\ table[currentId].state # "FREE"
    <3>1. table' = [table EXCEPT ![currentId].state = "EXITED"]
      BY <1>4, <2>2 DEF HostExit, WasiProcExit, MarkCurrentExited
    <3> QED
      BY <2>1, <2>2, <3>1, MarkUpdates
  <2>3. CASE ~(currentId \in Slots /\ table[currentId].state # "FREE")
    BY <1>4, <2>1, <2>3
       DEF HostExit, WasiProcExit, MarkCurrentExited, TableUnchanged
  <2> QED
    BY <2>2, <2>3
<1>5. ASSUME NEW id \in Ids, HostProcKill(id)
      PROVE  \E s \in Slots : \E r \in SlotRec : UpdatesSlot(s, r)
  <2>1. PICK s \in Slots : table' = [table EXCEPT ![s].state = "EXITED"]
    BY <1>5 DEF HostProcKill
  <2> QED
    BY <1>0, <1>5, <2>1, MarkUpdates DEF HostProcKill, TypeOK
<1>6. ASSUME NEW id \in Ids, HostProcRestart(id)
      PROVE  \E s \in Slots : \E r \in SlotRec : UpdatesSlot(s, r)
  <2>1. PICK s \in Slots : \E result \in Results(table[s].name) :
          /\ table[s].name \in Registry
          /\ LoadModuleInternal(s, table[s], table[s].name, result)
    BY <1>6 DEF HostProcRestart
  <2> QED
    BY <1>0, <1>6, <2>1, LoadUpdates DEF HostProcRestart, Names, TypeOK
<1>7. CASE UNCHANGED vars
  BY <1>0, <1>7 DEF vars, TypeOK, TableUnchanged
<1> QED
  BY <1>1, <1>2, <1>3, <1>4, <1>5, <1>6, <1>7, ReloadUpdates
     DEF Next, KernelStep, CallEnds, HostCall

LEMMA NextIInv == IInv /\ [Next]_vars => IInv'
<1> SUFFICES ASSUME IInv, [Next]_vars PROVE IInv'
  OBVIOUS
<1>0. TypeOK
  BY DEF IInv
<1>1. ASSUME NEW s \in Slots, NEW r \in SlotRec, UpdatesSlot(s, r)
      PROVE  IInv'
  BY <1>1, SlotUpdate
<1>2. CASE RunFirstReady
  <2>1. PICK s \in Slots :
          /\ table[s].state = "READY"
          /\ table' = [table EXCEPT ![s].state = "RUNNING"]
          /\ currentId' \in Ids
          /\ call' = [slot |-> s, rt |-> table[s].rt]
    BY <1>0, <1>2 DEF RunFirstReady, RunModule, TypeOK
  <2>2. /\ call = NoCall
        /\ UNCHANGED <<nextId, kernel, trapped>>
        /\ table[s] \in SlotRec
        /\ table[s].rt \in Ids \ {0}
    BY <1>0, <1>2, <2>1 DEF RunFirstReady, TypeOK, IInv, ReadyNeverEntered
  <2>3. TypeOK'
    BY <1>0, <2>1, <2>2 DEF TypeOK
  <2>4. IdsDistinct' /\ RuntimesDistinct'
    BY <1>0, <2>1, <2>2 DEF TypeOK, IInv, IdsDistinct, RuntimesDistinct
  <2>5. RunningIsCalledOrTrapped'
    BY <1>0, <2>1, <2>2 DEF TypeOK, IInv, RunningIsCalledOrTrapped
  <2>6. ReadyNeverEntered'
    BY <1>0, <2>1, <2>2 DEF TypeOK, IInv, ReadyNeverEntered, RuntimesDistinct
  <2>7. HistoryIsPast'
    BY <1>0, <2>1, <2>2 DEF TypeOK, IInv, HistoryIsPast, RuntimesDistinct
  <2> QED
    BY <2>3, <2>4, <2>5, <2>6, <2>7 DEF IInv
<1>3. CASE CallReturns
  <2>1. /\ call' = NoCall
        /\ kernel' = "ready"
        /\ call.slot \in Slots
        /\ UNCHANGED <<nextId, currentId, trapped>>
    BY <1>0, <1>3 DEF CallReturns, TypeOK
  <2>2. CASE table[call.slot].state = "RUNNING"
    <3>1. table' = [table EXCEPT ![call.slot].state = "EXITED"]
      BY <1>3, <2>2 DEF CallReturns
    <3> QED
      BY <1>0, <2>1, <3>1 DEF IInv, TypeOK, IdsDistinct, RuntimesDistinct,
         RunningIsCalledOrTrapped, ReadyNeverEntered, HistoryIsPast
  <2>3. CASE table[call.slot].state # "RUNNING"
    <3>1. table' = table
      BY <1>3, <2>3 DEF CallReturns
    <3> QED
      BY <1>0, <2>1, <2>3, <3>1 DEF IInv, TypeOK, IdsDistinct,
         RuntimesDistinct, RunningIsCalledOrTrapped, ReadyNeverEntered,
         HistoryIsPast
  <2> QED
    BY <2>2, <2>3
<1>4. CASE CallTraps
  <2>1. /\ call' = NoCall
        /\ kernel' \in KernelPhases
        /\ trapped' = trapped \cup {call.rt}
        /\ call.rt \in Ids \ {0}
        /\ UNCHANGED <<table, nextId, currentId>>
    BY <1>0, <1>4 DEF CallTraps, TypeOK
  <2>2. TypeOK'
    BY <1>0, <2>1 DEF TypeOK
  <2>3. IdsDistinct' /\ RuntimesDistinct'
    BY <2>1 DEF IInv, IdsDistinct, RuntimesDistinct
  <2>4. RunningIsCalledOrTrapped'
    BY <1>0, <2>1 DEF IInv, TypeOK, RunningIsCalledOrTrapped
  <2>5. ReadyNeverEntered'
    BY <1>0, <2>1 DEF IInv, TypeOK, ReadyNeverEntered
  <2>6. HistoryIsPast'
    BY <1>0, <2>1 DEF IInv, TypeOK, HistoryIsPast
  <2> QED
    BY <2>2, <2>3, <2>4, <2>5, <2>6 DEF IInv
<1>5. CASE TableUnchanged
  BY <1>5 DEF TableUnchanged, IInv, TypeOK, IdsDistinct, RuntimesDistinct,
     RunningIsCalledOrTrapped, ReadyNeverEntered, HistoryIsPast
<1> QED
  BY <1>1, <1>2, <1>3, <1>4, <1>5, StepKinds DEF CallEnds

(* The invariants hold in every reachable state, whatever the numbers of   *)
(* slots and loads, the registry, the imports and the faults.              *)
THEOREM Invariance == Spec => []IInv
  BY InitIInv, NextIInv, PTL DEF Spec

(* The table and the kernel's variables keep their types.                  *)
THEOREM TypeCorrect == Spec => []TypeOK
  BY Invariance, PTL DEF IInv

(* Searches by identifier are unambiguous.                                 *)
THEOREM SearchesUnambiguous == Spec => []IdsDistinct
  BY Invariance, PTL DEF IInv

(* So are the host functions' searches for the runtime that calls.         *)
THEOREM CallersUnambiguous == Spec => []RuntimesDistinct
  BY Invariance, PTL DEF IInv

(* RUNNING in the table means inside m3_Call, traps apart.                 *)
THEOREM RunningIsTrue == Spec => []RunningIsCalledOrTrapped
  BY Invariance, PTL DEF IInv

(* What is READY has never been entered.                                   *)
THEOREM ReadyIsFresh == Spec => []ReadyNeverEntered
  BY Invariance, PTL DEF IInv

-----------------------------------------------------------------------------
(* The refinement of RunQueue.                                             *)

(* A slot update cancels, admits, rejects or replaces an instance, or      *)
(* leaves the queue as it was.                                             *)
LEMMA SlotUpdatePhase ==
  ASSUME IInv, NEW s \in Slots, NEW r \in SlotRec, UpdatesSlot(s, r)
  PROVE  [Queue!Next]_instancePhase
<1> USE DEF UpdatesSlot
<1>1. /\ TypeOK
      /\ nextId \in Nat \ {0}
      /\ table[s] \in SlotRec
      /\ table[s].rt \in 0 .. MaxLoads /\ table[s].rt < nextId
      /\ call.rt \in Nat /\ call.rt < nextId
      /\ Instances \subseteq Nat
      /\ MaxLoads \in Nat
  <2>1. TypeOK /\ MaxLoads \in Nat /\ Instances \subseteq Nat
    BY BoundsAssumption DEF IInv, Instances
  <2>2. table[s] \in SlotRec /\ nextId \in Nat \ {0}
    BY <2>1 DEF TypeOK
  <2>3. call.rt \in Nat
    BY <2>1 DEF TypeOK
  <2>4. table[s].rt < nextId /\ call.rt < nextId
    BY DEF IInv, RuntimesDistinct, HistoryIsPast
  <2> QED
    BY <2>1, <2>2, <2>3, <2>4
(* Rigid names for the old runtime, the new one and the rest of the queue. *)
<1>2. PICK i, j, others :
        /\ i = table[s].rt
        /\ j = nextId
        /\ others = {k \in Instances : \E t \in Slots \ {s} :
                        table[t].state = "READY" /\ table[t].rt = k}
  OBVIOUS
<1>3. i \in 0 .. MaxLoads /\ j \in Nat \ {0} /\ i < j /\ call.rt < j
  BY <1>1, <1>2
<1>4. table[s].state = "READY" => i \in Instances \ others /\ i # call.rt
  BY <1>1, <1>2 DEF IInv, RuntimesDistinct, ReadyNeverEntered, Instances
<1>5. \A k \in Instances :
        Queued(k) <=> (table[s].state = "READY" /\ i = k) \/ k \in others
  BY <1>2 DEF Queued
<1>6. \A k \in Instances :
        Queued(k)' <=> (r.state = "READY" /\ r.rt = k) \/ k \in others
  <2> TAKE k \in Instances
  <2>1. Queued(k)' <=> \/ r.state = "READY" /\ r.rt = k
                       \/ \E t \in Slots \ {s} :
                            table[t].state = "READY" /\ table[t].rt = k
    BY <1>1 DEF TypeOK, Queued
  <2> QED
    BY <1>2, <2>1
<1>7. \A k \in others : k < j
  BY <1>1, <1>2 DEF IInv, RuntimesDistinct
<1>8. \A k \in Instances :
        /\ instancePhase[k] = IF k >= j THEN "unborn"
                              ELSE IF k = call.rt THEN "running"
                              ELSE IF Queued(k) THEN "queued" ELSE "over"
        /\ instancePhase'[k] = IF k >= nextId' THEN "unborn"
                               ELSE IF k = call.rt THEN "running"
                               ELSE IF Queued(k)' THEN "queued" ELSE "over"
  BY <1>2 DEF instancePhase
<1>9. /\ instancePhase = [k \in Instances |-> instancePhase[k]]
      /\ instancePhase' = [k \in Instances |-> instancePhase'[k]]
  BY DEF instancePhase
<1>10. CASE nextId' = j /\ ~(table[s].state = "READY" /\ r # table[s])
  <2>1. r.state = "READY" => r = table[s]
    BY <1>1, <1>2, <1>3, <1>10
  <2>2. \A k \in Instances : Queued(k)' <=> Queued(k)
    BY <1>2, <1>5, <1>6, <1>10, <2>1
  <2>3. \A k \in Instances : instancePhase'[k] = instancePhase[k]
    BY <1>8, <1>10, <2>2
  <2> QED
    BY <1>9, <2>3
<1>11. CASE nextId' = j /\ table[s].state = "READY" /\ r # table[s]
  <2>1. r.state # "READY"
    BY <1>1, <1>2, <1>3, <1>11
  <2>2. \A k \in Instances : Queued(k)' <=> Queued(k) /\ k # i
    BY <1>4, <1>5, <1>6, <1>11, <2>1
  <2>3. \A k \in Instances :
          instancePhase'[k] = IF k = i THEN "over" ELSE instancePhase[k]
    BY <1>1, <1>3, <1>4, <1>8, <1>11, <2>2
  <2>4. instancePhase' = [instancePhase EXCEPT ![i] = "over"]
    BY <1>9, <2>3
  <2>5. instancePhase[i] = "queued" /\ i \in Instances
    BY <1>1, <1>3, <1>4, <1>5, <1>8, <1>11
  <2> QED
    BY <2>4, <2>5 DEF Queue!Next, Queue!Cancel, Queue!Move
<1>12. CASE nextId' = j + 1
  <2>1. PICK to : to = IF r.state = "READY" /\ r.rt = j THEN "queued"
                       ELSE "over"
    OBVIOUS
  <2>2. j \in Instances /\ instancePhase[j] = "unborn"
    BY <1>1, <1>3, <1>8, <1>12 DEF Instances
  <2>3. Queued(j)' <=> to = "queued"
    BY <1>3, <1>6, <1>7, <2>1, <2>2
  <2>4. instancePhase'[j] = to
    BY <1>3, <1>8, <1>12, <2>1, <2>2, <2>3
  <2>5. CASE ~(table[s].state = "READY" /\ r # table[s])
    <3>1. \A k \in Instances : k # j => (Queued(k)' <=> Queued(k))
      BY <1>1, <1>2, <1>5, <1>6, <2>5
    <3>2. \A k \in Instances :
            instancePhase'[k] = IF k = j THEN to ELSE instancePhase[k]
      BY <1>1, <1>3, <1>8, <1>12, <2>4, <3>1
    <3>3. instancePhase' = [instancePhase EXCEPT ![j] = to]
      BY <1>9, <3>2
    <3> QED
      BY <2>1, <2>2, <3>3 DEF Queue!Next, Queue!Admit, Queue!Reject,
         Queue!Move
  <2>6. CASE table[s].state = "READY" /\ r # table[s]
    <3>1. \A k \in Instances :
            k # j => (Queued(k)' <=> Queued(k) /\ k # i)
      <4>1. r.state = "READY" => r.rt = j
        BY <1>2, <2>6
      <4> QED
        BY <1>4, <1>5, <1>6, <2>6, <4>1
    <3>2. \A k \in Instances :
            instancePhase'[k] = IF k = j THEN to
                                ELSE IF k = i THEN "over" ELSE instancePhase[k]
      BY <1>1, <1>3, <1>4, <1>8, <1>12, <2>4, <2>6, <3>1
    <3>3. instancePhase' = [instancePhase EXCEPT ![i] = "over", ![j] = to]
      BY <1>3, <1>9, <3>2
    <3>4. instancePhase[i] = "queued" /\ i \in Instances
      BY <1>1, <1>3, <1>4, <1>5, <1>8, <2>6
    <3> QED
      BY <2>1, <2>2, <3>3, <3>4 DEF Queue!Next, Queue!Replace
  <2> QED
    BY <2>5, <2>6
<1> QED
  BY <1>2, <1>10, <1>11, <1>12

-----------------------------------------------------------------------------
LEMMA InitPhase == Init => Queue!Init
<1> SUFFICES ASSUME Init PROVE instancePhase = [i \in Instances |-> "unborn"]
  BY DEF Queue!Init
<1>1. \A i \in Instances : i >= nextId
  BY BoundsAssumption DEF Init, Instances
<1> QED
  BY <1>1 DEF instancePhase

(* Instances keep their phase when neither the queue, nor the identifiers, *)
(* nor the call change.                                                    *)
LEMMA SamePhase ==
  ASSUME UNCHANGED <<table, nextId, call>>
  PROVE  [Queue!Next]_instancePhase
  BY DEF instancePhase, Queued

LEMMA RunPhase ==
  ASSUME IInv, RunFirstReady
  PROVE  [Queue!Next]_instancePhase
<1>1. PICK s \in Slots :
        /\ table[s].state = "READY"
        /\ table' = [table EXCEPT ![s].state = "RUNNING"]
        /\ call' = [slot |-> s, rt |-> table[s].rt]
  BY DEF RunFirstReady, RunModule
<1>2. /\ TypeOK
      /\ call.rt = 0
      /\ nextId' = nextId
      /\ nextId \in Nat
      /\ Instances \subseteq Nat \ {0}
  BY BoundsAssumption DEF IInv, TypeOK, RunFirstReady, Instances
<1>3. PICK i : i = table[s].rt
  OBVIOUS
<1>4. i \in Instances /\ i < nextId
  BY <1>1, <1>2, <1>3
     DEF IInv, TypeOK, ReadyNeverEntered, RuntimesDistinct, Instances
<1>5. Queued(i)
  BY <1>1, <1>3 DEF Queued
<1>6. \A k \in Instances : k # i => (Queued(k)' <=> Queued(k))
  BY <1>1, <1>2, <1>3 DEF TypeOK, Queued
<1>7. \A k \in Instances :
        /\ instancePhase[k] = IF k >= nextId THEN "unborn"
                              ELSE IF Queued(k) THEN "queued" ELSE "over"
        /\ instancePhase'[k] = IF k >= nextId THEN "unborn"
                               ELSE IF k = i THEN "running"
                               ELSE IF Queued(k)' THEN "queued" ELSE "over"
  BY <1>1, <1>2, <1>3 DEF instancePhase
<1>8. instancePhase' = [k \in Instances |-> instancePhase'[k]]
      /\ instancePhase = [k \in Instances |-> instancePhase[k]]
  BY DEF instancePhase
<1>9. \A k \in Instances :
        instancePhase'[k] = IF k = i THEN "running" ELSE instancePhase[k]
  BY <1>2, <1>4, <1>6, <1>7
<1>10. instancePhase' = [instancePhase EXCEPT ![i] = "running"]
  BY <1>8, <1>9
<1>11. /\ instancePhase[i] = "queued"
       /\ \A k \in Instances : instancePhase[k] # "running"
  BY <1>2, <1>4, <1>5, <1>7
<1> QED
  BY <1>4, <1>10, <1>11 DEF Queue!Next, Queue!Dispatch, Queue!Move

LEMMA EndPhase ==
  ASSUME IInv, CallEnds
  PROVE  [Queue!Next]_instancePhase
<1>1. PICK i : i = call.rt
  OBVIOUS
<1>2. /\ TypeOK
      /\ nextId' = nextId
      /\ nextId \in Nat
      /\ call'.rt = 0
      /\ i \in Instances /\ i < nextId
      /\ call.slot \in Slots
      /\ Instances \subseteq Nat \ {0}
  BY <1>1, BoundsAssumption DEF IInv, TypeOK, CallEnds, CallReturns,
     CallTraps, HistoryIsPast, Instances
<1>3. \A k \in Instances : Queued(k)' <=> Queued(k)
  <2>1. CASE table' = table
    BY <2>1 DEF Queued
  <2>2. CASE /\ table[call.slot].state = "RUNNING"
             /\ table' = [table EXCEPT ![call.slot].state = "EXITED"]
    BY <1>2, <2>2 DEF TypeOK, Queued
  <2> QED
    BY <2>1, <2>2 DEF CallEnds, CallReturns, CallTraps
<1>4. ~Queued(i)
  BY <1>1 DEF IInv, ReadyNeverEntered, Queued
<1>5. \A k \in Instances :
        /\ instancePhase[k] = IF k >= nextId THEN "unborn"
                              ELSE IF k = i THEN "running"
                              ELSE IF Queued(k) THEN "queued" ELSE "over"
        /\ instancePhase'[k] = IF k >= nextId THEN "unborn"
                               ELSE IF Queued(k)' THEN "queued" ELSE "over"
  BY <1>1, <1>2 DEF instancePhase
<1>6. instancePhase' = [k \in Instances |-> instancePhase'[k]]
      /\ instancePhase = [k \in Instances |-> instancePhase[k]]
  BY DEF instancePhase
<1>7. \A k \in Instances :
        instancePhase'[k] = IF k = i THEN "over" ELSE instancePhase[k]
  BY <1>2, <1>3, <1>4, <1>5
<1>8. instancePhase' = [instancePhase EXCEPT ![i] = "over"]
  BY <1>6, <1>7
<1>9. instancePhase[i] = "running"
  BY <1>2, <1>5
<1> QED
  BY <1>2, <1>8, <1>9 DEF Queue!Next, Queue!Finish, Queue!Move

(* Every behaviour of the slot table is a behaviour of the run queue: each *)
(* load is entered at most once, one module at a time, and what is over    *)
(* stays over, for every number of slots and loads and whatever the        *)
(* running modules call.                                                   *)
THEOREM RefinesRunQueue == Spec => ImplementsRunQueue
<1>1. IInv /\ [Next]_vars => [Queue!Next]_instancePhase
  <2> SUFFICES ASSUME IInv, [Next]_vars
               PROVE  [Queue!Next]_instancePhase
    OBVIOUS
  <2>1. ASSUME NEW s \in Slots, NEW r \in SlotRec, UpdatesSlot(s, r)
        PROVE  [Queue!Next]_instancePhase
    BY <2>1, SlotUpdatePhase
  <2>2. CASE RunFirstReady
    BY <2>2, RunPhase
  <2>3. CASE CallEnds
    BY <2>3, EndPhase
  <2>4. CASE TableUnchanged
    BY <2>4, SamePhase DEF TableUnchanged
  <2> QED
    BY <2>1, <2>2, <2>3, <2>4, StepKinds
<1> QED
  BY <1>1, InitPhase, Invariance, PTL
     DEF Spec, ImplementsRunQueue, Queue!Spec
-----------------------------------------------------------------------------
(* Command lines.                                                          *)

(* The table under the module with command lines is the table proved about *)
(* above: what holds of Spec holds of CommandSpec.                         *)
THEOREM CommandsAreRuntime == CommandSpec => Spec
<1>1. CommandInit => Init
  BY DEF CommandInit
<1>2. [CommandNext]_allVars => [Next]_vars
  BY DEF CommandNext, allVars, vars, HostSetArgv, HostGetArgv, SpawnWithArgv,
     KernelGoesOn, CallGoesOn, OtherHostCall, Next, HostCall
<1> QED
  BY <1>1, <1>2, PTL DEF CommandSpec, Spec

(* Nothing can be read before the first module runs.                       *)
BootIsQuiet == kernel = "boot" => readings = {} /\ call = NoCall

(* A slot that was never loaded has no name, and nothing to run.           *)
NamedAreKnown == \A s \in Slots : table[s].id = 0 => /\ table[s].name = NoName
                                                     /\ table[s].state # "READY"

(* The slot found by the identifier of the running module is its own.      *)
CallerFindsItself ==
  InCall => /\ currentId < nextId
            /\ \A s \in Slots : table[s].id = currentId => s = call.slot

(* No two slots hold the same line, and none holds the one still pending.  *)
LineInOnePlace ==
  \A s \in Slots : argv[s] # NoLine =>
    /\ argv[s] # pending
    /\ \A t \in Slots \ {s} : argv[t] # argv[s]

(* Where a line that was read can still be.                                *)
ReadingsAccounted ==
  \A r \in readings :
    /\ r.line # pending
    /\ \A s \in Slots : argv[s] = r.line =>
         s = r.slot /\ (table[s].name = r.name \/ r.line \in misplaced)

CommandInv == /\ CommandTypeOK /\ BootIsQuiet /\ NamedAreKnown
              /\ CallerFindsItself /\ LineInOnePlace /\ ReadingsAccounted
              /\ LineReachesItsModule

(* A load fills one slot.                                                  *)
LEMMA OneLoaded ==
  ASSUME TypeOK, NEW name \in Registry, HostSpawn(name)
  PROVE  \E s \in Slots : \A t \in Slots : LoadedNow(t) => t = s
<1>1. PICK s \in Slots, result \in Results(name) :
        table' = [table EXCEPT ![s] = LoadedSlot(table[s], name, result)]
  BY DEF HostSpawn, LoadModuleInternal
<1>2. \A t \in Slots : t # s => table'[t] = table[t]
  BY <1>1 DEF TypeOK
<1> QED
  BY <1>2 DEF LoadedNow

(* Loading over a record that has a name in the registry, or is given one. *)
LEMMA LoadNames ==
  ASSUME TypeOK, NEW s \in Slots, NEW name, NEW result, NEW old \in SlotRec,
         LoadModuleInternal(s, old, name, result),
         old.id = table[s].id, old.name = table[s].name,
         old.state \in {table[s].state, "FREE"}
  PROVE  /\ \A t \in Slots \ {s} : table'[t] = table[t]
         /\ table'[s].name \in {table[s].name, name}
         /\ table'[s].id # 0 \/ (table'[s].id = table[s].id
                                 /\ table'[s].name = table[s].name
                                 /\ table'[s].state \in {table[s].state, "FREE"})
<1>1. result \in {"magic", "heap", "fail", "ok"}
  BY DEF LoadModuleInternal, Results
<1>2. /\ \A t \in Slots \ {s} : table'[t] = table[t]
      /\ table'[s] = LoadedSlot(old, name, result)
  BY DEF TypeOK, LoadModuleInternal
<1>3. nextId # 0
  BY DEF TypeOK
<1> QED
  BY <1>1, <1>2, <1>3 DEF LoadedSlot

LEMMA SpawnNames ==
  ASSUME TypeOK, NamedAreKnown, NEW name \in Registry, HostSpawn(name)
  PROVE  NamedAreKnown'
<1>1. PICK s \in Slots, result \in Results(name) :
        LoadModuleInternal(s, table[s], name, result)
  BY DEF HostSpawn
<1>2. table[s] \in SlotRec
  BY DEF TypeOK
<1> QED
  BY <1>1, <1>2, LoadNames DEF NamedAreKnown

(* Names change when init is loaded and in a spawn, and nowhere else.      *)
OtherStep == KernelStep \/ CallEnds \/ OtherHostCall \/ LoadHangs \/ UNCHANGED vars

(* A state that changes in one slot leaves the rest of the table.          *)
LEMMA StateChanges ==
  ASSUME TypeOK, NEW k, NEW st, table' = [table EXCEPT ![k].state = st]
  PROVE  \A t \in Slots : /\ table'[t].id = table[t].id
                          /\ table'[t].name = table[t].name
                          /\ table'[t].state \in {table[t].state, st}
<1> SUFFICES ASSUME NEW t \in Slots
             PROVE  /\ table'[t].id = table[t].id
                    /\ table'[t].name = table[t].name
                    /\ table'[t].state \in {table[t].state, st}
  OBVIOUS
<1>1. table[t] \in [state : States, id : Ids, name : Names, rt : Ids]
  BY DEF TypeOK, SlotRec
<1>2. CASE t = k
  <2>1. table'[t] = [table[t] EXCEPT !.state = st]
    BY <1>2 DEF TypeOK
  <2> QED
    BY <1>1, <2>1
<1>3. CASE t # k
  <2>1. table'[t] = table[t]
    BY <1>3 DEF TypeOK
  <2> QED
    BY <2>1
<1> QED
  BY <1>2, <1>3

LEMMA NamesStay ==
  ASSUME TypeOK, NamedAreKnown, OtherStep
  PROVE  /\ NamedAreKnown'
         /\ kernel = "boot" \/ \A s \in Slots : table'[s].name = table[s].name
<1> USE DEF NamedAreKnown
<1>0. TypeOK
  OBVIOUS
<1>1. CASE LoadInit
  <2>1. PICK s \in Slots, result \in Results(Legacy) :
          LoadModuleInternal(s, table[s], Legacy, result)
    BY <1>1 DEF LoadInit
  <2>2. table[s] \in SlotRec
    BY <1>0 DEF TypeOK
  <2> QED
    BY <1>0, <1>1, <2>1, <2>2, LoadNames DEF LoadInit
<1>3. CASE \E id \in Ids : HostProcRestart(id)
  <2>1. PICK s \in Slots : \E result \in Results(table[s].name) :
          LoadModuleInternal(s, table[s], table[s].name, result)
    BY <1>3 DEF HostProcRestart
  <2>2. table[s] \in SlotRec
    BY <1>0 DEF TypeOK
  <2> QED
    BY <1>0, <2>1, <2>2, LoadNames
<1>4. CASE \E s \in Slots : HostModuleReload(s)
  <2>1. PICK s \in Slots : HostModuleReload(s)
    BY <1>4
  <2> DEFINE freed == [state |-> "FREE", id |-> table[s].id,
                       name |-> table[s].name, rt |-> 0]
  <2>2. PICK result \in {"magic", "heap", "fail", "ok"} :
          table' = [table EXCEPT ![s] =
               IF result = "ok"
               THEN [LoadedSlot(freed, table[s].name, result)
                       EXCEPT !.id = table[s].id]
               ELSE LoadedSlot(freed, table[s].name, result)]
    BY <2>1 DEF HostModuleReload, Results
  <2>3. /\ \A t \in Slots \ {s} : table'[t] = table[t]
        /\ table'[s] = IF result = "ok"
                       THEN [LoadedSlot(freed, table[s].name, result)
                               EXCEPT !.id = table[s].id]
                       ELSE LoadedSlot(freed, table[s].name, result)
    BY <1>0, <2>2 DEF TypeOK
  <2>4. table[s].id # 0
    BY <2>1, NamesAssumption DEF HostModuleReload
  <2>5. nextId # 0
    BY <1>0 DEF TypeOK
  <2>6. table'[s].name = table[s].name /\ table'[s].id # 0
    BY <2>2, <2>3, <2>4, <2>5 DEF LoadedSlot
  <2> QED
    BY <2>3, <2>6
<1>5. CASE \/ HostExit \/ WasiProcExit \/ \E id \in Ids : HostProcKill(id)
  <2>1. table' = table \/ \E s \in Slots : table' = [table EXCEPT ![s].state = "EXITED"]
    BY <1>5 DEF HostExit, WasiProcExit, HostProcKill, MarkCurrentExited
  <2>2. \A t \in Slots : /\ table'[t].id = table[t].id
                         /\ table'[t].name = table[t].name
                         /\ table'[t].state \in {table[t].state, "EXITED"}
    BY <1>0, <2>1, StateChanges
  <2> QED
    BY <2>2
<1>6. CASE RunFirstReady
  <2>1. PICK s \in Slots : /\ table[s].state = "READY"
                           /\ table' = [table EXCEPT ![s].state = "RUNNING"]
    BY <1>6 DEF RunFirstReady, RunModule
  <2>2. \A t \in Slots : /\ table'[t].id = table[t].id
                         /\ table'[t].name = table[t].name
                         /\ table'[t].state \in {table[t].state, "RUNNING"}
    BY <1>0, <2>1, StateChanges
  <2> QED
    BY <2>2
<1>7. CASE CallEnds
  <2>1. table' = table \/ table' = [table EXCEPT ![call.slot].state = "EXITED"]
    BY <1>7 DEF CallEnds, CallReturns, CallTraps
  <2>2. \A t \in Slots : /\ table'[t].id = table[t].id
                         /\ table'[t].name = table[t].name
                         /\ table'[t].state \in {table[t].state, "EXITED"}
    BY <1>0, <2>1, StateChanges
  <2> QED
    BY <2>2
<1>8. CASE ReadyQueueEmpty \/ ProcSchedule \/ LoadHangs \/ UNCHANGED vars
  BY <1>8 DEF ReadyQueueEmpty, ProcSchedule, LoadHangs, vars
<1> QED
  BY <1>1, <1>3, <1>4, <1>5, <1>6, <1>7, <1>8 DEF OtherStep, KernelStep, OtherHostCall

LEMMA BootStays ==
  ASSUME BootIsQuiet, OtherStep, readings' = readings
  PROVE  BootIsQuiet'
BY DEF BootIsQuiet, OtherStep, KernelStep, LoadInit, RunFirstReady, ReadyQueueEmpty,
       ProcSchedule, CallEnds, CallReturns, CallTraps, OtherHostCall, HostExit,
       WasiProcExit, HostProcKill, HostProcRestart, HostModuleReload, Calling,
       LoadHangs, vars

LEMMA CallerStaysFound ==
  ASSUME IInv, NamedAreKnown, CallerFindsItself, [Next]_vars
  PROVE  CallerFindsItself'
<1>0. TypeOK /\ nextId \in Nat /\ currentId \in Nat
      /\ \A s \in Slots : table[s].id \in Nat
  BY DEF IInv, TypeOK
<1>1. CASE RunFirstReady
  <2>0. PICK r \in Slots : RunModule(table[r].id) /\ nextId' = nextId
    BY <1>1 DEF RunFirstReady
  <2>1. PICK s \in Slots : /\ table[s].state = "READY"
                           /\ table' = [table EXCEPT ![s].state = "RUNNING"]
                           /\ currentId' = table[s].id
                           /\ call'.slot = s
                           /\ nextId' = nextId
    <3>1. PICK s \in Slots : /\ table[s].id = table[r].id
                             /\ table[s].state = "READY"
                             /\ table' = [table EXCEPT ![s].state = "RUNNING"]
                             /\ currentId' = table[r].id
                             /\ call' = [slot |-> s, rt |-> table[s].rt]
      BY <2>0 DEF RunModule, First, WithId
    <3>2. call'.slot = s
      BY <3>1
    <3> QED
      BY <2>0, <3>1, <3>2
  <2>2. \A t \in Slots : table'[t].id = table[t].id
    BY <1>0, <2>1 DEF TypeOK
  <2>3. table[s].id # 0 /\ table[s].id < nextId
    BY <2>1 DEF NamedAreKnown, IInv, IdsDistinct
  <2>4. \A t \in Slots : table[t].id = table[s].id => t = s
    BY <2>3 DEF IInv, IdsDistinct
  <2> QED
    BY <2>1, <2>2, <2>3, <2>4 DEF CallerFindsItself
<1>2. CASE CallEnds
  BY <1>2 DEF CallEnds, CallReturns, CallTraps, CallerFindsItself
<1>3. CASE TableUnchanged
  BY <1>3 DEF TableUnchanged, CallerFindsItself
<1>4. ASSUME NEW s \in Slots, NEW r \in SlotRec, UpdatesSlot(s, r)
      PROVE  CallerFindsItself'
  <2>1. \A t \in Slots : table'[t].id = table[t].id
                         \/ (table'[t].id = nextId /\ nextId' = nextId + 1)
    BY <1>0, <1>4 DEF TypeOK, UpdatesSlot
  <2> QED
    BY <1>0, <1>4, <2>1 DEF UpdatesSlot, CallerFindsItself
<1> QED
  BY <1>1, <1>2, <1>3, <1>4, StepKinds

(* Lines, and where they have been read, over a step that sets none.       *)
LEMMA SpawnLines ==
  ASSUME TypeOK, CommandInv, SpawnWithArgv
  PROVE  (CommandTypeOK /\ LineInOnePlace /\ ReadingsAccounted)'
<1> USE LinesAssumption DEF NoLine
<1>1. PICK s \in Slots : \A t \in Slots : LoadedNow(t) => t = s
  BY OneLoaded DEF SpawnWithArgv
<1>2. /\ argv' = [t \in Slots |-> IF LoadedNow(t) THEN pending ELSE argv[t]]
      /\ pending' = IF \E t \in Slots : LoadedNow(t) THEN 0 ELSE pending
      /\ misplaced' = misplaced \cup LeftBehind
      /\ UNCHANGED <<lines, readings>>
  BY DEF SpawnWithArgv, TakeArgv
<1>3. /\ \A t \in Slots : ~LoadedNow(t) => argv'[t] = argv[t]
      /\ \A t \in Slots : LoadedNow(t) => argv'[t] = pending /\ pending' = 0
      /\ pending' \in {0, pending}
  BY <1>2
<1>4. LeftBehind \subseteq 1 .. lines
  BY DEF CommandInv, CommandTypeOK, LeftBehind
<1>5. CommandTypeOK'
  BY <1>2, <1>4 DEF CommandInv, CommandTypeOK
<1>6. LineInOnePlace'
  BY <1>1, <1>3 DEF CommandInv, CommandTypeOK, LineInOnePlace
<1>7. ReadingsAccounted'
  <2> SUFFICES ASSUME NEW r \in readings
               PROVE  /\ r.line # pending'
                      /\ \A t \in Slots : argv'[t] = r.line =>
                           t = r.slot /\ (table'[t].name = r.name \/ r.line \in misplaced')
    BY <1>2 DEF ReadingsAccounted
  <2>1. r.line # pending /\ r.line # 0
    BY DEF CommandInv, CommandTypeOK, ReadingsAccounted
  <2>2. ASSUME NEW t \in Slots, argv'[t] = r.line
        PROVE  t = r.slot /\ (table'[t].name = r.name \/ r.line \in misplaced')
    <3>1. ~LoadedNow(t) /\ argv[t] = r.line
      BY <1>3, <2>1, <2>2
    <3>2. t = r.slot /\ (table[t].name = r.name \/ r.line \in misplaced)
      BY <3>1 DEF CommandInv, ReadingsAccounted
    <3>3. table'[t].name # table[t].name => r.line \in LeftBehind
      BY <2>1, <3>1 DEF LeftBehind
    <3> QED
      BY <1>2, <3>2, <3>3
  <2> QED
    BY <1>3, <2>1, <2>2
<1> QED
  BY <1>5, <1>6, <1>7

LEMMA CommandStep ==
  IInv /\ CommandInv /\ [CommandNext]_allVars => CommandInv'
<1> SUFFICES ASSUME IInv, CommandInv, [CommandNext]_allVars
             PROVE  CommandInv'
  OBVIOUS
<1> USE LinesAssumption DEF NoLine
<1>0. TypeOK /\ [Next]_vars
  BY DEF IInv, CommandNext, allVars, vars, HostSetArgv, HostGetArgv, SpawnWithArgv,
     KernelGoesOn, CallGoesOn, OtherHostCall, Next, HostCall
<1>1. CallerFindsItself'
  BY CallerStaysFound, <1>0 DEF CommandInv
<1>2. CASE HostSetArgv
  <2>1. /\ UNCHANGED <<table, kernel, call, argv, misplaced, readings>>
        /\ \/ pending' = 0 /\ lines' = lines
           \/ lines < MaxLines /\ lines' = lines + 1 /\ pending' = lines + 1
    BY <1>2 DEF HostSetArgv, vars
  <2>2. /\ CommandTypeOK
        /\ \A r \in readings : r.line \in 1 .. lines
    BY DEF CommandInv, CommandTypeOK
  <2>3. CommandTypeOK'
    <3>1. lines \in Nat /\ lines' \in 0 .. MaxLines /\ lines <= lines'
      BY <2>1, <2>2 DEF CommandTypeOK
    <3>2. 0 .. lines \subseteq 0 .. lines' /\ 1 .. lines \subseteq 1 .. lines'
      BY <3>1
    <3> QED
      BY <2>1, <2>2, <3>1, <3>2 DEF CommandTypeOK
  <2>4. LineInOnePlace'
    BY <2>1, <2>2 DEF CommandInv, CommandTypeOK, LineInOnePlace
  <2>5. ReadingsAccounted'
    BY <2>1, <2>2 DEF CommandInv, CommandTypeOK, ReadingsAccounted
  <2> QED
    BY <1>1, <2>1, <2>3, <2>4, <2>5
       DEF CommandInv, BootIsQuiet, NamedAreKnown, LineReachesItsModule
<1>3. CASE HostGetArgv
  <2>1. PICK s \in Slots :
          /\ table[s].id = currentId
          /\ argv[s] # 0
          /\ readings' = readings \cup
               {[line |-> argv[s], slot |-> call.slot, name |-> table[call.slot].name]}
    BY <1>3 DEF HostGetArgv
  <2>2. /\ UNCHANGED <<table, kernel, call, pending, argv, lines, misplaced>>
        /\ InCall
    BY <1>3 DEF HostGetArgv, vars
  <2>3. s = call.slot
    BY <2>1, <2>2 DEF CommandInv, CallerFindsItself
  <2> DEFINE n == [line |-> argv[s], slot |-> s, name |-> table[s].name]
  <2>4. readings' = readings \cup {n}
    BY <2>1, <2>3
  <2>5. /\ n \in [line : 1 .. lines, slot : Slots, name : Names]
        /\ n.line = argv[s] /\ n.slot = s /\ n.name = table[s].name
    BY <1>0, <2>1 DEF CommandInv, CommandTypeOK, TypeOK
  <2> HIDE DEF n
  <2>6. CommandTypeOK'
    BY <2>2, <2>4, <2>5 DEF CommandInv, CommandTypeOK
  <2>7. LineInOnePlace'
    BY <2>2 DEF CommandInv, LineInOnePlace
  <2>8. ReadingsAccounted'
    BY <2>1, <2>2, <2>4, <2>5 DEF CommandInv, LineInOnePlace, ReadingsAccounted
  <2>9. LineReachesItsModule'
    <3>1. \A b \in readings : b.line = n.line =>
            b.slot = n.slot /\ (b.name = n.name \/ b.line \in misplaced)
      BY <2>5 DEF CommandInv, ReadingsAccounted
    <3> QED
      BY <2>2, <2>4, <3>1 DEF CommandInv, LineReachesItsModule
  <2>10. BootIsQuiet' /\ NamedAreKnown'
    BY <2>2 DEF CommandInv, BootIsQuiet, NamedAreKnown
  <2> QED
    BY <1>1, <2>6, <2>7, <2>8, <2>9, <2>10 DEF CommandInv
<1>4. CASE SpawnWithArgv
  <2>1. kernel' = kernel /\ call # NoCall /\ UNCHANGED <<call, readings>>
        /\ misplaced \subseteq misplaced'
    BY <1>4 DEF SpawnWithArgv, HostSpawn, Calling
  <2>2. BootIsQuiet' /\ LineReachesItsModule'
    BY <2>1 DEF CommandInv, BootIsQuiet, LineReachesItsModule
  <2>3. NamedAreKnown'
    BY <1>0, <1>4, SpawnNames DEF CommandInv, SpawnWithArgv
  <2> QED
    BY <1>0, <1>1, <1>4, <2>2, <2>3, SpawnLines DEF CommandInv
<1>5. CASE OtherStep /\ UNCHANGED commandVars
  <2>1. UNCHANGED <<pending, argv, lines, misplaced, readings>>
    BY <1>5 DEF commandVars
  <2>2. readings = {} \/ \A s \in Slots : table'[s].name = table[s].name
    BY <1>0, <1>5, NamesStay DEF CommandInv, BootIsQuiet
  <2>3. ReadingsAccounted'
    BY <2>1, <2>2 DEF CommandInv, ReadingsAccounted
  <2>4. BootIsQuiet' /\ NamedAreKnown'
    BY <1>0, <1>5, <2>1, BootStays, NamesStay DEF CommandInv
  <2> QED
    BY <1>1, <2>1, <2>3, <2>4
       DEF CommandInv, CommandTypeOK, LineInOnePlace, LineReachesItsModule
<1> QED
  BY <1>2, <1>3, <1>4, <1>5
     DEF CommandNext, KernelGoesOn, CallGoesOn, OtherStep, allVars

(* The modules that ever get a command line run in one slot, and are the   *)
(* same program unless a failed spawn has put another name beside it: for  *)
(* every table, registry and number of lines, whatever loads fail and      *)
(* whatever is restarted or reloaded in between.                           *)
THEOREM LinesReachTheirModules == CommandSpec => []LineReachesItsModule
<1>1. CommandInit => CommandInv
  BY LinesAssumption
     DEF CommandInit, Init, CommandInv, CommandTypeOK, BootIsQuiet, NamedAreKnown,
         CallerFindsItself, LineInOnePlace, ReadingsAccounted, LineReachesItsModule,
         NoLine
<1>2. CommandInv => LineReachesItsModule
  BY DEF CommandInv
<1> QED
  BY <1>1, <1>2, CommandStep, CommandsAreRuntime, Invariance, PTL
     DEF CommandSpec
=============================================================================
