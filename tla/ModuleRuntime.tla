--------------------------- MODULE ModuleRuntime ----------------------------
(***************************************************************************)
(* The multi-module WASM runtime of kernel/wasm_host.c: the table of       *)
(* MAX_MODULES slots, loading (load_module_internal), the run-to-completion*)
(* driver (run_module, run_ready_modules_c and the boot sequence of        *)
(* kernel.asm), and the host functions by which the running module changes *)
(* the table: spawn, exit, proc_kill, proc_restart and module_reload.      *)
(*                                                                         *)
(* Slot k of the model is module_table[k - 1], so that the code's index    *)
(* expression "current_module_id - 1" reads here as slot currentId.        *)
(* A runtime handle (IM3Runtime) is named by the value next_module_id had  *)
(* when the runtime was made; 0 is NULL.                                   *)
(***************************************************************************)
EXTENDS Naturals

CONSTANTS
  MAX_MODULES,    \* slots of module_table
  Registry,       \* names in wasm_registry
  BadWasm,        \* registry entries whose bytes fail the magic test
  Imports,        \* the host functions the modules of the instance call
  Faults,         \* what may fail: a load ("load"), a running module ("trap"),
                  \* the kernel inside a load ("stray")
  MaxLoads        \* bound of the model: loads that consume an identifier

HostFunctions == {"spawn", "exit", "proc_exit", "proc_kill", "proc_restart",
                  "module_reload"}

ASSUME BoundsAssumption == /\ MAX_MODULES \in Nat \ {0}
                           /\ MaxLoads \in Nat
                           /\ BadWasm \subseteq Registry
                           /\ Imports \subseteq HostFunctions
                           /\ Faults \subseteq {"load", "trap", "stray"}

Legacy == "legacy"      \* the name wasm_host_load gives the init module
NoName == ""

ASSUME NamesAssumption == {Legacy, NoName} \cap Registry = {}

VARIABLES
  table,      \* slot -> [state, id, name, rt]
  nextId,     \* next_module_id
  currentId,  \* current_module_id, never reset once a module has run
  call,       \* the instance inside m3_Call: its slot and its runtime
  kernel,     \* what the kernel does when no module runs
  trapped     \* history: runtimes whose call ended with an error

vars == <<table, nextId, currentId, call, kernel, trapped>>

Slots   == 1 .. MAX_MODULES
Ids     == 0 .. MaxLoads
States  == {"FREE", "READY", "RUNNING", "EXITED"}
Names   == Registry \cup {Legacy, NoName}
SlotRec == [state : States, id : Ids, name : Names, rt : Ids]

(* MOD_LOADING never outlives load_module_internal, and no interrupt       *)
(* handler reads the table, so the state is not modelled.                  *)

NoCall  == [slot |-> 0, rt |-> 0]
InCall  == call # NoCall

(* boot: before load_and_run_init; init: inside it, after the load;        *)
(* ready: in run_ready_modules_c; sched: in proc_schedule_loop; spin: in   *)
(* proc_schedule, which never returns; halt: the loops of wasm_halt, of    *)
(* host_exit and of vector_sync.                                           *)
KernelPhases == {"boot", "init", "ready", "sched", "spin", "halt"}

Init == /\ table = [s \in Slots |-> [state |-> "FREE", id |-> 0,
                                     name |-> NoName, rt |-> 0]]
        /\ nextId = 1
        /\ currentId = 0
        /\ call = NoCall
        /\ kernel = "boot"
        /\ trapped = {}

-----------------------------------------------------------------------------
(* Searching the table.                                                    *)

First(s, S) == s \in S /\ \A t \in S : s <= t

InState(st) == {s \in Slots : table[s].state = st}
WithId(id)  == {s \in Slots : table[s].id = id}

(* load_module_internal: a bad magic number is refused before an           *)
(* identifier is taken; every later failure has taken one and leaves the   *)
(* slot FREE under its new name, with the runtime it got unless there was  *)
(* no memory for one; success leaves it READY.  The slot before the load   *)
(* is passed because module_reload has already changed it.                 *)
Results(name) == IF name \in BadWasm THEN {"magic"}
                 ELSE {"ok"} \cup IF "load" \in Faults THEN {"heap", "fail"} ELSE {}

LoadedSlot(old, name, result) ==
  CASE result = "magic" -> old
    [] result = "heap"  -> [state |-> "FREE", id |-> nextId,
                            name |-> name, rt |-> 0]
    [] result = "fail"  -> [state |-> "FREE", id |-> nextId,
                            name |-> name, rt |-> nextId]
    [] result = "ok"    -> [state |-> "READY", id |-> nextId,
                            name |-> name, rt |-> nextId]

(* Wrong on purpose: the identifier is taken before the magic test, or only *)
(* once the load has succeeded.                                            *)
NextIdAfterAny(result) == nextId + 1
NextIdAfterOk(result)  == IF result = "ok" THEN nextId + 1 ELSE nextId

NextIdAfter(result) == IF result = "magic" THEN nextId ELSE nextId + 1

LoadModuleInternal(s, old, name, result) ==
  /\ result \in Results(name)
  /\ result # "magic" => nextId <= MaxLoads
  /\ table' = [table EXCEPT ![s] = LoadedSlot(old, name, result)]
  /\ nextId' = NextIdAfter(result)

-----------------------------------------------------------------------------
(* The kernel's side.                                                      *)

(* load_and_run_init, first half: wasm_host_load into the first free slot. *)
(* An error ends in wasm_halt.                                             *)
LoadInit ==
  /\ kernel = "boot"
  /\ \E s \in Slots, result \in Results(Legacy) :
       /\ First(s, InState("FREE"))
       /\ LoadModuleInternal(s, table[s], Legacy, result)
       /\ kernel' = IF result = "ok" THEN "init" ELSE "halt"
  /\ UNCHANGED <<currentId, call, trapped>>

(* run_module: finds the slot by identifier and enters it.                 *)
RunModule(id) ==
  \E s \in Slots :
    /\ First(s, WithId(id))
    /\ table[s].state = "READY"
    /\ table' = [table EXCEPT ![s].state = "RUNNING"]
    /\ currentId' = id
    /\ call' = [slot |-> s, rt |-> table[s].rt]

(* Wrong on purpose: a spawned module is entered from within its parent.   *)
RunFirstReadyNested ==
  /\ kernel \in {"init", "ready"}
  /\ \E r \in Slots : First(r, InState("READY")) /\ RunModule(table[r].id)
  /\ UNCHANGED <<nextId, kernel, trapped>>

(* wasm_host_run in load_and_run_init, and each turn of the loop of        *)
(* run_ready_modules_c: find_ready_module, then run_module by identifier.  *)
RunFirstReady ==
  /\ ~InCall
  /\ kernel \in {"init", "ready"}
  /\ \E r \in Slots : First(r, InState("READY")) /\ RunModule(table[r].id)
  /\ UNCHANGED <<nextId, kernel, trapped>>

(* Wrong on purpose: the slot is looked up again through currentId.        *)
CallReturnsByCurrentId ==
  /\ InCall
  /\ kernel # "halt"
  /\ table' = IF currentId \in Slots /\ table[currentId].state = "RUNNING"
              THEN [table EXCEPT ![currentId].state = "EXITED"] ELSE table
  /\ call' = NoCall
  /\ kernel' = "ready"
  /\ UNCHANGED <<nextId, currentId, trapped>>

(* m3_Call returns.  After init the kernel goes on to run_ready_modules.   *)
CallReturns ==
  /\ InCall
  /\ kernel # "halt"
  /\ table' = IF table[call.slot].state = "RUNNING"
              THEN [table EXCEPT ![call.slot].state = "EXITED"] ELSE table
  /\ call' = NoCall
  /\ kernel' = "ready"
  /\ UNCHANGED <<nextId, currentId, trapped>>

(* m3_Call fails: run_module returns the error and leaves the slot alone.  *)
(* In load_and_run_init the kernel halts; in run_ready_modules_c the loop  *)
(* is left, and kernel.asm goes on to the scheduler.                       *)
CallTraps ==
  /\ "trap" \in Faults
  /\ InCall
  /\ kernel # "halt"
  /\ call' = NoCall
  /\ kernel' = IF kernel = "init" THEN "halt" ELSE "sched"
  /\ trapped' = trapped \cup {call.rt}
  /\ UNCHANGED <<table, nextId, currentId>>

(* Wrong on purpose: the loop ends after one module.                       *)
ReadyQueueLeft ==
  /\ ~InCall
  /\ kernel = "ready"
  /\ kernel' = "sched"
  /\ UNCHANGED <<table, nextId, currentId, call, trapped>>

(* run_ready_modules_c finds no READY module; proc_schedule_loop begins.   *)
ReadyQueueEmpty ==
  /\ ~InCall
  /\ kernel = "ready"
  /\ InState("READY") = {}
  /\ kernel' = "sched"
  /\ UNCHANGED <<table, nextId, currentId, call, trapped>>

(* A timer tick reaches proc_schedule_loop, which calls proc_schedule.     *)
(* Its search loop falls through to proc_schedule_find_next, which resets  *)
(* the search: it never returns, so wasm_host_run is not reached.          *)
ProcSchedule ==
  /\ kernel = "sched"
  /\ kernel' = "spin"
  /\ UNCHANGED <<table, nextId, currentId, call, trapped>>

-----------------------------------------------------------------------------
(* Host functions of the running module.  The module goes on running after *)
(* each of them, host_exit included, unless the kernel has halted.         *)

Calling(f) == f \in Imports /\ InCall /\ kernel # "halt"

(* host_spawn and host_spawn_redirect.                                     *)
HostSpawn(name) ==
  /\ Calling("spawn")
  /\ \E s \in Slots, result \in Results(name) :
       /\ First(s, InState("FREE"))
       /\ LoadModuleInternal(s, table[s], name, result)
  /\ UNCHANGED <<currentId, call, kernel, trapped>>

(* Wrong on purpose: the identifier is taken for the index.                *)
MarkNextExited ==
  table' = IF currentId + 1 \in Slots /\ table[currentId + 1].state # "FREE"
           THEN [table EXCEPT ![currentId + 1].state = "EXITED"] ELSE table

(* The slot the exit functions mark is current_module_id - 1, whatever     *)
(* slot the caller is in.                                                  *)
MarkCurrentExited ==
  table' = IF currentId \in Slots /\ table[currentId].state # "FREE"
           THEN [table EXCEPT ![currentId].state = "EXITED"] ELSE table

(* host_exit, and host_proc_exit_c, which calls it and marks again: an     *)
(* identifier above MAX_MODULES ends in a wfi loop.                        *)
HostExit ==
  /\ Calling("exit")
  /\ MarkCurrentExited
  /\ kernel' = IF currentId \in Slots THEN kernel ELSE "halt"
  /\ UNCHANGED <<nextId, currentId, call, trapped>>

(* wasi_proc_exit marks the module exited, then halts the CPU.             *)
WasiProcExit ==
  /\ Calling("proc_exit")
  /\ MarkCurrentExited
  /\ kernel' = "halt"
  /\ UNCHANGED <<nextId, currentId, call, trapped>>

(* host_proc_kill, by identifier and in any state; a slot never loaded     *)
(* has identifier 0.                                                       *)
HostProcKill(id) ==
  /\ Calling("proc_kill")
  /\ \E s \in Slots :
       /\ First(s, WithId(id))
       /\ table' = [table EXCEPT ![s].state = "EXITED"]
  /\ UNCHANGED <<nextId, currentId, call, kernel, trapped>>

(* Wrong on purpose: the old runtime is queued again, in its own slot or   *)
(* in a free one.                                                          *)
RestartOldRuntime(id) ==
  /\ Calling("proc_restart")
  /\ \E s \in Slots : First(s, WithId(id)) /\ table[s].name \in Registry
                     /\ table' = [table EXCEPT ![s].state = "READY"]
  /\ UNCHANGED <<nextId, currentId, call, kernel, trapped>>
RestartInFreeSlot(id) ==
  /\ Calling("proc_restart")
  /\ \E s, t \in Slots : First(s, WithId(id)) /\ table[s].name \in Registry
                        /\ First(t, InState("FREE"))
                        /\ table' = [table EXCEPT ![t] = table[s]]
  /\ UNCHANGED <<nextId, currentId, call, kernel, trapped>>

(* host_proc_restart: by identifier, whatever the state of the slot.       *)
HostProcRestart(id) ==
  /\ Calling("proc_restart")
  /\ \E s \in Slots :
       /\ First(s, WithId(id))
       /\ table[s].name \in Registry
       /\ \E result \in Results(table[s].name) :
            LoadModuleInternal(s, table[s], table[s].name, result)
  /\ UNCHANGED <<currentId, call, kernel, trapped>>

(* host_module_reload: by slot index.  The slot is freed first, so that a  *)
(* failed load leaves it FREE; on success the old identifier comes back.   *)
HostModuleReload(s) ==
  /\ Calling("module_reload")
  /\ table[s].state # "FREE"
  /\ table[s].name \in Registry
  /\ \E result \in Results(table[s].name) :
       /\ result # "magic" => nextId <= MaxLoads
       /\ LET freed  == [state |-> "FREE", id |-> table[s].id,
                          name |-> table[s].name, rt |-> 0]
              loaded == LoadedSlot(freed, table[s].name, result)
          IN  table' = [table EXCEPT ![s] =
                          IF result = "ok"
                          THEN [loaded EXCEPT !.id = table[s].id] ELSE loaded]
       /\ nextId' = NextIdAfter(result)
  /\ UNCHANGED <<currentId, call, kernel, trapped>>

(* Behind the magic test a load searches the JIT cache, which never has an  *)
(* entry.  jit_cache_lookup computes the address of every entry but the    *)
(* first from a register it did not set; where that address is not mapped  *)
(* the CPU stays in vector_sync, and nobody sees the slot half loaded.     *)
LoadHangs ==
  /\ "stray" \in Faults
  /\ \/ kernel = "boot"
     \/ Calling("spawn") /\ InState("FREE") # {} /\ Registry # BadWasm
     \/ /\ Calling("proc_restart") \/ Calling("module_reload")
        /\ \E s \in Slots : table[s].name \in Registry \ BadWasm
  /\ kernel' = "halt"
  /\ UNCHANGED <<table, nextId, currentId, call, trapped>>

-----------------------------------------------------------------------------
KernelStep == LoadInit \/ RunFirstReady \/ ReadyQueueEmpty \/ ProcSchedule
CallEnds   == CallReturns \/ CallTraps
HostCall   == \/ \E name \in Registry : HostSpawn(name)
              \/ HostExit \/ WasiProcExit
              \/ \E id \in Ids : HostProcKill(id) \/ HostProcRestart(id)
              \/ \E s \in Slots : HostModuleReload(s)

Next == KernelStep \/ CallEnds \/ HostCall \/ LoadHangs

Spec == Init /\ [][Next]_vars

(* The kernel does not stop between two instructions, and a module that is *)
(* called is assumed to finish: a shell that never does keeps the CPU.     *)
FairSpec == Spec /\ WF_vars(KernelStep) /\ WF_vars(CallEnds)
-----------------------------------------------------------------------------
TypeOK == /\ table \in [Slots -> SlotRec]
          /\ nextId \in 1 .. MaxLoads + 1
          /\ currentId \in Ids
          /\ call \in [slot : Slots, rt : Ids \ {0}] \cup {NoCall}
          /\ kernel \in KernelPhases
          /\ trapped \subseteq Ids \ {0}

(* No two slots ever carry the same identifier, so the searches by         *)
(* identifier in run_module, terminate_module and the proc_ functions find *)
(* the one slot meant, although reload puts an old identifier back and     *)
(* failed loads leave theirs behind in FREE slots.                         *)
IdsDistinct ==
  \A s \in Slots : /\ table[s].id < nextId
                   /\ \A t \in Slots \ {s} :
                        table[s].id = table[t].id => table[s].id = 0

(* No two slots share a runtime: get_current_pid, which maps the runtime   *)
(* of a host call to a module, can match one slot at most.                 *)
RuntimesDistinct ==
  \A s \in Slots : /\ table[s].rt < nextId
                   /\ \A t \in Slots \ {s} :
                        table[s].rt = table[t].rt => table[s].rt = 0

(* A slot says RUNNING only of the module that is inside m3_Call, or of    *)
(* one whose call trapped: whatever the running module restarts, reloads   *)
(* or kills, the status that proc_get_status reports stays true of all     *)
(* modules that did not trap.                                              *)
RunningIsCalledOrTrapped ==
  \A s \in Slots : table[s].state = "RUNNING" =>
    \/ call = [slot |-> s, rt |-> table[s].rt]
    \/ table[s].rt \in trapped

(* A READY slot holds a runtime that has never been entered: no module is  *)
(* run a second time without having been loaded again.                     *)
ReadyNeverEntered ==
  \A s \in Slots : table[s].state = "READY" =>
    table[s].rt # 0 /\ table[s].rt # call.rt /\ table[s].rt \notin trapped

(* What the table says of the instance made by the i-th load.              *)
Instances == 1 .. MaxLoads
Queued(i) == \E s \in Slots : table[s].state = "READY" /\ table[s].rt = i

instancePhase ==
  [i \in Instances |-> IF i >= nextId THEN "unborn"
                       ELSE IF i = call.rt THEN "running"
                       ELSE IF Queued(i) THEN "queued" ELSE "over"]

(* The slot table implements the run queue: every load is queued, entered  *)
(* and left at most once, one at a time, whatever mixture of spawn, exit,  *)
(* kill, restart and reload the running modules call.                      *)
Queue == INSTANCE RunQueue WITH phase <- instancePhase
ImplementsRunQueue == Queue!Spec

(* wasm_host.c, line 1422: host_exit marks the calling module exited.      *)
ExitMarksCaller == [][HostExit => table'[call.slot].state = "EXITED"]_vars

(* A module that is ready to run does not stay so for ever: the kernel     *)
(* runs it, or a module that runs takes it off the queue.  What strands it *)
(* is a CPU that halts, and a trap, which ends run_ready_modules_c for all *)
(* modules; nothing else does, neither failing loads nor any sequence of   *)
(* host calls.                                                             *)
ReadyLeavesQueue ==
  \A i \in Instances :
    Queued(i) ~> (~Queued(i) \/ kernel = "halt" \/ trapped # {})
=============================================================================
