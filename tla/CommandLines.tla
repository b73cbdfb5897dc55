---------------------------- MODULE CommandLines ----------------------------
(***************************************************************************)
(* Command lines of modules over the slot table.  A module that is about   *)
(* to spawn another leaves a command line in pending_argv (host_set_argv); *)
(* the next load by host_spawn or host_spawn_redirect that succeeds takes  *)
(* it into module_argv of the new slot, and host_get_argv gives a module   *)
(* what its slot has.  One pending line serves all modules, a spawn that   *)
(* fails leaves it behind, and a slot that is restarted or reloaded, or    *)
(* freed and given another name by a load that fails, keeps what it had.   *)
(*                                                                         *)
(* A command line is the number of the call that set it; 0 stands for none *)
(* and for the module's own name, which host_spawn stores when nothing is  *)
(* pending.                                                                *)
(***************************************************************************)
EXTENDS ModuleRuntime

CONSTANT MaxLines       \* bound of the model: command lines that are set

ASSUME LinesAssumption == MaxLines \in Nat

VARIABLES
  pending,    \* pending_argv and pending_argc
  argv,       \* slot -> module_argv and module_argc
  lines,      \* history: command lines set so far
  misplaced,  \* history: lines whose slot got another name
  readings    \* history: which line was read from which slot, and its name

commandVars == <<pending, argv, lines, misplaced, readings>>
allVars     == <<vars, commandVars>>

NoLine == 0

CommandInit == /\ Init
               /\ pending = NoLine
               /\ argv = [s \in Slots |-> NoLine]
               /\ lines = 0
               /\ misplaced = {}
               /\ readings = {}

(* host_set_argv has no result, so it takes its second operand for its     *)
(* first and a word of the interpreter's stack for its length: a length    *)
(* from 128 on changes nothing, 0 empties the pending line, any other      *)
(* stores some line.                                                       *)
HostSetArgv ==
  /\ InCall
  /\ kernel # "halt"
  /\ \/ pending # NoLine /\ pending' = NoLine /\ UNCHANGED lines
     \/ lines < MaxLines /\ lines' = lines + 1 /\ pending' = lines'
  /\ UNCHANGED <<vars, argv, misplaced, readings>>

(* host_get_argv looks its caller up by current_module_id, among the slots *)
(* that are in use: a caller that was restarted meanwhile is not found.    *)
HostGetArgv ==
  /\ InCall
  /\ kernel # "halt"
  /\ \E s \in Slots :
       /\ First(s, {t \in WithId(currentId) : table[t].state # "FREE"})
       /\ argv[s] # NoLine
       /\ readings' = readings \cup
            {[line |-> argv[s], slot |-> call.slot, name |-> table[call.slot].name]}
  /\ UNCHANGED <<vars, pending, argv, lines, misplaced>>

LoadedNow(s) == table[s].state = "FREE" /\ table'[s].state = "READY"

(* Wrong on purpose: the pending line stays for the next spawn.            *)
KeepArgv ==
  /\ argv' = [s \in Slots |-> IF LoadedNow(s) THEN pending ELSE argv[s]]
  /\ UNCHANGED pending

(* Wrong on purpose: a spawn with nothing pending does not store the name. *)
StaleArgv ==
  /\ argv' = [s \in Slots |-> IF LoadedNow(s) /\ pending # NoLine THEN pending
                               ELSE argv[s]]
  /\ pending' = IF \E s \in Slots : LoadedNow(s) THEN NoLine ELSE pending

(* The tail of host_spawn and host_spawn_redirect, which a failed load     *)
(* does not reach.                                                         *)
TakeArgv ==
  /\ argv' = [s \in Slots |-> IF LoadedNow(s) THEN pending ELSE argv[s]]
  /\ pending' = IF \E s \in Slots : LoadedNow(s) THEN NoLine ELSE pending

(* The lines that a load which fails leaves in a slot under another name.  *)
LeftBehind == {argv[s] : s \in {t \in Slots : /\ table'[t].name # table[t].name
                                              /\ ~LoadedNow(t)}} \ {NoLine}

SpawnWithArgv == /\ \E name \in Registry : HostSpawn(name)
                 /\ TakeArgv
                 /\ misplaced' = misplaced \cup LeftBehind
                 /\ UNCHANGED <<lines, readings>>

OtherHostCall == \/ HostExit \/ WasiProcExit
                 \/ \E id \in Ids : HostProcKill(id) \/ HostProcRestart(id)
                 \/ \E s \in Slots : HostModuleReload(s)

KernelGoesOn == KernelStep /\ UNCHANGED commandVars
CallGoesOn   == CallEnds /\ UNCHANGED commandVars

CommandNext == \/ HostSetArgv \/ HostGetArgv \/ SpawnWithArgv
               \/ KernelGoesOn \/ CallGoesOn
               \/ (OtherHostCall \/ LoadHangs) /\ UNCHANGED commandVars

CommandSpec == CommandInit /\ [][CommandNext]_allVars

(* As FairSpec of ModuleRuntime: the kernel does not stop, and a module    *)
(* that is called is assumed to finish.                                    *)
FairCommandSpec == /\ CommandSpec
                   /\ WF_allVars(KernelGoesOn) /\ WF_allVars(CallGoesOn)
-----------------------------------------------------------------------------
CommandTypeOK == /\ pending \in 0 .. lines
                 /\ argv \in [Slots -> 0 .. lines]
                 /\ lines \in 0 .. MaxLines
                 /\ misplaced \subseteq 1 .. lines
                 /\ readings \subseteq [line : 1 .. lines, slot : Slots, name : Names]

(* Whatever fails, is restarted or reloaded, the modules that ever get a   *)
(* command line from host_get_argv run in one slot, one after the other.   *)
(* They are the same program, started again, but for one case: a spawn     *)
(* that failed in the slot, when a failed restart or reload had freed it,  *)
(* left another name beside the line, and proc_restart started that.       *)
LineReachesItsModule ==
  \A a, b \in readings : a.line = b.line =>
    /\ a.slot = b.slot
    /\ a.name = b.name \/ a.line \in misplaced
=============================================================================
