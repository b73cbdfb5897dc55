-------------------------- MODULE MCModuleRuntime ---------------------------
(* ModuleRuntime on a small table, for TLC.                                *)
EXTENDS ModuleRuntime

MCRegistry == {"shell", "stub"}
MCBadWasm  == {"stub"}

SpawnExitKill == {"spawn", "exit", "proc_kill"}

LoadFault  == {"load"}
=============================================================================
