-------------------------------- MODULE Ipc ---------------------------------
(***************************************************************************)
(* Semaphores, shared memory and message queues as modules see them: host  *)
(* functions of one kernel, called in any order by the module that runs,   *)
(* none of which looks at who calls.  What a module leaves behind when it  *)
(* ends stays for the ones after it.  A fault in the queues stops all.     *)
(***************************************************************************)
EXTENDS Semaphores, SharedMemory, MessageQueue

ipcVars == <<semVars, shmVars, msgVars>>

Init == SemInit /\ ShmInit /\ MsgInit

Next == /\ ~fault
        /\ \/ SemNext /\ UNCHANGED <<shmVars, msgVars>>
           \/ ShmNext /\ UNCHANGED <<semVars, msgVars>>
           \/ MsgNext /\ UNCHANGED <<semVars, shmVars>>

Spec == Init /\ [][Next]_ipcVars
-----------------------------------------------------------------------------
TypeOK == SemTypeOK /\ ShmTypeOK /\ MsgTypeOK
=============================================================================
