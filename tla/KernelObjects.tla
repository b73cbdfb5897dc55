---------------------------- MODULE KernelObjects ---------------------------
(***************************************************************************)
(* The tables of the kernel that all modules share, behind their host      *)
(* functions: semaphores, regions of memory and queues of messages (Ipc),  *)
(* descriptors and open files, environment variables, and kernel events.   *)
(* Modules call them in any order, and a fault in one stops all.           *)
(***************************************************************************)
EXTENDS Ipc, OpenFiles, Environment, KernelEvents

objectVars == <<ipcVars, fileVars, envVars, evtVars>>

ObjectsInit == Init /\ FilesInit /\ EnvInit /\ EvtInit

IpcCall   == ~fault /\ Next      /\ UNCHANGED <<fileVars, envVars, evtVars>>
FilesCall == ~fault /\ FilesNext /\ UNCHANGED <<ipcVars, envVars, evtVars>>
EnvCall   == ~fault /\ EnvNext   /\ UNCHANGED <<ipcVars, fileVars, evtVars>>
EvtCall   == ~fault /\ EvtNext   /\ UNCHANGED <<ipcVars, fileVars, envVars>>

ObjectsNext == IpcCall \/ FilesCall \/ EnvCall \/ EvtCall

ObjectsSpec == ObjectsInit /\ [][ObjectsNext]_objectVars
=============================================================================
