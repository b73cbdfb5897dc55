------------------------------ MODULE RunQueue ------------------------------
(***************************************************************************)
(* What the module runtime of kernel/wasm_host.c promises about program    *)
(* instances, with the slot table, the identifiers and the kernel's boot   *)
(* phases abstracted away.  An instance is one successful or failed load   *)
(* of a WASM image.  It is queued at most once, dispatched at most once,   *)
(* never while another instance runs (run_module calls m3_Call             *)
(* synchronously), and nothing that is over ever comes back.               *)
(***************************************************************************)
CONSTANT Instances      \* the loads a behaviour may make

VARIABLE phase          \* instance -> how far it got

Phases == {"unborn", "queued", "running", "over"}

Move(i, from, to) == /\ phase[i] = from
                     /\ phase' = [phase EXCEPT ![i] = to]

(* A load puts a ready instance on the table, or fails and is over.        *)
Admit(i)  == Move(i, "unborn", "queued")
Reject(i) == Move(i, "unborn", "over")

(* A queued instance is killed, or its slot is marked exited.              *)
Cancel(i) == Move(i, "queued", "over")

(* Restart and reload put a new instance in the slot of a queued one.      *)
Replace(i, j) == /\ phase[i] = "queued"
                 /\ phase[j] = "unborn"
                 /\ \E to \in {"queued", "over"} :
                      phase' = [phase EXCEPT ![i] = "over", ![j] = to]

(* The kernel enters an instance: only when no instance is running.        *)
Dispatch(i) == /\ \A j \in Instances : phase[j] # "running"
               /\ Move(i, "queued", "running")

(* m3_Call returns, with or without a trap.                                *)
Finish(i) == Move(i, "running", "over")

Init == phase = [i \in Instances |-> "unborn"]

Next == \/ \E i \in Instances : \/ Admit(i)
                                \/ Reject(i)
                                \/ Cancel(i)
                                \/ Dispatch(i)
                                \/ Finish(i)
        \/ \E i, j \in Instances : Replace(i, j)

Spec == Init /\ [][Next]_phase
=============================================================================
