------------------------- MODULE CountingSemaphores -------------------------
(***************************************************************************)
(* What the semaphores of kernel/semaphore.asm do for the modules that use *)
(* them: one counter per identifier.  An identifier is given out once.     *)
(* Creating a semaphore may make the table forget some that were           *)
(* destroyed, and never one in use; every other call changes the semaphore *)
(* it names and no other.  A destroyed semaphore that is not forgotten     *)
(* still counts, and a wait that finds it at 0 puts it in use again.       *)
(***************************************************************************)
EXTENDS Naturals

CONSTANTS Handles,        \* the identifiers
          Word,           \* counters are numbers modulo this
          InitialValues   \* what modules create semaphores with

VARIABLES known, inUse, count, next

vars == <<known, inUse, count, next>>

Init == /\ known = {} /\ inUse = {}
        /\ count = [h \in Handles |-> 0]
        /\ next = 1

Create(v) ==
  /\ next \in Handles
  /\ \E gone \in SUBSET (known \ inUse) :
       /\ known' = (known \ gone) \cup {next}
       /\ count' = [h \in Handles |-> IF h = next THEN v
                                      ELSE IF h \in gone THEN 0 ELSE count[h]]
  /\ inUse' = inUse \cup {next}
  /\ next' = next + 1

Set(h, n) == count' = [i \in Handles |-> IF i = h THEN n ELSE count[i]]

Take(h) == /\ h \in known
           /\ count[h] > 0
           /\ Set(h, count[h] - 1)
           /\ UNCHANGED <<known, inUse, next>>

Block(h) == /\ h \in known
            /\ count[h] = 0
            /\ inUse' = inUse \cup {h}
            /\ UNCHANGED <<known, count, next>>

Post(h) == /\ h \in known
           /\ Set(h, (count[h] + 1) % Word)
           /\ UNCHANGED <<known, inUse, next>>

Destroy(h) == /\ h \in known
              /\ inUse' = inUse \ {h}
              /\ Set(h, 0)
              /\ UNCHANGED <<known, next>>

Next == \/ \E v \in InitialValues : Create(v)
        \/ \E h \in Handles : Take(h) \/ Block(h) \/ Post(h) \/ Destroy(h)

Spec == Init /\ [][Next]_vars
=============================================================================
