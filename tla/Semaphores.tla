----------------------------- MODULE Semaphores -----------------------------
(***************************************************************************)
(* The semaphore table of kernel/semaphore.asm.  Nothing blocks: a wait at *)
(* 0 is counted as a waiter and told so.  A call that fails changes        *)
(* nothing and is not an action; semaphore_get_value never changes a thing.*)
(*                                                                         *)
(* semaphore_create returns the identifier of the NEXT semaphore (it       *)
(* returns the register it has just counted up); what a call is given is   *)
(* any number anyway, so the result is not part of the state.              *)
(***************************************************************************)
EXTENDS Naturals

CONSTANTS SEM_MAX,        \* size of the table
          Word,           \* 2^32: values and waiters wrap
          InitialValues,  \* what modules create semaphores with
          MaxSemId        \* bound of the model on sem_next_id

ASSUME SemAssumption == /\ SEM_MAX \in Nat \ {0}
                        /\ Word \in Nat \ {0}
                        /\ InitialValues \subseteq 0 .. Word - 1
                        /\ MaxSemId \in Nat

VARIABLES semId, semValue, semWaiters, semState, semNextId

semVars == <<semId, semValue, semWaiters, semState, semNextId>>

Slots == 0 .. SEM_MAX - 1
SemStates == {"FREE", "ACTIVE", "WAITING"}

SemInit == /\ semId = [s \in Slots |-> 0]
           /\ semValue = [s \in Slots |-> 0]
           /\ semWaiters = [s \in Slots |-> 0]
           /\ semState = [s \in Slots |-> "FREE"]
           /\ semNextId = 1

(* _sem_lookup(h) = s.  The state is not looked at: unused slots have      *)
(* identifier 0, destroyed ones keep theirs.                               *)
Lookup(h, s) == semId[s] = h /\ \A t \in 0 .. s - 1 : semId[t] # h

(* Wrong on purpose: a semaphore nobody waits for is taken for a free one. *)
FirstNotWaiting(s) == /\ semState[s] # "WAITING"
                      /\ \A t \in 0 .. s - 1 : semState[t] = "WAITING"

FirstFree(s) == semState[s] = "FREE" /\ \A t \in 0 .. s - 1 : semState[t] # "FREE"

(* Wrong on purpose: the identifier given out is not counted.              *)
SemCreateAgain(v) ==
  \E s \in Slots :
    /\ FirstFree(s)
    /\ semId' = [semId EXCEPT ![s] = semNextId]
    /\ semValue' = [semValue EXCEPT ![s] = v]
    /\ semWaiters' = [semWaiters EXCEPT ![s] = 0]
    /\ semState' = [semState EXCEPT ![s] = "ACTIVE"]
    /\ UNCHANGED semNextId

SemCreate(v) ==
  /\ semNextId <= MaxSemId
  /\ \E s \in Slots :
       /\ FirstFree(s)
       /\ semId' = [semId EXCEPT ![s] = semNextId]
       /\ semValue' = [semValue EXCEPT ![s] = v]
       /\ semWaiters' = [semWaiters EXCEPT ![s] = 0]
       /\ semState' = [semState EXCEPT ![s] = "ACTIVE"]
  /\ semNextId' = semNextId + 1

(* What semaphore_wait and semaphore_try_wait do when the value is not 0;  *)
(* a task that had been counted as a waiter stays counted.                 *)
TakePermit(h) ==
  \E s \in Slots : /\ Lookup(h, s)
                   /\ semValue[s] # 0
                   /\ semValue' = [semValue EXCEPT ![s] = @ - 1]
                   /\ UNCHANGED <<semId, semWaiters, semState, semNextId>>

SemWait(h) ==
  \/ TakePermit(h)
  \/ \E s \in Slots :
       /\ Lookup(h, s)
       /\ semValue[s] = 0
       /\ semState' = [semState EXCEPT ![s] = "WAITING"]
       /\ semWaiters' = [semWaiters EXCEPT ![s] = (@ + 1) % Word]
       /\ UNCHANGED <<semId, semValue, semNextId>>

SemTryWait(h) == TakePermit(h)

(* Wrong on purpose: one post makes a semaphore active, waiters or not.    *)
SemPostActive(h) ==
  \E s \in Slots :
    /\ Lookup(h, s)
    /\ semValue' = [semValue EXCEPT ![s] = (@ + 1) % Word]
    /\ semWaiters' = [semWaiters EXCEPT ![s] = IF @ = 0 THEN 0 ELSE @ - 1]
    /\ semState' = [semState EXCEPT ![s] = IF @ = "WAITING" THEN "ACTIVE" ELSE @]
    /\ UNCHANGED <<semId, semNextId>>

SemPost(h) ==
  \E s \in Slots :
    LET served == semState[s] = "WAITING" /\ semWaiters[s] # 0
    IN  /\ Lookup(h, s)
        /\ semValue' = [semValue EXCEPT ![s] = (@ + 1) % Word]
        /\ semWaiters' = [semWaiters EXCEPT ![s] = IF served THEN @ - 1 ELSE @]
        /\ semState' = [semState EXCEPT ![s] =
                          IF served /\ semWaiters[s] = 1 THEN "ACTIVE" ELSE @]
        /\ UNCHANGED <<semId, semNextId>>

(* The identifier stays, so that the semaphore can still be found.         *)
SemDestroy(h) ==
  \E s \in Slots :
    /\ Lookup(h, s)
    /\ semState' = [semState EXCEPT ![s] = "FREE"]
    /\ semValue' = [semValue EXCEPT ![s] = 0]
    /\ semWaiters' = [semWaiters EXCEPT ![s] = 0]
    /\ UNCHANGED <<semId, semNextId>>

(* Modules call with any number; 0 names the first slot never used.        *)
SemHandles == 0 .. MaxSemId

SemNext == \/ \E v \in InitialValues : SemCreate(v)
           \/ \E h \in SemHandles : \/ SemWait(h) \/ SemTryWait(h)
                                    \/ SemPost(h) \/ SemDestroy(h)

SemSpec == SemInit /\ [][SemNext]_semVars
-----------------------------------------------------------------------------
SemTypeOK == /\ semId \in [Slots -> Nat]
             /\ semValue \in [Slots -> 0 .. Word - 1]
             /\ semWaiters \in [Slots -> 0 .. Word - 1]
             /\ semState \in [Slots -> SemStates]
             /\ semNextId \in Nat \ {0}

(* Whatever was created, destroyed and created again in the same slot, an  *)
(* identifier other than 0 names one semaphore: the search of _sem_lookup, *)
(* which also looks at free slots, cannot end at another one.              *)
IdsDistinct == \A s, t \in Slots : semId[s] = semId[t] /\ semId[s] # 0 => s = t

(* A semaphore somebody waits for says so, hence it is not taken for a new *)
(* one (semaphore_create tests the state only) and semaphore_post serves   *)
(* its waiters, through any mixture of waits, posts and wrapped counters.  *)
WaitersAreWaiting == \A s \in Slots : semWaiters[s] > 0 => semState[s] = "WAITING"

(* The table is a set of independent counters: calls reach the semaphore   *)
(* they name, and creation never takes the slot of one in use.             *)
Handles == 1 .. MaxSemId
KnownIds == {h \in Handles : \E s \in Slots : semId[s] = h}
IdsInUse == {h \in Handles : \E s \in Slots : semId[s] = h /\ semState[s] # "FREE"}
CountAt(ids, values, h) == IF \E s \in Slots : ids[s] = h
                           THEN values[CHOOSE s \in Slots : ids[s] = h] ELSE 0
Counters == INSTANCE CountingSemaphores
              WITH known <- KnownIds,
                   inUse <- IdsInUse,
                   count <- [h \in Handles |-> CountAt(semId, semValue, h)],
                   next  <- semNextId
ImplementsCounters == Counters!Spec
=============================================================================
