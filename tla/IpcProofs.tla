------------------------------ MODULE IpcProofs -----------------------------
(* Semaphores (kernel/semaphore.asm), shared memory (kernel/shmem.asm) and *)
(* message queues (kernel/msg.asm), each alone and beside the others, for  *)
(* every number of slots and regions, every width of the counters,         *)
(* capacity of a queue and size of a message.                              *)
EXTENDS Ipc, TLAPS

-----------------------------------------------------------------------------
(* Semaphores: each identifier names one counter.                          *)
(* Identifiers are given out in order, which keeps them apart.             *)
IdsGivenOut == \A s \in Slots : semId[s] < semNextId

SemInv == SemTypeOK /\ IdsGivenOut /\ IdsDistinct /\ WaitersAreWaiting

LEMMA WrapsInWord ==
  ASSUME NEW n \in 0 .. Word - 1
  PROVE  (n + 1) % Word \in 0 .. Word - 1
BY SemAssumption

LEMMA InitInv == SemInit => SemInv
BY SemAssumption DEF SemInit, SemInv, SemTypeOK, IdsGivenOut, IdsDistinct,
                     WaitersAreWaiting, SemStates

LEMMA CreateInv ==
  ASSUME SemInv, NEW v \in InitialValues, SemCreate(v)
  PROVE  SemInv'
<1>1. PICK s \in Slots : /\ FirstFree(s)
                         /\ semId' = [semId EXCEPT ![s] = semNextId]
                         /\ semValue' = [semValue EXCEPT ![s] = v]
                         /\ semWaiters' = [semWaiters EXCEPT ![s] = 0]
                         /\ semState' = [semState EXCEPT ![s] = "ACTIVE"]
  BY DEF SemCreate
<1>2. semNextId' = semNextId + 1 /\ v \in 0 .. Word - 1 /\ 0 \in 0 .. Word - 1
  BY SemAssumption DEF SemCreate
<1>3. SemTypeOK'
  BY <1>1, <1>2 DEF SemInv, SemTypeOK, SemStates
<1>4. IdsGivenOut'
  BY <1>1, <1>2 DEF SemInv, SemTypeOK, IdsGivenOut
<1>5. IdsDistinct'
  BY <1>1 DEF SemInv, SemTypeOK, IdsGivenOut, IdsDistinct
<1>6. WaitersAreWaiting'
  BY <1>1 DEF SemInv, SemTypeOK, WaitersAreWaiting
<1> QED
  BY <1>3, <1>4, <1>5, <1>6 DEF SemInv

(* No other call touches the identifiers.                                  *)
LEMMA SameIds ==
  ASSUME SemInv, UNCHANGED <<semId, semNextId>>
  PROVE  IdsGivenOut' /\ IdsDistinct'
BY DEF SemInv, IdsGivenOut, IdsDistinct

LEMMA TakeInv ==
  ASSUME SemInv, NEW h, TakePermit(h)
  PROVE  SemInv'
<1>1. PICK s \in Slots : /\ semValue[s] # 0
                         /\ semValue' = [semValue EXCEPT ![s] = @ - 1]
                         /\ UNCHANGED <<semId, semWaiters, semState, semNextId>>
  BY DEF TakePermit
<1>2. semValue[s] - 1 \in 0 .. Word - 1
  BY <1>1, SemAssumption DEF SemInv, SemTypeOK
<1>3. SemTypeOK'
  BY <1>1, <1>2 DEF SemInv, SemTypeOK
<1>4. WaitersAreWaiting'
  BY <1>1 DEF SemInv, WaitersAreWaiting
<1> QED
  BY <1>1, <1>3, <1>4, SameIds DEF SemInv

LEMMA WaitInv ==
  ASSUME SemInv, NEW h, SemWait(h)
  PROVE  SemInv'
<1>1. CASE TakePermit(h)
  BY <1>1, TakeInv
<1>2. CASE ~TakePermit(h)
  <2>1. PICK s \in Slots :
          /\ semState' = [semState EXCEPT ![s] = "WAITING"]
          /\ semWaiters' = [semWaiters EXCEPT ![s] = (@ + 1) % Word]
          /\ UNCHANGED <<semId, semValue, semNextId>>
    BY <1>2 DEF SemWait
  <2>2. (semWaiters[s] + 1) % Word \in 0 .. Word - 1
    BY WrapsInWord DEF SemInv, SemTypeOK
  <2>3. SemTypeOK'
    BY <2>1, <2>2 DEF SemInv, SemTypeOK, SemStates
  <2>4. WaitersAreWaiting'
    BY <2>1 DEF SemInv, SemTypeOK, WaitersAreWaiting
  <2> QED
    BY <2>1, <2>3, <2>4, SameIds DEF SemInv
<1> QED
  BY <1>1, <1>2

LEMMA PostInv ==
  ASSUME SemInv, NEW h, SemPost(h)
  PROVE  SemInv'
<1>1. PICK s \in Slots :
        LET served == semState[s] = "WAITING" /\ semWaiters[s] # 0
        IN  /\ semValue' = [semValue EXCEPT ![s] = (@ + 1) % Word]
            /\ semWaiters' = [semWaiters EXCEPT ![s] = IF served THEN @ - 1 ELSE @]
            /\ semState' = [semState EXCEPT ![s] =
                              IF served /\ semWaiters[s] = 1 THEN "ACTIVE" ELSE @]
            /\ UNCHANGED <<semId, semNextId>>
  BY DEF SemPost
<1>2. (semValue[s] + 1) % Word \in 0 .. Word - 1
  BY WrapsInWord DEF SemInv, SemTypeOK
<1>3. SemTypeOK'
  <2>1. semWaiters[s] # 0 => semWaiters[s] - 1 \in 0 .. Word - 1
    BY SemAssumption DEF SemInv, SemTypeOK
  <2>2. semWaiters' \in [Slots -> 0 .. Word - 1]
    BY <1>1, <2>1 DEF SemInv, SemTypeOK
  <2> QED
    BY <1>1, <1>2, <2>2 DEF SemInv, SemTypeOK, SemStates
<1>4. WaitersAreWaiting'
  <2> SUFFICES ASSUME NEW t \in Slots, semWaiters'[t] > 0
               PROVE  semState'[t] = "WAITING"
    BY DEF WaitersAreWaiting
  <2>1. CASE t # s
    BY <1>1, <2>1 DEF SemInv, SemTypeOK, WaitersAreWaiting
  <2>2. CASE t = s
    BY <1>1, <2>2 DEF SemInv, SemTypeOK, WaitersAreWaiting
  <2> QED
    BY <2>1, <2>2
<1> QED
  BY <1>1, <1>3, <1>4, SameIds DEF SemInv

LEMMA DestroyInv ==
  ASSUME SemInv, NEW h, SemDestroy(h)
  PROVE  SemInv'
<1>1. PICK s \in Slots : /\ semState' = [semState EXCEPT ![s] = "FREE"]
                         /\ semValue' = [semValue EXCEPT ![s] = 0]
                         /\ semWaiters' = [semWaiters EXCEPT ![s] = 0]
                         /\ UNCHANGED <<semId, semNextId>>
  BY DEF SemDestroy
<1>2. SemTypeOK'
  BY <1>1, SemAssumption DEF SemInv, SemTypeOK, SemStates
<1>3. WaitersAreWaiting'
  BY <1>1 DEF SemInv, SemTypeOK, WaitersAreWaiting
<1> QED
  BY <1>1, <1>2, <1>3, SameIds DEF SemInv

LEMMA NextInv == SemInv /\ [SemNext]_semVars => SemInv'
<1> SUFFICES ASSUME SemInv, [SemNext]_semVars
             PROVE  SemInv'
  OBVIOUS
<1>1. ASSUME NEW v \in InitialValues, SemCreate(v) PROVE SemInv'
  BY <1>1, CreateInv
<1>2. ASSUME NEW h \in SemHandles, SemWait(h) PROVE SemInv'
  BY <1>2, WaitInv
<1>3. ASSUME NEW h \in SemHandles, SemTryWait(h) PROVE SemInv'
  BY <1>3, TakeInv DEF SemTryWait
<1>4. ASSUME NEW h \in SemHandles, SemPost(h) PROVE SemInv'
  BY <1>4, PostInv
<1>5. ASSUME NEW h \in SemHandles, SemDestroy(h) PROVE SemInv'
  BY <1>5, DestroyInv
<1>6. CASE UNCHANGED semVars
  BY <1>6 DEF semVars, SemInv, SemTypeOK, IdsGivenOut, IdsDistinct, WaitersAreWaiting
<1> QED
  BY <1>1, <1>2, <1>3, <1>4, <1>5, <1>6 DEF SemNext

LEMMA SpecInv == SemSpec => []SemInv
BY InitInv, NextInv, PTL DEF SemSpec

(* The table keeps its types for every width of the counters: no sequence  *)
(* of calls takes a value or a number of waiters below 0.                  *)
THEOREM SemTypeCorrect == SemSpec => []SemTypeOK
<1>1. SemInv => SemTypeOK
  BY DEF SemInv
<1> QED
  BY <1>1, SpecInv, PTL

(* An identifier of semaphore_create names one slot for ever, in use or    *)
(* destroyed, until the slot is taken for another semaphore.               *)
THEOREM IdsStayDistinct == SemSpec => []IdsDistinct
<1>1. SemInv => IdsDistinct
  BY DEF SemInv
<1> QED
  BY <1>1, SpecInv, PTL

(* A semaphore with waiters is never in a state in which semaphore_create  *)
(* takes it or semaphore_post ignores its waiters.                         *)
THEOREM WaitersStayWaiting == SemSpec => []WaitersAreWaiting
<1>1. SemInv => WaitersAreWaiting
  BY DEF SemInv
<1> QED
  BY <1>1, SpecInv, PTL
-----------------------------------------------------------------------------
(* What the table says about an identifier depends on one slot only.       *)
LEMMA CountAtSlot ==
  ASSUME NEW ids, NEW values, NEW s \in Slots,
         \A t \in Slots : ids[t] = ids[s] => t = s
  PROVE  CountAt(ids, values, ids[s]) = values[s]
BY DEF CountAt

LEMMA CountAtElsewhere ==
  ASSUME NEW ids, NEW values, NEW new, NEW i,
         \A p, q \in Slots : ids[p] = i /\ ids[q] = i => p = q,
         \A t \in Slots : ids[t] = i => new[t] = values[t]
  PROVE  CountAt(ids, new, i) = CountAt(ids, values, i)
<1>1. CASE \E t \in Slots : ids[t] = i
  <2>1. PICK t \in Slots : ids[t] = i
    BY <1>1
  <2>2. \A u \in Slots : ids[u] = ids[t] => u = t
    BY <2>1
  <2>3. CountAt(ids, new, ids[t]) = new[t] /\ CountAt(ids, values, ids[t]) = values[t]
    BY <2>2, CountAtSlot
  <2> QED
    BY <2>1, <2>3
<1>2. CASE ~\E t \in Slots : ids[t] = i
  BY <1>2 DEF CountAt
<1> QED
  BY <1>1, <1>2

LEMMA InitMaps == SemInit => Counters!Init
<1> SUFFICES ASSUME SemInit PROVE Counters!Init
  OBVIOUS
<1>1. ASSUME NEW h \in Handles PROVE ~\E s \in Slots : semId[s] = h
  BY DEF SemInit, Handles
<1>2. KnownIds = {} /\ IdsInUse = {}
  BY <1>1 DEF KnownIds, IdsInUse
<1>3. [h \in Handles |-> CountAt(semId, semValue, h)] = [h \in Handles |-> 0]
  BY <1>1 DEF CountAt
<1> QED
  BY <1>2, <1>3 DEF SemInit, Counters!Init

LEMMA CreateMaps ==
  ASSUME SemInv, NEW v \in InitialValues, SemCreate(v)
  PROVE  Counters!Create(v)
<1>1. PICK s \in Slots : /\ FirstFree(s)
                         /\ semId' = [semId EXCEPT ![s] = semNextId]
                         /\ semValue' = [semValue EXCEPT ![s] = v]
                         /\ semState' = [semState EXCEPT ![s] = "ACTIVE"]
  BY DEF SemCreate
<1>2. semNextId' = semNextId + 1 /\ semNextId \in Handles
  BY SemAssumption DEF SemCreate, SemInv, SemTypeOK, Handles
<1> DEFINE gone == {semId[s]} \ {0}
<1>3. gone \subseteq KnownIds \ IdsInUse
  <2> SUFFICES ASSUME semId[s] # 0 PROVE semId[s] \in KnownIds \ IdsInUse
    OBVIOUS
  <2>1. semId[s] \in Handles
    BY <1>2, SemAssumption DEF SemInv, SemTypeOK, IdsGivenOut, Handles
  <2>2. semState[s] = "FREE"
    BY <1>1 DEF FirstFree
  <2> QED
    BY <2>1, <2>2 DEF SemInv, IdsDistinct, KnownIds, IdsInUse
<1>4. KnownIds' = (KnownIds \ gone) \cup {semNextId}
  BY <1>1, <1>2 DEF SemInv, SemTypeOK, IdsDistinct, KnownIds, Handles
<1>5. IdsInUse' = IdsInUse \cup {semNextId}
  BY <1>1, <1>2 DEF SemInv, SemTypeOK, IdsDistinct, IdsInUse, Handles, FirstFree
<1>6. ASSUME NEW h \in Handles
      PROVE  CountAt(semId, semValue, h)' =
               IF h = semNextId THEN v
               ELSE IF h \in gone THEN 0 ELSE CountAt(semId, semValue, h)
  <2>0. h # 0 /\ semId \in [Slots -> Nat] /\ semValue \in [Slots -> 0 .. Word - 1]
    BY DEF Handles, SemInv, SemTypeOK
  <2>1. CASE h = semNextId
    <3>1. semId'[s] = semNextId /\ semValue'[s] = v
      BY <1>1, <2>0
    <3>2. \A t \in Slots : semId'[t] = semId'[s] => t = s
      BY <1>1, <2>0 DEF SemInv, SemTypeOK, IdsGivenOut
    <3> QED
      BY <2>1, <3>1, <3>2, CountAtSlot
  <2>2. CASE h # semNextId /\ h = semId[s]
    BY <1>1, <2>0, <2>2 DEF SemInv, IdsDistinct, CountAt
  <2>3. CASE h # semNextId /\ h # semId[s] /\ \E t \in Slots : semId[t] = h
    <3>1. PICK t \in Slots : semId[t] = h
      BY <2>3
    <3>2. semId'[t] = h /\ semValue'[t] = semValue[t]
      BY <1>1, <2>0, <2>3, <3>1
    <3>3. \A u \in Slots : /\ semId[u] = semId[t] => u = t
                           /\ semId'[u] = semId'[t] => u = t
      BY <1>1, <2>0, <2>3, <3>1, <3>2 DEF SemInv, IdsDistinct
    <3>4. /\ CountAt(semId, semValue, semId[t]) = semValue[t]
          /\ CountAt(semId', semValue', semId'[t]) = semValue'[t]
      BY <3>3, CountAtSlot
    <3> QED
      BY <2>3, <3>1, <3>2, <3>4
  <2>4. CASE h # semNextId /\ h # semId[s] /\ ~\E t \in Slots : semId[t] = h
    BY <1>1, <2>0, <2>4 DEF CountAt
  <2> QED
    BY <2>0, <2>1, <2>2, <2>3, <2>4
<1>7. [h \in Handles |-> CountAt(semId, semValue, h)]' =
        [h \in Handles |-> IF h = semNextId THEN v
                           ELSE IF h \in gone THEN 0
                           ELSE [i \in Handles |-> CountAt(semId, semValue, i)][h]]
  BY <1>6
<1> QED
  BY <1>2, <1>3, <1>4, <1>5, <1>7 DEF Counters!Create

(* Setting the value of slot s sets the counter of its identifier, and     *)
(* none if that is 0.                                                      *)
LEMMA SetMaps ==
  ASSUME SemInv, NEW s \in Slots, NEW n,
         semValue' = [semValue EXCEPT ![s] = n], UNCHANGED semId
  PROVE  /\ semId[s] \in Handles => Counters!Set(semId[s], n)
         /\ semId[s] = 0 => UNCHANGED [h \in Handles |-> CountAt(semId, semValue, h)]
         /\ UNCHANGED KnownIds
<1>1. ASSUME NEW h \in Handles
      PROVE  CountAt(semId, semValue, h)' =
               IF h = semId[s] THEN n ELSE CountAt(semId, semValue, h)
  <2>1. h \in Nat \ {0} /\ semValue \in [Slots -> 0 .. Word - 1]
    BY DEF Handles, SemInv, SemTypeOK
  <2>2. \A p, q \in Slots : semId[p] = semId[q] /\ semId[p] # 0 => p = q
    BY DEF SemInv, IdsDistinct
  <2>3. semValue'[s] = n /\ \A t \in Slots : t # s => semValue'[t] = semValue[t]
    BY <2>1
  <2>4. CASE h = semId[s]
    <3>1. \A t \in Slots : semId[t] = semId[s] => t = s
      BY <2>1, <2>2, <2>4
    <3>2. ASSUME NEW values PROVE CountAt(semId, values, semId[s]) = values[s]
      BY <3>1, CountAtSlot
    <3> QED
      BY <2>3, <2>4, <3>2
  <2>5. CASE h # semId[s]
    <3>1. \A p, q \in Slots : semId[p] = h /\ semId[q] = h => p = q
      BY <2>1, <2>2
    <3>2. \A t \in Slots : semId[t] = h => semValue'[t] = semValue[t]
      BY <2>3, <2>5
    <3>3. CountAt(semId, semValue', h) = CountAt(semId, semValue, h)
      BY <3>1, <3>2, CountAtElsewhere
    <3> QED
      BY <2>5, <3>3
  <2> QED
    BY <2>4, <2>5
<1>2. semId[s] \in Handles => Counters!Set(semId[s], n)
  BY <1>1 DEF Counters!Set
<1>3. semId[s] = 0 => UNCHANGED [h \in Handles |-> CountAt(semId, semValue, h)]
  <2> SUFFICES ASSUME semId[s] = 0
               PROVE  UNCHANGED [h \in Handles |-> CountAt(semId, semValue, h)]
    OBVIOUS
  <2>1. \A h \in Handles : h # semId[s]
    BY DEF Handles
  <2>2. \A h \in Handles : CountAt(semId, semValue, h)' = CountAt(semId, semValue, h)
    BY <1>1, <2>1
  <2> QED
    BY <2>2, Zenon
<1>4. UNCHANGED KnownIds
  BY DEF KnownIds
<1> QED
  BY <1>2, <1>3, <1>4

(* What the counters are when a call finds h in slot s.                    *)
LEMMA FoundIs ==
  ASSUME SemInv, NEW s \in Slots, semId[s] \in Handles
  PROVE  /\ semId[s] \in KnownIds
         /\ [h \in Handles |-> CountAt(semId, semValue, h)][semId[s]] = semValue[s]
<1>1. \A t \in Slots : semId[t] = semId[s] => t = s
  BY DEF SemInv, IdsDistinct, Handles
<1> QED
  BY <1>1, CountAtSlot DEF KnownIds

LEMMA TakeMaps ==
  ASSUME SemInv, NEW h \in SemHandles, TakePermit(h)
  PROVE  Counters!Take(h) \/ UNCHANGED Counters!vars
<1>1. PICK s \in Slots : /\ semId[s] = h
                         /\ semValue[s] # 0
                         /\ semValue' = [semValue EXCEPT ![s] = semValue[s] - 1]
                         /\ UNCHANGED <<semId, semWaiters, semState, semNextId>>
  BY DEF TakePermit, Lookup
<1>2. UNCHANGED IdsInUse
  BY <1>1 DEF IdsInUse
<1>3. CASE h \in Handles
  <2>1. semValue[s] > 0
    BY <1>1 DEF SemInv, SemTypeOK
  <2> QED
    BY <1>1, <1>2, <1>3, <2>1, SetMaps, FoundIs DEF Counters!Take
<1>4. CASE h = 0
  BY <1>1, <1>2, <1>4, SetMaps DEF Counters!vars
<1> QED
  BY <1>3, <1>4, SemAssumption DEF SemHandles, Handles

LEMMA WaitMaps ==
  ASSUME SemInv, NEW h \in SemHandles, SemWait(h)
  PROVE  Counters!Take(h) \/ Counters!Block(h) \/ UNCHANGED Counters!vars
<1>1. CASE TakePermit(h)
  BY <1>1, TakeMaps
<1>2. CASE ~TakePermit(h)
  <2>1. PICK s \in Slots : /\ semId[s] = h
                           /\ semValue[s] = 0
                           /\ semState' = [semState EXCEPT ![s] = "WAITING"]
                           /\ UNCHANGED <<semId, semValue, semNextId>>
    BY <1>2 DEF SemWait, Lookup
  <2>2. /\ UNCHANGED KnownIds
        /\ UNCHANGED [i \in Handles |-> CountAt(semId, semValue, i)]
    BY <2>1 DEF KnownIds, CountAt
  <2>3. CASE h \in Handles
    <3>1. IdsInUse' = IdsInUse \cup {h}
      BY <2>1, <2>3 DEF IdsInUse, SemInv, SemTypeOK
    <3> QED
      BY <2>1, <2>2, <2>3, <3>1, FoundIs DEF Counters!Block
  <2>4. CASE h = 0
    <3>1. UNCHANGED IdsInUse
      BY <2>1, <2>4 DEF IdsInUse, Handles, SemInv, SemTypeOK
    <3> QED
      BY <2>1, <2>2, <3>1 DEF Counters!vars
  <2> QED
    BY <2>3, <2>4, SemAssumption DEF SemHandles, Handles
<1> QED
  BY <1>1, <1>2

LEMMA PostMaps ==
  ASSUME SemInv, NEW h \in SemHandles, SemPost(h)
  PROVE  Counters!Post(h) \/ UNCHANGED Counters!vars
<1>1. PICK s \in Slots :
        /\ semId[s] = h
        /\ semValue' = [semValue EXCEPT ![s] = (semValue[s] + 1) % Word]
        /\ semState' = [semState EXCEPT ![s] =
                IF semState[s] = "WAITING" /\ semWaiters[s] # 0 /\ semWaiters[s] = 1
                THEN "ACTIVE" ELSE semState[s]]
        /\ UNCHANGED <<semId, semNextId>>
  BY DEF SemPost, Lookup
<1>2. UNCHANGED IdsInUse
  BY <1>1 DEF IdsInUse, SemInv, SemTypeOK
<1>3. CASE h \in Handles
  BY <1>1, <1>2, <1>3, SetMaps, FoundIs DEF Counters!Post
<1>4. CASE h = 0
  BY <1>1, <1>2, <1>4, SetMaps DEF Counters!vars
<1> QED
  BY <1>3, <1>4, SemAssumption DEF SemHandles, Handles

LEMMA DestroyMaps ==
  ASSUME SemInv, NEW h \in SemHandles, SemDestroy(h)
  PROVE  Counters!Destroy(h) \/ UNCHANGED Counters!vars
<1>1. PICK s \in Slots : /\ semId[s] = h
                         /\ semState' = [semState EXCEPT ![s] = "FREE"]
                         /\ semValue' = [semValue EXCEPT ![s] = 0]
                         /\ UNCHANGED <<semId, semNextId>>
  BY DEF SemDestroy, Lookup
<1>2. CASE h \in Handles
  <2>1. IdsInUse' = IdsInUse \ {h}
    BY <1>1, <1>2 DEF IdsInUse, Handles, SemInv, SemTypeOK, IdsDistinct
  <2> QED
    BY <1>1, <1>2, <2>1, SetMaps, FoundIs DEF Counters!Destroy
<1>3. CASE h = 0
  <2>1. UNCHANGED IdsInUse
    BY <1>1, <1>3 DEF IdsInUse, Handles, SemInv, SemTypeOK
  <2> QED
    BY <1>1, <1>3, <2>1, SetMaps DEF Counters!vars
<1> QED
  BY <1>2, <1>3, SemAssumption DEF SemHandles, Handles

LEMMA NextMaps == SemInv /\ [SemNext]_semVars => [Counters!Next]_Counters!vars
<1> SUFFICES ASSUME SemInv, [SemNext]_semVars
             PROVE  [Counters!Next]_Counters!vars
  OBVIOUS
<1>1. ASSUME NEW v \in InitialValues, SemCreate(v)
      PROVE  Counters!Next
  BY <1>1, CreateMaps DEF Counters!Next
<1>2. ASSUME NEW h \in SemHandles, SemWait(h) \/ SemTryWait(h)
      PROVE  [Counters!Next]_Counters!vars
  <2>1. Counters!Take(h) \/ Counters!Block(h) \/ UNCHANGED Counters!vars
    BY <1>2, WaitMaps, TakeMaps DEF SemTryWait
  <2>2. Counters!Take(h) \/ Counters!Block(h) => h \in Handles
    BY DEF Counters!Take, Counters!Block, KnownIds
  <2> QED
    BY <2>1, <2>2 DEF Counters!Next
<1>3. ASSUME NEW h \in SemHandles, SemPost(h)
      PROVE  [Counters!Next]_Counters!vars
  <2>1. Counters!Post(h) => h \in Handles
    BY DEF Counters!Post, KnownIds
  <2> QED
    BY <1>3, <2>1, PostMaps DEF Counters!Next
<1>4. ASSUME NEW h \in SemHandles, SemDestroy(h)
      PROVE  [Counters!Next]_Counters!vars
  <2>1. Counters!Destroy(h) => h \in Handles
    BY DEF Counters!Destroy, KnownIds
  <2> QED
    BY <1>4, <2>1, DestroyMaps DEF Counters!Next
<1>5. CASE UNCHANGED semVars
  <2>1. UNCHANGED KnownIds /\ UNCHANGED IdsInUse
    BY <1>5 DEF semVars, KnownIds, IdsInUse
  <2>2. UNCHANGED [h \in Handles |-> CountAt(semId, semValue, h)]
    BY <1>5 DEF semVars, CountAt
  <2> QED
    BY <1>5, <2>1, <2>2 DEF semVars, Counters!vars
<1> QED
  BY <1>1, <1>2, <1>3, <1>4, <1>5 DEF SemNext

(* For every size of the table and every width of its counters, the calls  *)
(* of semaphore.asm are operations on independent counters: none reaches   *)
(* another semaphore than the one it names, and creation takes no slot of  *)
(* one in use.                                                             *)
THEOREM TableIsCounters == SemSpec => ImplementsCounters
<1>1. SemInv /\ [SemNext]_semVars => [Counters!Next]_Counters!vars
  BY NextMaps
<1> QED
  BY InitMaps, SpecInv, <1>1, PTL DEF SemSpec, ImplementsCounters, Counters!Spec
-----------------------------------------------------------------------------
(* Shared memory.                                                          *)
ShmInv == ShmTypeOK /\ RefsMatchFlags /\ FreeIsEmpty

LEMMA ShmInitInv == ShmInit => ShmInv
BY ShmAssumption DEF ShmInit, ShmInv, ShmTypeOK, RefsMatchFlags, FreeIsEmpty,
                     InUse, Bits, Refs

(* What a region may look like that nobody has meddled with.               *)
RegionOK(f, n, d) == /\ n = 0 <=> f = {}
                     /\ n = 1 <=> "ALLOCATED" \in f
                     /\ n > 1 <=> "SHARED" \in f
                     /\ f = {} => d = Zero

LEMMA RegionIs ==
  ASSUME ShmInv, NEW r \in Regions
  PROVE  /\ shmFlags[r] \in SUBSET Bits /\ shmRefs[r] \in Refs /\ shmData[r] \in Data
         /\ r \in shmMeddled \/ RegionOK(shmFlags[r], shmRefs[r], shmData[r])
BY DEF ShmInv, ShmTypeOK, RefsMatchFlags, FreeIsEmpty, InUse, RegionOK

(* It is enough to look at the region a call names.                        *)
OthersUnchanged(r) ==
  \A q \in Regions \ {r} :
    /\ shmFlags'[q] = shmFlags[q]
    /\ shmRefs'[q] = shmRefs[q]
    /\ shmData'[q] = shmData[q]
    /\ q \in shmMeddled => q \in shmMeddled'

LEMMA OneRegion ==
  ASSUME ShmInv, ShmTypeOK', NEW r \in Regions, OthersUnchanged(r),
         r \in shmMeddled' \/ RegionOK(shmFlags'[r], shmRefs'[r], shmData'[r])
  PROVE  ShmInv'
<1>1. ASSUME NEW q \in Regions, q \notin shmMeddled'
      PROVE  RegionOK(shmFlags'[q], shmRefs'[q], shmData'[q])
  BY <1>1, RegionIs DEF OthersUnchanged
<1> QED
  BY <1>1 DEF ShmInv, RefsMatchFlags, FreeIsEmpty, InUse, RegionOK

LEMMA AllocInv ==
  ASSUME ShmInv, ShmAlloc
  PROVE  ShmInv'
<1>1. PICK r \in Regions : /\ shmFlags' = [shmFlags EXCEPT ![r] = {"ALLOCATED"}]
                           /\ shmRefs' = [shmRefs EXCEPT ![r] = 1]
                           /\ shmMeddled' = shmMeddled \ {r}
                           /\ UNCHANGED shmData
  BY DEF ShmAlloc
<1>2. 1 \in Refs
  BY ShmAssumption DEF Refs
<1>3. ShmTypeOK' /\ OthersUnchanged(r)
  BY <1>1, <1>2 DEF ShmInv, ShmTypeOK, OthersUnchanged, Bits, State
<1>4. RegionOK(shmFlags'[r], shmRefs'[r], shmData'[r])
  BY <1>1 DEF ShmInv, ShmTypeOK, RegionOK
<1> QED
  BY <1>3, <1>4, OneRegion

LEMMA ClearInv ==
  ASSUME ShmInv, NEW r \in Regions, Clear(r)
  PROVE  ShmInv'
<1>1. 0 \in Refs
  BY ShmAssumption DEF Refs
<1>2. ShmTypeOK' /\ OthersUnchanged(r)
  BY <1>1, ShmAssumption DEF Clear, ShmInv, ShmTypeOK, OthersUnchanged
<1>3. RegionOK(shmFlags'[r], shmRefs'[r], shmData'[r])
  BY DEF Clear, ShmInv, ShmTypeOK, RegionOK
<1> QED
  BY <1>2, <1>3, OneRegion

LEMMA AttachInv ==
  ASSUME ShmInv, NEW r \in Regions, ShmAttach(r)
  PROVE  ShmInv'
<1>1. (shmRefs[r] + 1) % RefWord \in Refs
  BY RegionIs, ShmAssumption DEF Refs
<1>2. ShmTypeOK' /\ OthersUnchanged(r)
  BY <1>1 DEF ShmAttach, ShmInv, ShmTypeOK, OthersUnchanged, Bits, State
<1>3. CASE r \in shmMeddled
  BY <1>2, <1>3, OneRegion DEF ShmAttach
<1>4. CASE r \notin shmMeddled
  <2>1. shmRefs[r] \in Nat \ {0} /\ shmRefs[r] + 1 < RefWord
    BY <1>4, RegionIs DEF RegionOK, ShmAttach, Refs
  <2>2. (shmRefs[r] + 1) % RefWord = shmRefs[r] + 1
    BY <2>1, ShmAssumption
  <2>3. shmFlags'[r] = {"SHARED"} /\ shmRefs'[r] = shmRefs[r] + 1
    BY <2>2 DEF ShmAttach, ShmInv, ShmTypeOK
  <2>4. RegionOK(shmFlags'[r], shmRefs'[r], shmData'[r])
    BY <2>1, <2>3 DEF RegionOK
  <2> QED
    BY <1>2, <2>4, OneRegion
<1> QED
  BY <1>3, <1>4

LEMMA DetachInv ==
  ASSUME ShmInv, NEW r \in Regions, ShmDetach(r)
  PROVE  ShmInv'
<1>1. CASE shmRefs[r] = 1
  BY <1>1, ClearInv DEF ShmDetach
<1>2. CASE shmRefs[r] # 1
  <2> DEFINE f == IF shmRefs[r] = 2 THEN {"ALLOCATED"} ELSE shmFlags[r]
  <2>1. /\ shmRefs' = [shmRefs EXCEPT ![r] = OneLess(shmRefs[r])]
        /\ shmFlags' = [shmFlags EXCEPT ![r] = f]
        /\ UNCHANGED <<shmData, shmMeddled>>
        /\ InUse(r)
    BY <1>2 DEF ShmDetach
  <2>2. OneLess(shmRefs[r]) \in Refs
    BY RegionIs, ShmAssumption DEF OneLess, Refs
  <2>3. f \in SUBSET Bits
    BY RegionIs DEF Bits, State
  <2>4. ShmTypeOK' /\ OthersUnchanged(r)
    BY <2>1, <2>2, <2>3 DEF ShmInv, ShmTypeOK, OthersUnchanged
  <2>5. shmRefs'[r] = OneLess(shmRefs[r]) /\ shmFlags'[r] = f
    BY <2>1 DEF ShmInv, ShmTypeOK
  <2>6. ASSUME r \notin shmMeddled
        PROVE  RegionOK(shmFlags'[r], shmRefs'[r], shmData'[r])
    <3>1. shmRefs[r] \in Nat /\ shmRefs[r] > 1
      BY <1>2, <2>1, <2>6, RegionIs DEF RegionOK, InUse, Refs
    <3> QED
      BY <2>5, <2>6, <3>1, RegionIs DEF RegionOK, OneLess
  <2> QED
    BY <2>1, <2>4, <2>6, OneRegion
<1> QED
  BY <1>1, <1>2

(* Flags to synchronise with come and go beside the other two.             *)
LEMMA FlagInv ==
  ASSUME ShmInv, NEW r \in Regions, NEW word \in SUBSET Bits, ShmPutFlags(r, word)
  PROVE  ShmInv'
<1>1. ShmTypeOK' /\ OthersUnchanged(r)
  BY DEF ShmPutFlags, ShmInv, ShmTypeOK, OthersUnchanged
<1>2. ASSUME r \notin shmMeddled'
      PROVE  RegionOK(shmFlags'[r], shmRefs'[r], shmData'[r])
  <2>1. r \notin shmMeddled /\ word \cap State = shmFlags[r] \cap State
    BY <1>2 DEF ShmPutFlags
  <2>2. /\ "ALLOCATED" \in word <=> "ALLOCATED" \in shmFlags[r]
        /\ "SHARED" \in word <=> "SHARED" \in shmFlags[r]
    BY <2>1 DEF State
  <2>3. shmFlags'[r] = word /\ UNCHANGED <<shmRefs, shmData>> /\ shmFlags[r] # {}
    BY DEF ShmPutFlags, ShmInv, ShmTypeOK, InUse
  <2>4. RegionOK(shmFlags[r], shmRefs[r], shmData[r]) /\ shmRefs[r] \in Nat
    BY <2>1, RegionIs DEF Refs
  <2>5. "ALLOCATED" \in shmFlags[r] \/ "SHARED" \in shmFlags[r]
    BY <2>3, <2>4 DEF RegionOK
  <2> QED
    BY <2>2, <2>3, <2>4, <2>5 DEF RegionOK
<1> QED
  BY <1>1, <1>2, OneRegion

(* What a write that is too long runs over counts as meddled with.         *)
LEMMA WriteInv ==
  ASSUME ShmInv, NEW r \in Regions, NEW d \in Data,
         NEW last \in r .. SHMEM_MAX_REGIONS,
         NEW over \in [r + 1 .. last -> Images], ShmWrite(r, d, last, over)
  PROVE  ShmInv'
<1> DEFINE Hit == r + 1 .. last
<1>0. Hit \subseteq Regions /\ r \notin Hit
  BY ShmAssumption DEF Regions
<1>1. /\ shmFlags' = [q \in Regions |-> IF q \in Hit THEN over[q].flags ELSE shmFlags[q]]
      /\ shmRefs' = [q \in Regions |-> IF q \in Hit THEN over[q].refs ELSE shmRefs[q]]
      /\ shmData' = [q \in Regions |-> IF q \in Hit THEN over[q].data
                                       ELSE IF q = r THEN d ELSE shmData[q]]
      /\ shmMeddled' = shmMeddled \cup Hit
      /\ InUse(r)
  BY DEF ShmWrite
<1>2. \A q \in Hit : /\ over[q].flags \in SUBSET Bits
                     /\ over[q].refs \in Refs
                     /\ over[q].data \in Data
  <2>1. \A q \in Hit : over[q] \in [flags : FlagWords, refs : Refs, data : Data]
    BY DEF Images
  <2> QED
    BY <2>1, ShmAssumption
<1> HIDE DEF Hit
<1>3. ShmTypeOK'
  BY <1>0, <1>1, <1>2 DEF ShmInv, ShmTypeOK
<1>4. ASSUME NEW q \in Regions, q \notin shmMeddled'
      PROVE  RegionOK(shmFlags'[q], shmRefs'[q], shmData'[q])
  <2>1. /\ q \notin Hit /\ q \notin shmMeddled
        /\ shmFlags'[q] = shmFlags[q] /\ shmRefs'[q] = shmRefs[q]
        /\ shmData'[q] = shmData[q] \/ q = r
    BY <1>1, <1>4
  <2> QED
    BY <1>1, <2>1, RegionIs DEF RegionOK, InUse
<1> QED
  BY <1>3, <1>4 DEF ShmInv, RefsMatchFlags, FreeIsEmpty, InUse, RegionOK

LEMMA ShmNextInv ==
  ASSUME ShmInv, ShmNext
  PROVE  ShmInv'
<1>1. ASSUME NEW r \in Regions, ShmFree(r) PROVE ShmInv'
  BY <1>1, ClearInv DEF ShmFree
<1>2. ASSUME NEW r \in Regions, NEW f \in FlagWords,
             ShmSetFlag(r, f) \/ ShmClearFlag(r, f)
      PROVE  ShmInv'
  <2>1. shmFlags[r] \cup f \in SUBSET Bits /\ shmFlags[r] \ f \in SUBSET Bits
    BY RegionIs, ShmAssumption
  <2> QED
    BY <1>2, <2>1, FlagInv DEF ShmSetFlag, ShmClearFlag
<1> QED
  BY <1>1, <1>2, AllocInv, AttachInv, DetachInv, WriteInv DEF ShmNext
-----------------------------------------------------------------------------
(* A queue.  The first message goes to place 0 and all others to After, so *)
(* while nothing was received the oldest is at 0, and the one at After is  *)
(* always the newest.                                                      *)
Newest == pending[Len(pending)]

QueueInv ==
  /\ qCount = Len(pending)
  /\ head \in {0, After} /\ tail \in {0, After}
  /\ tail # After => (head = 0 /\ qCount = 0)
  /\ (head = After /\ qCount > 0) => store[After] = Newest
  /\ (head # After /\ tail = After) => qCount > 0
  /\ (head # After /\ qCount = 1) => store[0] = Newest
  /\ (head # After /\ qCount > 1) => store[After] = Newest

MsgInv == MsgTypeOK /\ QueueInv

LEMMA AfterIsPlace == After \in Places /\ 0 \in Places
BY MsgAssumption DEF After, Places

LEMMA MsgInitInv == MsgInit => MsgInv
BY MsgAssumption, AfterIsPlace DEF MsgInit, MsgInv, MsgTypeOK, QueueInv, Newest

LEMMA MsgUntouched ==
  ASSUME MsgInv, fault' \in BOOLEAN, qReady' \in BOOLEAN,
         UNCHANGED <<qId, head, tail, qCount, store, qNextId, pending>>
  PROVE  MsgInv'
BY DEF MsgInv, MsgTypeOK, QueueInv, Newest

LEMMA StrayInv ==
  ASSUME MsgInv, StrayFind
  PROVE  MsgInv'
<1>1. PICK o \in Stray : fault' = (o = "fault")
  BY DEF StrayFind
<1>2. qReady' \in BOOLEAN
  BY DEF StrayFind, MsgInv, MsgTypeOK
<1> QED
  BY <1>1, <1>2, MsgUntouched DEF StrayFind

LEMMA QCreateInv ==
  ASSUME MsgInv, MsgqCreate
  PROVE  MsgInv'
<1>1. CASE qReady
  BY <1>1, MsgUntouched DEF MsgqCreate, MsgInv, MsgTypeOK
<1>2. CASE ~qReady
  <2>1. MsgTypeOK'
    <3>1. /\ qReady' = TRUE /\ UNCHANGED fault
          /\ qId' = qNextId /\ qNextId' = qNextId + 1
          /\ head' = 0 /\ tail' = 0 /\ qCount' = 0
          /\ store' = [p \in Places |-> Garbage]
          /\ pending' = <<>>
      BY <1>2 DEF MsgqCreate
    <3>2. store' \in [Places -> Msgs \cup {Garbage}] /\ pending' \in Seq(Msgs)
      BY <3>1
    <3>3. 0 \in 0 .. MSGQ_CAPACITY
      BY MsgAssumption
    <3> QED
      BY <3>1, <3>2, <3>3, AfterIsPlace DEF MsgInv, MsgTypeOK
  <2>2. QueueInv'
    BY <1>2 DEF MsgqCreate, QueueInv, Newest
  <2> QED
    BY <2>1, <2>2 DEF MsgInv
<1> QED
  BY <1>1, <1>2

LEMMA SendInv ==
  ASSUME MsgInv, NEW q, NEW m \in Msgs, MsgqSend(q, m)
  PROVE  MsgInv'
<1>1. CASE ~Found(q)
  BY <1>1, StrayInv DEF MsgqSend
<1>2. CASE Found(q)
  <2>1. /\ qCount < MSGQ_CAPACITY
        /\ store' = [store EXCEPT ![tail] = m]
        /\ tail' = After
        /\ qCount' = qCount + 1
        /\ pending' = Append(pending, m)
        /\ UNCHANGED <<qReady, qId, head, qNextId, fault>>
    BY <1>2 DEF MsgqSend
  <2>2. MsgTypeOK'
    BY <2>1, AfterIsPlace, MsgAssumption DEF MsgInv, MsgTypeOK
  <2>3. Len(pending') = Len(pending) + 1 /\ Newest' = m
    BY <2>1 DEF MsgInv, MsgTypeOK, Newest
  <2>4. store'[tail] = m
    BY <2>1 DEF MsgInv, MsgTypeOK
  <2>5. QueueInv'
    <3>1. CASE tail = After
      BY <2>1, <2>3, <2>4, <3>1 DEF MsgInv, MsgTypeOK, QueueInv
    <3>2. CASE tail # After
      BY <2>1, <2>3, <2>4, <3>2 DEF MsgInv, MsgTypeOK, QueueInv
    <3> QED
      BY <3>1, <3>2
  <2> QED
    BY <2>2, <2>5 DEF MsgInv
<1> QED
  BY <1>1, <1>2

LEMMA RecvInv ==
  ASSUME MsgInv, NEW q, MsgqRecv(q)
  PROVE  MsgInv'
<1>1. CASE ~Found(q)
  BY <1>1, StrayInv DEF MsgqRecv
<1>2. CASE Found(q)
  <2>1. /\ qCount > 0
        /\ head' = After
        /\ qCount' = qCount - 1
        /\ pending' = Tail(pending)
        /\ UNCHANGED <<qReady, qId, tail, store, qNextId, fault>>
    BY <1>2 DEF MsgqRecv
  <2>2. pending # <<>>
    BY <2>1 DEF MsgInv, MsgTypeOK, QueueInv
  <2>3. MsgTypeOK'
    <3>1. pending' \in Seq(Msgs)
      BY <2>1, <2>2 DEF MsgInv, MsgTypeOK
    <3>2. qCount' \in 0 .. MSGQ_CAPACITY
      BY <2>1, MsgAssumption DEF MsgInv, MsgTypeOK
    <3> QED
      BY <2>1, <3>1, <3>2, AfterIsPlace DEF MsgInv, MsgTypeOK
  <2>4. Len(pending') = Len(pending) - 1
    BY <2>1, <2>2 DEF MsgInv, MsgTypeOK
  <2>5. Len(pending) > 1 => Newest' = Newest
    BY <2>1, <2>2, <2>4 DEF MsgInv, MsgTypeOK, Newest
  <2>6. QueueInv'
    BY <2>1, <2>4, <2>5 DEF MsgInv, MsgTypeOK, QueueInv
  <2> QED
    BY <2>3, <2>6 DEF MsgInv
<1> QED
  BY <1>1, <1>2

LEMMA QDestroyInv ==
  ASSUME MsgInv, NEW q, MsgqDestroy(q)
  PROVE  MsgInv'
<1>1. CASE ~Found(q)
  BY <1>1, StrayInv DEF MsgqDestroy
<1>2. CASE Found(q)
  BY <1>2, MsgUntouched DEF MsgqDestroy, MsgInv, MsgTypeOK
<1> QED
  BY <1>1, <1>2

LEMMA MsgNextInv ==
  ASSUME MsgInv, MsgNext
  PROVE  MsgInv'
<1>1. ASSUME NEW q \in Qids, NEW m \in Msgs, MsgqSend(q, m) PROVE MsgInv'
  BY <1>1, SendInv
<1>2. ASSUME NEW q \in Qids, MsgqRecv(q) PROVE MsgInv'
  BY <1>2, RecvInv
<1>3. ASSUME NEW q \in Qids, MsgqDestroy(q) PROVE MsgInv'
  BY <1>3, QDestroyInv
<1> QED
  BY <1>1, <1>2, <1>3, QCreateInv DEF MsgNext
-----------------------------------------------------------------------------
IpcInv == ShmInv /\ MsgInv

LEMMA IpcSpecInv == Spec => []IpcInv
<1>1. Init => IpcInv
  BY ShmInitInv, MsgInitInv DEF Init, IpcInv
<1>2. IpcInv /\ [Next]_ipcVars => IpcInv'
  <2> SUFFICES ASSUME IpcInv, [Next]_ipcVars PROVE IpcInv'
    OBVIOUS
  <2>1. ASSUME UNCHANGED shmVars PROVE ShmInv'
    BY <2>1 DEF IpcInv, ShmInv, ShmTypeOK, RefsMatchFlags, FreeIsEmpty, InUse, shmVars
  <2>2. ASSUME UNCHANGED msgVars PROVE MsgInv'
    BY <2>2 DEF IpcInv, MsgInv, MsgTypeOK, QueueInv, Newest, msgVars
  <2>3. CASE SemNext /\ UNCHANGED <<shmVars, msgVars>>
    BY <2>1, <2>2, <2>3 DEF IpcInv
  <2>4. CASE ShmNext /\ UNCHANGED <<semVars, msgVars>>
    BY <2>2, <2>4, ShmNextInv DEF IpcInv
  <2>5. CASE MsgNext /\ UNCHANGED <<semVars, shmVars>>
    BY <2>1, <2>5, MsgNextInv DEF IpcInv
  <2>6. CASE UNCHANGED ipcVars
    BY <2>1, <2>2, <2>6 DEF ipcVars, IpcInv
  <2> QED
    BY <2>3, <2>4, <2>5, <2>6 DEF Next
<1> QED
  BY <1>1, <1>2, PTL DEF Spec

(* Seen from the semaphores, the calls of the other two tables are steps   *)
(* in which nothing happens.                                               *)
LEMMA SemaphoresInIpc == Spec => SemSpec
<1>1. Init => SemInit
  BY DEF Init
<1>2. [Next]_ipcVars => [SemNext]_semVars
  BY DEF Next, ipcVars
<1> QED
  BY <1>1, <1>2, PTL DEF Spec, SemSpec

(* Every call keeps the words of the tables in their ranges.               *)
THEOREM TypeCorrect == Spec => []TypeOK
<1>1. IpcInv /\ SemTypeOK => TypeOK
  BY DEF IpcInv, ShmInv, MsgInv, TypeOK
<1> QED
  BY <1>1, IpcSpecInv, SemaphoresInIpc, SemTypeCorrect, PTL

(* Modules that keep to the flags meant for them cannot bring the flags    *)
(* and the reference count of a region apart.                              *)
THEOREM RefsAlwaysMatchFlags == Spec => []RefsMatchFlags
<1>1. IpcInv => RefsMatchFlags
  BY DEF IpcInv, ShmInv
<1> QED
  BY <1>1, IpcSpecInv, PTL

(* shmem_alloc hands out empty regions, although its own clearing misses.  *)
THEOREM FreeIsAlwaysEmpty == Spec => []FreeIsEmpty
<1>1. IpcInv => FreeIsEmpty
  BY DEF IpcInv, ShmInv
<1> QED
  BY <1>1, IpcSpecInv, PTL

(* Whatever the capacity and the size of a message, a message that is      *)
(* alone in its queue is received as it was sent.                          *)
THEOREM SingleMessageAlwaysArrives == Spec => []SingleMessageArrives
<1>1. IpcInv => SingleMessageArrives
  <2> SUFFICES ASSUME IpcInv, qCount = 1 PROVE store[head] = pending[1]
    BY DEF SingleMessageArrives
  <2>1. Newest = pending[1]
    BY DEF IpcInv, MsgInv, QueueInv, Newest
  <2> QED
    BY <2>1 DEF IpcInv, MsgInv, MsgTypeOK, QueueInv
<1> QED
  BY <1>1, IpcSpecInv, PTL

(* Semaphores are independent counters whatever else modules do.           *)
THEOREM SemaphoresAreCounters == Spec => ImplementsCounters
BY SemaphoresInIpc, TableIsCounters, PTL
=============================================================================
