---------------------------- MODULE SharedMemory ----------------------------
(***************************************************************************)
(* The shared memory regions of kernel/shmem.asm, which lie one behind the *)
(* other, each a header and its data.  One word of flags says whether a    *)
(* region is free (no flag), how it is used, and carries the flags its     *)
(* users synchronise with.  The owner and the size of a region are stored  *)
(* and never looked at; the contents are abstracted to one value.  A call  *)
(* that fails changes nothing and is not an action.                        *)
(*                                                                         *)
(* Nothing is asked of the words and lengths modules pass.  Identifiers    *)
(* other than those of regions reach memory behind the table, and a write  *)
(* that runs past the last region does: that memory is left out.           *)
(***************************************************************************)
EXTENDS Naturals

CONSTANTS SHMEM_MAX_REGIONS,
          FlagWords,    \* words of flags that modules set, clear and write
          Data, Zero,   \* what a region may contain
          RefWord       \* values of a reference count, 2^32 in the code

State == {"ALLOCATED", "SHARED"}
Bits  == State \cup {"WRITER", "READER", "SIGN"}

ASSUME ShmAssumption == /\ SHMEM_MAX_REGIONS \in Nat \ {0}
                        /\ FlagWords \subseteq SUBSET Bits
                        /\ Zero \in Data
                        /\ RefWord \in Nat /\ RefWord > 2

VARIABLES shmFlags, shmRefs, shmData,
          shmMeddled    \* history: regions whose state or count is not only
                        \* what alloc, attach and detach have made it

shmVars == <<shmFlags, shmRefs, shmData, shmMeddled>>

Regions == 1 .. SHMEM_MAX_REGIONS   \* an identifier is an index plus one
Refs    == 0 .. RefWord - 1

ShmInit == /\ shmFlags = [r \in Regions |-> {}]
           /\ shmRefs = [r \in Regions |-> 0]
           /\ shmData = [r \in Regions |-> Zero]
           /\ shmMeddled = {}

InUse(r) == shmFlags[r] # {}

(* The data area is not cleared: _shmem_memset takes the address in x0,    *)
(* where shmem_alloc has the identifier by then, so that it writes to the  *)
(* first bytes of the address space, where there is no RAM.                *)
ShmAlloc ==
  \E r \in Regions :
    /\ ~InUse(r) /\ \A q \in 1 .. r - 1 : InUse(q)
    /\ shmFlags' = [shmFlags EXCEPT ![r] = {"ALLOCATED"}]
    /\ shmRefs' = [shmRefs EXCEPT ![r] = 1]
    /\ shmMeddled' = shmMeddled \ {r}
    /\ UNCHANGED shmData

(* Wrong on purpose: the data area is left to shmem_alloc.                 *)
ClearHeader(r) == /\ shmFlags' = [shmFlags EXCEPT ![r] = {}]
                  /\ shmRefs' = [shmRefs EXCEPT ![r] = 0]
                  /\ shmMeddled' = shmMeddled \ {r}
                  /\ UNCHANGED shmData

(* _shmem_memset of the whole region.                                      *)
Clear(r) == /\ shmFlags' = [shmFlags EXCEPT ![r] = {}]
            /\ shmRefs' = [shmRefs EXCEPT ![r] = 0]
            /\ shmData' = [shmData EXCEPT ![r] = Zero]
            /\ shmMeddled' = shmMeddled \ {r}

(* How many are attached does not matter.                                  *)
ShmFree(r) == InUse(r) /\ Clear(r)

(* A region whose users have set a flag cannot be attached to.  (That a    *)
(* count is carried to 2^32 by attaching alone is left out.)               *)
ShmAttach(r) == /\ shmFlags[r] \in {{"ALLOCATED"}, {"SHARED"}}
                /\ r \in shmMeddled \/ shmRefs[r] + 1 < RefWord
                /\ shmRefs' = [shmRefs EXCEPT ![r] = (@ + 1) % RefWord]
                /\ shmFlags' = [shmFlags EXCEPT ![r] = {"SHARED"}]
                /\ UNCHANGED <<shmData, shmMeddled>>

OneLess(n) == IF n = 0 THEN RefWord - 1 ELSE n - 1

(* Wrong on purpose: the region stays shared when one user is left.        *)
ShmDetachShared(r) ==
  /\ InUse(r)
  /\ \/ shmRefs[r] = 1 /\ Clear(r)
     \/ /\ shmRefs[r] # 1
        /\ shmRefs' = [shmRefs EXCEPT ![r] = OneLess(@)]
        /\ UNCHANGED <<shmFlags, shmData, shmMeddled>>

(* The flags are written anew when one user is left: a flag that was set   *)
(* for the other is lost.                                                  *)
ShmDetach(r) ==
  /\ InUse(r)
  /\ \/ shmRefs[r] = 1 /\ Clear(r)
     \/ /\ shmRefs[r] # 1
        /\ shmRefs' = [shmRefs EXCEPT ![r] = OneLess(@)]
        /\ shmFlags' = [shmFlags EXCEPT ![r] =
                          IF shmRefs[r] = 2 THEN {"ALLOCATED"} ELSE @]
        /\ UNCHANGED <<shmData, shmMeddled>>

(* shmem_set_flag and shmem_clear_flag, of any bits: clearing the last one *)
(* makes a region free, with its count and its contents.                   *)
ShmPutFlags(r, word) ==
  /\ InUse(r)
  /\ shmFlags' = [shmFlags EXCEPT ![r] = word]
  /\ shmMeddled' = IF word \cap State = shmFlags[r] \cap State THEN shmMeddled
                   ELSE shmMeddled \cup {r}
  /\ UNCHANGED <<shmRefs, shmData>>

ShmSetFlag(r, f)   == ShmPutFlags(r, shmFlags[r] \cup f)
ShmClearFlag(r, f) == ShmPutFlags(r, shmFlags[r] \ f)

(* host_shmem_write of d: not into a region whose word of flags is         *)
(* negative.  Nothing but the module's own memory bounds the length, so    *)
(* the headers and data of the regions up to `last' become what the module *)
(* has there.                                                              *)
Images == [flags : FlagWords, refs : Refs, data : Data]

ShmWrite(r, d, last, over) ==
  LET Hit == r + 1 .. last
  IN  /\ InUse(r) /\ "SIGN" \notin shmFlags[r]
      /\ shmFlags' = [q \in Regions |-> IF q \in Hit THEN over[q].flags ELSE shmFlags[q]]
      /\ shmRefs' = [q \in Regions |-> IF q \in Hit THEN over[q].refs ELSE shmRefs[q]]
      /\ shmData' = [q \in Regions |-> IF q \in Hit THEN over[q].data
                                       ELSE IF q = r THEN d ELSE shmData[q]]
      /\ shmMeddled' = shmMeddled \cup Hit

ShmNext == \/ ShmAlloc
           \/ \E r \in Regions :
                \/ ShmFree(r) \/ ShmAttach(r) \/ ShmDetach(r)
                \/ \E f \in FlagWords : ShmSetFlag(r, f) \/ ShmClearFlag(r, f)
                \/ \E d \in Data, last \in r .. SHMEM_MAX_REGIONS :
                     \E over \in [r + 1 .. last -> Images] : ShmWrite(r, d, last, over)

ShmSpec == ShmInit /\ [][ShmNext]_shmVars
-----------------------------------------------------------------------------
ShmTypeOK == /\ shmFlags \in [Regions -> SUBSET Bits]
             /\ shmRefs \in [Regions -> Refs]
             /\ shmData \in [Regions -> Data]
             /\ shmMeddled \subseteq Regions

(* The flags and the reference count of a region, which are changed by     *)
(* different calls in any order, agree on whether it is free, used by one  *)
(* or shared, so that detaching as often as attaching frees it, once.  The *)
(* only regions of which it is not true are those whose ALLOCATED or       *)
(* SHARED flag a module has set or cleared itself or which lie behind a    *)
(* write that was too long, until they are freed or handed out again:      *)
(* nothing that is done to them disturbs the others.                       *)
RefsMatchFlags ==
  \A r \in Regions \ shmMeddled :
    /\ shmRefs[r] = 0 <=> ~InUse(r)
    /\ shmRefs[r] = 1 <=> "ALLOCATED" \in shmFlags[r]
    /\ shmRefs[r] > 1 <=> "SHARED" \in shmFlags[r]

(* Apart from the same regions, a region is handed out empty although      *)
(* shmem_alloc does not empty it: every other way to become free has.      *)
FreeIsEmpty == \A r \in Regions \ shmMeddled : ~InUse(r) => shmData[r] = Zero
=============================================================================
