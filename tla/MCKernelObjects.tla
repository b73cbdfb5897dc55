--------------------------- MODULE MCKernelObjects --------------------------
(* The tables of the kernel in small, for TLC.                             *)
EXTENDS KernelObjects, TLC

(* Two semaphore slots for four identifiers, counters that wrap at 3, two  *)
(* regions, and one queue of three messages.                               *)
ZeroOrOne  == {0, 1}
BothStray  == {"fault", "miss"}
EachFlag   == {{}} \cup {{bit} : bit \in {"ALLOCATED", "SHARED", "SIGN"}}
TwoData    == {"zero", "data"}
TwoMsgs    == {"a", "b"}

(* Two processes with two descriptors each, for four open files: number 3  *)
(* is the first a WASI module can close.  One file of one byte tells a     *)
(* cursor at its beginning from one at its end; that is what a descriptor  *)
(* that got mixed up with another would show.  One descriptor is stale at  *)
(* a time.                                                                 *)
CONSTANTS p1, p2
TwoPids == {p1, p2}
Lens    == {1}
Ramdisk == {"f"}
Sizes   == [n \in Ramdisk |-> 1]
OneStale == \A d, e \in stale : d = e

(* Three slots for four variables, of which one is preset; a long name and *)
(* a longer one are cut to the same, and so is a long value.               *)
CONSTANTS a, b, c, long, longer, x, y, yy
SomeNames  == {a, b, c, long, longer}
SomeValues == {x, y, yy}
OnePreset  == <<a>>
ItsValue   == [n \in {a} |-> x]
Cut63      == [n \in SomeNames |-> IF n = longer THEN long ELSE n]
Cut255     == [v \in SomeValues |-> IF v = yy THEN y ELSE v]

(* Two subscribers and a queue of three events.                            *)
Subscribed == {1, 2}
TwoMasks == {1, 3}
TwoTypes == {1, 2}

(* No call reads or writes more than one of the tables, so the behaviours  *)
(* in which all calls are to the same one show all that each can do.       *)
MCNext == \/ FilesInit /\ EnvInit /\ EvtInit /\ IpcCall
          \/ Init /\ EnvInit /\ EvtInit /\ FilesCall
          \/ Init /\ FilesInit /\ EvtInit /\ EnvCall
          \/ Init /\ FilesInit /\ EnvInit /\ EvtCall

MCSpec == ObjectsInit /\ [][MCNext]_objectVars

OneTable == /\ \/ SemInit /\ ShmInit
               \/ SemInit /\ MsgInit
               \/ ShmInit /\ MsgInit
            /\ OneStale

Processes == Permutations(Pids)
=============================================================================
