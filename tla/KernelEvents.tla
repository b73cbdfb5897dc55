---------------------------- MODULE KernelEvents ----------------------------
(***************************************************************************)
(* The kernel events of event_notify.asm: a table of subscribers and a     *)
(* ring of notifications, with the calls modules make.                     *)
(*                                                                         *)
(* The number of subscribers is counted up only past its own value, which  *)
(* the search for a place never reaches: it stays 0, the search for a      *)
(* process looks at nothing, and every subscription is written to entry 0. *)
(* The levels, times and data of events are left out, and so is the rest   *)
(* of event_poll, which only a process that was found gets to.             *)
(***************************************************************************)
EXTENDS Integers, Sequences

CONSTANTS
  EVT_MAX_SUBSCRIBERS, EVT_QUEUE_SIZE,
  EvtPids, Masks,   \* who subscribes, and to what
  EvtTypes          \* types of events

ASSUME EventsAssumption == /\ EVT_MAX_SUBSCRIBERS \in Nat \ {0}
                           /\ EVT_QUEUE_SIZE \in Nat \ {0}
                           /\ 0 \notin EvtTypes

VARIABLES
  subTable, subCount,            \* evt_sub_table, evt_sub_count
  evtQueue, evtHead, evtCount,   \* evt_queue and its next place
  evtRc,                         \* the result of the last call
  accepted                       \* the events event_notify told 0 for

subVars   == <<subTable, subCount>>
queueVars == <<evtQueue, evtHead, evtCount, accepted>>
evtVars   == <<subVars, queueVars, evtRc>>

Entries == 0 .. EVT_MAX_SUBSCRIBERS - 1
EvtPlaces == 0 .. EVT_QUEUE_SIZE - 1
NoSubscriber == [pid |-> 0, mask |-> 0]

EvtInit == /\ subTable = [e \in Entries |-> NoSubscriber] /\ subCount = 0
           /\ evtQueue = [p \in EvtPlaces |-> 0]
           /\ evtHead = 0 /\ evtCount = 0
           /\ evtRc = 0 /\ accepted = <<>>

(* _evt_find_subscriber                                                    *)
Subscribers(pid) == {e \in 0 .. subCount - 1 : subTable[e].pid = pid}

(* The first entry before the count that is free, or the one behind it.    *)
FreeEntry(e) ==
  /\ e \in 0 .. subCount
  /\ e < subCount => subTable[e].pid = 0
  /\ \A k \in 0 .. e - 1 : subTable[k].pid # 0

EventSubscribe(pid, mask) ==
  /\ UNCHANGED queueVars
  /\ IF Subscribers(pid) = {} /\ subCount < EVT_MAX_SUBSCRIBERS
     THEN \E e \in Entries :
            /\ FreeEntry(e)
            /\ subTable' = [subTable EXCEPT ![e] = [pid |-> pid, mask |-> mask]]
            /\ subCount' = IF e > subCount THEN subCount + 1 ELSE subCount
            /\ evtRc' = 0
     ELSE /\ evtRc' = IF Subscribers(pid) = {} THEN -1 ELSE -2
          /\ UNCHANGED subVars

EventUnsubscribe(pid) ==
  /\ subTable' = [e \in Entries |->
                    IF e \in Subscribers(pid) THEN NoSubscriber ELSE subTable[e]]
  /\ evtRc' = IF Subscribers(pid) = {} THEN -1 ELSE 0
  /\ UNCHANGED <<subCount, queueVars>>

(* Wrong on purpose: the oldest event makes way when the queue is full.    *)
EventNotifyOver(type) ==
  /\ evtQueue' = [evtQueue EXCEPT ![evtHead % EVT_QUEUE_SIZE] = type]
  /\ evtHead' = evtHead + 1
  /\ evtCount' = IF evtCount < EVT_QUEUE_SIZE THEN evtCount + 1 ELSE evtCount
  /\ accepted' = Append(accepted, type)
  /\ Len(accepted) <= EVT_QUEUE_SIZE
  /\ evtRc' = 0
  /\ UNCHANGED subVars

(* Nothing takes an event out, so the head never wraps.                    *)
EventNotify(type) ==
  /\ UNCHANGED subVars
  /\ IF evtCount >= EVT_QUEUE_SIZE
     THEN evtRc' = -1 /\ UNCHANGED queueVars
     ELSE /\ evtQueue' = [evtQueue EXCEPT ![evtHead % EVT_QUEUE_SIZE] = type]
          /\ evtHead' = evtHead + 1 /\ evtCount' = evtCount + 1
          /\ accepted' = Append(accepted, type)
          /\ evtRc' = 0

EventPoll(pid) == /\ Subscribers(pid) = {}
                  /\ evtRc' = -1
                  /\ UNCHANGED <<subVars, queueVars>>

EvtNext == \/ \E pid \in EvtPids : \/ \E mask \in Masks : EventSubscribe(pid, mask)
                                   \/ EventUnsubscribe(pid)
                                   \/ EventPoll(pid)
           \/ \E type \in EvtTypes : EventNotify(type)

EvtSpec == EvtInit /\ [][EvtNext]_evtVars
-----------------------------------------------------------------------------
(* An event that was accepted is kept, in the order in which they came: a  *)
(* full queue refuses the next one, it does not lose an old one.           *)
EventsKept ==
  /\ evtCount = Len(accepted) /\ evtCount <= EVT_QUEUE_SIZE
  /\ \A k \in 1 .. evtCount : evtQueue[k - 1] = accepted[k]
=============================================================================
