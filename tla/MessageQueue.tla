---------------------------- MODULE MessageQueue ----------------------------
(***************************************************************************)
(* The message queues of kernel/msg.asm.  As in kernel/ipc.asm, only entry *)
(* 0 of the table is where it should be: madd multiplies the index by a    *)
(* register that does not hold the size of an entry.  msgq_create reaches  *)
(* entry 1 with twice the address of the table, which is not mapped; a     *)
(* search that goes past entry 0 either takes a fault or finds nothing.    *)
(*                                                                         *)
(* msgq_send and msgq_recv count the position up in the register that has  *)
(* just counted the bytes of the message, so the position after any call   *)
(* is that of message MSG_SIZE + 1.                                        *)
(***************************************************************************)
EXTENDS Naturals, Sequences

CONSTANTS MSGQ_CAPACITY, MSG_SIZE,
          Msgs,      \* messages
          Garbage,   \* what the buffer of a new queue holds
          Stray,     \* what a stray load may do: "fault", "miss"
          MaxQid     \* bound of the model on msgq_next_id

ASSUME MsgAssumption == /\ MSGQ_CAPACITY \in Nat \ {0}
                        /\ MSG_SIZE \in Nat
                        /\ Stray \subseteq {"fault", "miss"}
                        /\ Stray # {}
                        /\ MaxQid \in Nat

VARIABLES qReady, qId, head, tail, qCount,   \* entry 0 of the table
          store,     \* the buffer of its queue
          qNextId,
          fault,     \* a synchronous exception: vector_sync spins for ever
          pending    \* messages accepted and not yet received, oldest first

msgVars == <<qReady, qId, head, tail, qCount, store, qNextId, fault, pending>>

Places == 0 .. MSGQ_CAPACITY - 1

MsgInit == /\ qReady = FALSE
           /\ qId = 0 /\ head = 0 /\ tail = 0 /\ qCount = 0
           /\ store = [p \in Places |-> Garbage]
           /\ qNextId = 1
           /\ fault = FALSE
           /\ pending = <<>>

(* Wrong on purpose: the position is not masked.                           *)
AfterUnmasked == MSG_SIZE + 1

After == (MSG_SIZE + 1) % MSGQ_CAPACITY

(* msgq_find of another queue than that of entry 0.                        *)
StrayFind == /\ fault' \in {o = "fault" : o \in Stray}
             /\ UNCHANGED <<qReady, qId, head, tail, qCount, store, qNextId, pending>>

Found(q) == qReady /\ q = qId

(* A queue has the buffer of its identifier, which is given out once.      *)
MsgqCreate ==
  /\ qNextId <= MaxQid
  /\ \/ /\ ~qReady
        /\ qReady' = TRUE
        /\ qId' = qNextId
        /\ qNextId' = qNextId + 1
        /\ head' = 0 /\ tail' = 0 /\ qCount' = 0
        /\ store' = [p \in Places |-> Garbage]
        /\ pending' = <<>>
        /\ UNCHANGED fault
     \/ /\ qReady           \* entry 0 is in use: on to entry 1
        /\ fault' = TRUE
        /\ UNCHANGED <<qReady, qId, head, tail, qCount, store, qNextId, pending>>

MsgqSend(q, m) ==
  \/ /\ Found(q)
     /\ qCount < MSGQ_CAPACITY
     /\ store' = [store EXCEPT ![tail] = m]
     /\ tail' = After
     /\ qCount' = qCount + 1
     /\ pending' = Append(pending, m)
     /\ UNCHANGED <<qReady, qId, head, qNextId, fault>>
  \/ ~Found(q) /\ StrayFind

(* Wrong on purpose: the position a message is taken from does not move.   *)
MsgqRecvStuck(q) ==
  /\ Found(q)
  /\ qCount > 0
  /\ qCount' = qCount - 1
  /\ pending' = Tail(pending)
  /\ UNCHANGED <<qReady, qId, head, tail, store, qNextId, fault>>

MsgqRecv(q) ==
  \/ /\ Found(q)
     /\ qCount > 0
     /\ head' = After
     /\ qCount' = qCount - 1
     /\ pending' = Tail(pending)
     /\ UNCHANGED <<qReady, qId, tail, store, qNextId, fault>>
  \/ ~Found(q) /\ StrayFind

MsgqDestroy(q) ==
  \/ /\ Found(q)
     /\ qReady' = FALSE
     /\ UNCHANGED <<qId, head, tail, qCount, store, qNextId, fault, pending>>
  \/ ~Found(q) /\ StrayFind

Qids == 0 .. MaxQid

MsgNext == \/ MsgqCreate
           \/ \E q \in Qids : \/ \E m \in Msgs : MsgqSend(q, m)
                              \/ MsgqRecv(q) \/ MsgqDestroy(q)

MsgSpec == MsgInit /\ [][~fault /\ MsgNext]_msgVars
-----------------------------------------------------------------------------
MsgTypeOK == /\ qReady \in BOOLEAN /\ fault \in BOOLEAN
             /\ qId \in Nat /\ qNextId \in Nat \ {0}
             /\ head \in Places /\ tail \in Places
             /\ qCount \in 0 .. MSGQ_CAPACITY
             /\ store \in [Places -> Msgs \cup {Garbage}]
             /\ pending \in Seq(Msgs)

(* What the next msgq_recv hands over, when one message is left, is the    *)
(* message that should come: a sender and a receiver who take turns never  *)
(* notice how the positions move.                                          *)
SingleMessageArrives ==
  qReady /\ qCount = 1 => store[head] = pending[1]

(* Messages come in the order they were sent, each of them once.  (They do *)
(* not: from the second on, every message takes the place of the one       *)
(* before it.)                                                             *)
MessagesInOrder == qReady /\ qCount > 0 => store[head] = pending[1]
=============================================================================
