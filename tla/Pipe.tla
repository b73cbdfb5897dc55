-------------------------------- MODULE Pipe --------------------------------
(***************************************************************************)
(* The pipes of kernel/ipc.asm.                                            *)
(*                                                                         *)
(* The table has eight entries, but the address of entry k is computed by  *)
(* madd from a register that was never given the size of an entry: only    *)
(* entry 0 is where it should be.  pipe_create reaches entry 1 with twice  *)
(* the address of the table, above the two gigabytes mmu_init maps; a      *)
(* search by descriptor reaches it with whatever its caller left in the    *)
(* register, and either takes a fault or finds no pipe there.  (That a     *)
(* stray word equals the descriptor is left out.)  So the model has one    *)
(* pipe.                                                                   *)
(***************************************************************************)
EXTENDS Naturals, Sequences

CONSTANTS
  N,        \* PIPE_BUF_SIZE
  Byte,     \* what a byte of the buffer can be
  Stray,    \* what a stray load may do: "fault", "miss"
  Chunks,   \* what modules write: a set of sequences of bytes
  Lengths,  \* how much they ask for
  MaxFd     \* bound of the model on pipe_next_fd

FirstFd == 100

ASSUME PipeAssumption == /\ N \in Nat \ {0}
                         /\ Stray \subseteq {"fault", "miss"}
                         /\ Stray # {}
                         /\ Chunks \subseteq Seq(Byte)
                         /\ Lengths \subseteq Nat
                         /\ MaxFd \in Nat

VARIABLES
  ready, rfd, wfd, rpos, wpos, count,   \* the entry of the pipe
  buf,                                  \* its buffer, never cleared
  nextFd,                               \* pipe_next_fd
  fault,        \* a synchronous exception: vector_sync spins for ever
  handed           \* the bytes the last pipe_read handed over

pipeVars == <<ready, rfd, wfd, rpos, wpos, count, buf, nextFd, fault, handed>>

Positions == 0 .. N - 1

PipeInit == /\ ready = FALSE
            /\ rfd = 0 /\ wfd = 0
            /\ rpos = 0 /\ wpos = 0 /\ count = 0
            /\ buf \in [Positions -> Byte]
            /\ nextFd = FirstFd
            /\ fault = FALSE
            /\ handed = <<>>

Smaller(a, b) == IF a <= b THEN a ELSE b

(* Wrong on purpose: the position is compared with the size only after it  *)
(* was used once more.                                                     *)
WrapLate(x) == IF x <= N THEN x ELSE x - N

(* Positions are masked with N - 1; both operators are for x < 2 * N.      *)
Wrap(x) == IF x < N THEN x ELSE x - N
Offset(p, from) == IF p >= from THEN p - from ELSE p + N - from

(* pipe_find_by_fd                                                         *)
Find(fd) == IF ready /\ fd = rfd THEN "read"
            ELSE IF ready /\ fd = wfd THEN "write" ELSE "none"

StrayLookup == /\ fault' \in {o = "fault" : o \in Stray}
               /\ UNCHANGED <<ready, rfd, wfd, rpos, wpos, count, buf, nextFd>>

(* Wrong on purpose: the counters of the entry's last use stay.            *)
PipeCreateKeeping ==
  /\ ~fault /\ ~ready
  /\ nextFd + 1 <= MaxFd
  /\ ready' = TRUE
  /\ rfd' = nextFd /\ wfd' = nextFd + 1
  /\ nextFd' = nextFd + 2
  /\ UNCHANGED <<rpos, wpos, count, buf, fault, handed>>

(* Wrong on purpose: the second descriptor is not counted.                 *)
PipeCreateOneFd ==
  /\ ~fault /\ ~ready
  /\ nextFd + 1 <= MaxFd
  /\ ready' = TRUE
  /\ rfd' = nextFd /\ wfd' = nextFd + 1
  /\ nextFd' = nextFd + 1
  /\ rpos' = 0 /\ wpos' = 0 /\ count' = 0
  /\ UNCHANGED <<buf, fault, handed>>

PipeCreate ==
  /\ ~fault
  /\ nextFd + 1 <= MaxFd
  /\ \/ /\ ~ready
        /\ ready' = TRUE
        /\ rfd' = nextFd /\ wfd' = nextFd + 1
        /\ nextFd' = nextFd + 2
        /\ rpos' = 0 /\ wpos' = 0 /\ count' = 0
        /\ UNCHANGED <<buf, fault, handed>>
     \/ /\ ready            \* entry 0 is in use: on to entry 1
        /\ fault' = TRUE
        /\ UNCHANGED <<ready, rfd, wfd, rpos, wpos, count, buf, nextFd, handed>>

(* A write of data takes what fits, without telling the two apart here.    *)
PipeWrite(fd, data) ==
  LET k == Smaller(Len(data), N - count)
  IN  /\ ~fault
      /\ \/ /\ Find(fd) = "write"
            /\ buf' = [p \in Positions |->
                         IF Offset(p, wpos) < k THEN data[Offset(p, wpos) + 1]
                         ELSE buf[p]]
            /\ wpos' = Wrap(wpos + k)
            /\ count' = count + k
            /\ UNCHANGED <<ready, rfd, wfd, rpos, nextFd, fault>>
         \/ Find(fd) = "read" /\ UNCHANGED <<ready, rfd, wfd, rpos, wpos,
                                             count, buf, nextFd, fault>>
         \/ Find(fd) = "none" /\ StrayLookup
      /\ UNCHANGED handed

(* Wrong on purpose: the read position is not moved past a wrap.           *)
PipeReadStuck(fd, len) ==
  LET k == Smaller(len, count)
  IN  /\ ~fault
      /\ Find(fd) = "read"
      /\ handed' = [j \in 1 .. k |-> buf[Wrap(rpos + j - 1)]]
      /\ rpos' = IF rpos + k < N THEN rpos + k ELSE rpos
      /\ count' = count - k
      /\ UNCHANGED <<ready, rfd, wfd, wpos, buf, nextFd, fault>>

PipeRead(fd, len) ==
  LET k == Smaller(len, count)
  IN  /\ ~fault
      /\ \/ /\ Find(fd) = "read"
            /\ handed' = [j \in 1 .. k |-> buf[Wrap(rpos + j - 1)]]
            /\ rpos' = Wrap(rpos + k)
            /\ count' = count - k
            /\ UNCHANGED <<ready, rfd, wfd, wpos, buf, nextFd, fault>>
         \/ Find(fd) = "write" /\ UNCHANGED pipeVars
         \/ Find(fd) = "none" /\ StrayLookup /\ UNCHANGED handed

(* Either end closes the pipe.                                             *)
PipeClose(fd) ==
  /\ ~fault
  /\ \/ /\ Find(fd) # "none"
        /\ ready' = FALSE
        /\ UNCHANGED <<rfd, wfd, rpos, wpos, count, buf, nextFd, fault>>
     \/ Find(fd) = "none" /\ StrayLookup
  /\ UNCHANGED handed

(* Any module calls the host functions with any descriptor.                *)
Fds == FirstFd - 1 .. MaxFd

PipeNext == \/ PipeCreate
            \/ \E fd \in Fds : \/ \E data \in Chunks : PipeWrite(fd, data)
                               \/ \E len \in Lengths : PipeRead(fd, len)
                               \/ PipeClose(fd)

PipeSpec == PipeInit /\ [][PipeNext]_pipeVars
-----------------------------------------------------------------------------
PipeTypeOK == /\ ready \in BOOLEAN /\ fault \in BOOLEAN
              /\ rfd \in Nat /\ wfd \in Nat /\ nextFd \in Nat
              /\ rpos \in Positions /\ wpos \in Positions /\ count \in 0 .. N
              /\ buf \in [Positions -> Byte]

(* The three numbers that describe the ring agree: count tells a full      *)
(* buffer from an empty one, both of which have equal positions.           *)
RingConsistent == wpos = Wrap(rpos + count)

(* Descriptors never come back: one that a module kept after the pipe was  *)
(* closed, which it may use at any time, cannot name the next pipe.        *)
FdsFresh == /\ rfd < nextFd /\ wfd < nextFd
            /\ ready => rfd # wfd

(* What is in the pipe, oldest byte first.                                 *)
Contents == [j \in 1 .. count |-> buf[Wrap(rpos + j - 1)]]

(* The ring buffer is the queue: no byte is lost, repeated or reordered by *)
(* the wrap around its end, or left over from the entry's last use.        *)
Fifo == INSTANCE PipeFifo WITH open  <- ready,
                               queue <- IF ready THEN Contents ELSE <<>>
ImplementsFifo == Fifo!Spec
=============================================================================
