----------------------------- MODULE PipeProofs -----------------------------
(* The ring buffer of kernel/ipc.asm is a bounded queue, whatever its size *)
(* and whatever is written: proofs for every value of the constants.       *)
EXTENDS Pipeline, SequenceTheorems, TLAPS

PipeInv == PipeTypeOK /\ RingConsistent /\ FdsFresh

LEMMA WrapInRange ==
  ASSUME NEW x \in Nat, x < 2 * N
  PROVE  Wrap(x) \in Positions
BY PipeAssumption DEF Wrap, Positions

(* Wrapping in two steps is wrapping once.                                 *)
LEMMA WrapWrap ==
  ASSUME NEW p \in Positions, NEW a \in 0 .. N, NEW b \in 0 .. N, a + b <= N
  PROVE  Wrap(Wrap(p + a) + b) = Wrap(p + a + b)
BY PipeAssumption DEF Wrap, Positions

(* The position j behind the oldest byte lies before the next free one     *)
(* exactly when j is still in use, and Offset says how far behind.         *)
LEMMA OffsetOfWrap ==
  ASSUME NEW p \in Positions, NEW c \in 0 .. N, NEW j \in 0 .. N - 1
  PROVE  /\ j >= c => Offset(Wrap(p + j), Wrap(p + c)) = j - c
         /\ j < c  => Offset(Wrap(p + j), Wrap(p + c)) = j + N - c
BY PipeAssumption DEF Wrap, Offset, Positions

LEMMA SmallerIs ==
  ASSUME NEW a \in Nat, NEW b \in Nat
  PROVE  /\ Smaller(a, b) \in Nat
         /\ Smaller(a, b) <= a
         /\ Smaller(a, b) <= b
BY DEF Smaller

LEMMA StrayKeepsType ==
  ASSUME StrayLookup
  PROVE  fault' \in BOOLEAN
<1>1. PICK o \in Stray : fault' = (o = "fault")
  BY DEF StrayLookup
<1> QED
  BY <1>1

LEMMA Untouched ==
  ASSUME PipeInv, fault' \in BOOLEAN,
         UNCHANGED <<ready, rfd, wfd, rpos, wpos, count, buf, nextFd>>
  PROVE  PipeInv'
BY DEF PipeInv, PipeTypeOK, RingConsistent, FdsFresh, Positions, Wrap

LEMMA InitInv == PipeInit => PipeInv
BY PipeAssumption DEF PipeInit, PipeInv, PipeTypeOK, RingConsistent, FdsFresh,
                      Positions, Wrap, FirstFd

LEMMA CreateInv ==
  ASSUME PipeInv, PipeCreate
  PROVE  PipeInv'
<1>1. CASE ready
  <2>1. /\ fault' = TRUE
        /\ UNCHANGED <<ready, rfd, wfd, rpos, wpos, count, buf, nextFd>>
    BY <1>1 DEF PipeCreate
  <2> QED
    BY <2>1, Untouched
<1>2. CASE ~ready
  <2>1. /\ ready' = TRUE
        /\ rfd' = nextFd /\ wfd' = nextFd + 1 /\ nextFd' = nextFd + 2
        /\ rpos' = 0 /\ wpos' = 0 /\ count' = 0
        /\ UNCHANGED <<buf, fault>>
    BY <1>2 DEF PipeCreate
  <2>2. 0 \in Positions /\ 0 \in 0 .. N /\ Wrap(0) = 0
    BY PipeAssumption DEF Positions, Wrap
  <2>3. nextFd \in Nat /\ buf \in [Positions -> Byte] /\ fault \in BOOLEAN
    BY DEF PipeInv, PipeTypeOK
  <2>4. PipeTypeOK'
    BY <2>1, <2>2, <2>3 DEF PipeTypeOK
  <2>5. RingConsistent'
    BY <2>1, <2>2 DEF RingConsistent
  <2>6. FdsFresh'
    BY <2>1, <2>3 DEF FdsFresh
  <2> QED
    BY <2>4, <2>5, <2>6 DEF PipeInv
<1> QED
  BY <1>1, <1>2

LEMMA WriteInv ==
  ASSUME PipeInv, NEW fd, NEW data \in Chunks, PipeWrite(fd, data)
  PROVE  PipeInv'
<1> DEFINE k == Smaller(Len(data), N - count)
<1>1. /\ data \in Seq(Byte) /\ Len(data) \in Nat
      /\ N \in Nat /\ N # 0 /\ N - count \in Nat /\ count \in 0 .. N
  BY PipeAssumption DEF PipeInv, PipeTypeOK
<1>2. k \in Nat /\ k <= Len(data) /\ k <= N - count
  BY <1>1, SmallerIs
<1>3. CASE Find(fd) = "write"
  <2>1. /\ buf' = [p \in Positions |->
                     IF Offset(p, wpos) < k THEN data[Offset(p, wpos) + 1]
                     ELSE buf[p]]
        /\ wpos' = Wrap(wpos + k)
        /\ count' = count + k
        /\ UNCHANGED <<ready, rfd, wfd, rpos, nextFd, fault>>
    BY <1>3 DEF PipeWrite, Find, StrayLookup
  <2>2. \A p \in Positions : Offset(p, wpos) \in Nat
    BY <1>1 DEF PipeInv, PipeTypeOK, Offset, Positions
  <2>3. \A i \in 1 .. Len(data) : data[i] \in Byte
    BY <1>1
  <2>4. buf' \in [Positions -> Byte]
    BY <1>2, <2>1, <2>2, <2>3 DEF PipeInv, PipeTypeOK
  <2>5. wpos' \in Positions
    BY <1>1, <1>2, <2>1, WrapInRange DEF PipeInv, PipeTypeOK, Positions
  <2>6. wpos' = Wrap(rpos + count + k)
    <3>1. wpos = Wrap(rpos + count)
      BY DEF PipeInv, RingConsistent
    <3>2. Wrap(Wrap(rpos + count) + k) = Wrap(rpos + count + k)
      BY <1>1, <1>2, WrapWrap DEF PipeInv, PipeTypeOK
    <3> QED
      BY <2>1, <3>1, <3>2
  <2>7. count' \in 0 .. N /\ rpos + count + k = rpos + (count + k)
    BY <1>1, <1>2, <2>1 DEF PipeInv, PipeTypeOK, Positions
  <2>8. PipeTypeOK'
    BY <2>1, <2>4, <2>5, <2>7 DEF PipeInv, PipeTypeOK
  <2>9. RingConsistent'
    BY <2>1, <2>6, <2>7 DEF RingConsistent
  <2>10. FdsFresh'
    BY <2>1 DEF PipeInv, FdsFresh
  <2> QED
    BY <2>8, <2>9, <2>10 DEF PipeInv
<1>4. CASE Find(fd) # "write"
  <2>1. UNCHANGED <<ready, rfd, wfd, rpos, wpos, count, buf, nextFd>>
    BY <1>4 DEF PipeWrite, StrayLookup
  <2>2. fault' \in BOOLEAN
    BY <1>4, StrayKeepsType DEF PipeWrite, PipeInv, PipeTypeOK
  <2> QED
    BY <2>1, <2>2, Untouched
<1> QED
  BY <1>3, <1>4

LEMMA ReadInv ==
  ASSUME PipeInv, NEW fd, NEW len \in Nat, PipeRead(fd, len)
  PROVE  PipeInv'
<1> DEFINE k == Smaller(len, count)
<1>1. N \in Nat /\ N # 0 /\ count \in 0 .. N /\ len \in Nat
  BY PipeAssumption DEF PipeInv, PipeTypeOK
<1>2. k \in Nat /\ k <= count
  BY <1>1, SmallerIs
<1>3. CASE Find(fd) = "read"
  <2>1. /\ rpos' = Wrap(rpos + k)
        /\ count' = count - k
        /\ UNCHANGED <<ready, rfd, wfd, wpos, buf, nextFd, fault>>
    BY <1>3 DEF PipeRead, StrayLookup, Find
  <2>2. rpos' \in Positions
    BY <1>1, <1>2, <2>1, WrapInRange DEF PipeInv, PipeTypeOK, Positions
  <2>3. Wrap(rpos' + count') = Wrap(rpos + count)
    <3>1. rpos \in Positions /\ count - k \in 0 .. N /\ k \in 0 .. N
      BY <1>1, <1>2 DEF PipeInv, PipeTypeOK
    <3>2. Wrap(Wrap(rpos + k) + (count - k)) = Wrap(rpos + k + (count - k))
      BY <1>1, <1>2, <3>1, WrapWrap
    <3>3. rpos + k + (count - k) = rpos + count
      BY <1>1, <1>2, <3>1 DEF Positions
    <3> QED
      BY <2>1, <3>2, <3>3
  <2> QED
    BY <1>1, <1>2, <2>1, <2>2, <2>3
       DEF PipeInv, PipeTypeOK, RingConsistent, FdsFresh
<1>4. CASE Find(fd) # "read"
  <2>1. UNCHANGED <<ready, rfd, wfd, rpos, wpos, count, buf, nextFd>>
    BY <1>4 DEF PipeRead, StrayLookup, pipeVars
  <2>2. fault' \in BOOLEAN
    BY <1>4, StrayKeepsType DEF PipeRead, PipeInv, PipeTypeOK, pipeVars
  <2> QED
    BY <2>1, <2>2, Untouched
<1> QED
  BY <1>3, <1>4

LEMMA CloseInv ==
  ASSUME PipeInv, NEW fd, PipeClose(fd)
  PROVE  PipeInv'
BY StrayKeepsType DEF PipeClose, StrayLookup, PipeInv, PipeTypeOK,
                      RingConsistent, FdsFresh

LEMMA StepInv == PipeInv /\ [PipeNext]_pipeVars => PipeInv'
<1>1. PipeInv /\ UNCHANGED pipeVars => PipeInv'
  BY DEF pipeVars, PipeInv, PipeTypeOK, RingConsistent, FdsFresh
<1> QED
  BY <1>1, PipeAssumption, CreateInv, WriteInv, ReadInv, CloseInv DEF PipeNext

(* The positions, the count and the descriptors of the pipe stay in range  *)
(* whatever descriptors and lengths the modules call with.                 *)
THEOREM PipeTypeCorrect == PipeSpec => []PipeTypeOK
BY InitInv, StepInv, PTL DEF PipeSpec, PipeInv

(* The two positions and the count of the ring always agree, so that a     *)
(* full buffer and an empty one are never mistaken for each other.         *)
THEOREM RingStaysConsistent == PipeSpec => []RingConsistent
BY InitInv, StepInv, PTL DEF PipeSpec, PipeInv

(* Descriptors are never reused.                                           *)
THEOREM FdsStayFresh == PipeSpec => []FdsFresh
BY InitInv, StepInv, PTL DEF PipeSpec, PipeInv
-----------------------------------------------------------------------------
(* Refinement: the ring with its stale bytes is the queue of its contents. *)

Queue == IF ready THEN Contents ELSE <<>>

LEMMA ContentsLen ==
  ASSUME PipeInv
  PROVE  Contents \in Seq(Byte) /\ Len(Contents) = count
<1>1. count \in Nat /\ N \in Nat /\ count <= N /\ rpos \in Positions
  BY PipeAssumption DEF PipeInv, PipeTypeOK
<1>2. \A j \in 1 .. count : Wrap(rpos + j - 1) \in Positions
  BY <1>1, PipeAssumption DEF Wrap, Positions
<1>3. \A j \in 1 .. count : buf[Wrap(rpos + j - 1)] \in Byte
  BY <1>2 DEF PipeInv, PipeTypeOK
<1> QED
  BY <1>1, <1>3 DEF Contents

LEMMA WriteIsWrite ==
  ASSUME PipeInv, NEW fd, NEW data \in Chunks, PipeWrite(fd, data),
         Find(fd) = "write"
  PROVE  Fifo!Write(data)
<1> DEFINE k == Smaller(Len(data), N - count)
<1>1. /\ data \in Seq(Byte) /\ Len(data) \in Nat
      /\ N \in Nat /\ N # 0 /\ N - count \in Nat /\ count \in 0 .. N
      /\ rpos \in Positions
  BY PipeAssumption DEF PipeInv, PipeTypeOK
<1>2. k \in Nat /\ k <= Len(data) /\ k <= N - count
  BY <1>1, SmallerIs
<1>3. /\ buf' = [p \in Positions |->
                   IF Offset(p, wpos) < k THEN data[Offset(p, wpos) + 1]
                   ELSE buf[p]]
      /\ count' = count + k
      /\ UNCHANGED <<ready, rpos, handed>>
      /\ ready
  BY DEF PipeWrite, Find, StrayLookup
<1>4. wpos = Wrap(rpos + count)
  BY DEF PipeInv, RingConsistent
<1>5. ASSUME NEW j \in 1 .. count + k
      PROVE  buf'[Wrap(rpos + j - 1)]
               = IF j <= count THEN Contents[j] ELSE data[j - count]
  <2> DEFINE p == Wrap(rpos + j - 1)
  <2>1. j - 1 \in 0 .. N - 1 /\ rpos + (j - 1) = rpos + j - 1
    BY <1>1, <1>2 DEF Positions
  <2>2. p \in Positions
    BY <1>1, <2>1, WrapInRange DEF Positions
  <2>3. buf'[p] = IF Offset(p, wpos) < k THEN data[Offset(p, wpos) + 1]
                  ELSE buf[p]
    BY <1>3, <2>2
  <2>4. /\ j - 1 >= count => Offset(p, wpos) = j - 1 - count
        /\ j - 1 < count  => Offset(p, wpos) = j - 1 + N - count
    <3>1. /\ j - 1 >= count =>
               Offset(Wrap(rpos + (j - 1)), Wrap(rpos + count)) = (j - 1) - count
          /\ j - 1 < count =>
               Offset(Wrap(rpos + (j - 1)), Wrap(rpos + count)) = (j - 1) + N - count
      BY <1>1, <2>1, OffsetOfWrap
    <3> QED
      BY <1>4, <2>1, <3>1
  <2>5. CASE j <= count
    <3>1. ~(Offset(p, wpos) < k)
      BY <1>1, <1>2, <2>4, <2>5
    <3>2. Contents[j] = buf[p]
      BY <2>5, <1>1 DEF Contents
    <3> QED
      BY <2>3, <2>5, <3>1, <3>2
  <2>6. CASE ~(j <= count)
    <3>1. Offset(p, wpos) < k /\ Offset(p, wpos) + 1 = j - count
      BY <1>1, <1>2, <2>4, <2>6
    <3> QED
      BY <2>3, <2>6, <3>1
  <2> QED
    BY <2>5, <2>6
<1>6. Contents' = [j \in 1 .. count + k |->
                     IF j <= count THEN Contents[j] ELSE data[j - count]]
  BY <1>3, <1>5 DEF Contents
<1>7. Queue = Contents /\ Queue' = Contents' /\ Len(Queue) = count
  BY <1>3, ContentsLen DEF Queue
<1>8. k = Fifo!Smaller(Len(data), N - Len(Queue))
  BY <1>7 DEF Smaller, Fifo!Smaller
<1> QED
  BY <1>3, <1>6, <1>7, <1>8 DEF Fifo!Write, Queue

LEMMA ReadIsRead ==
  ASSUME PipeInv, NEW fd, NEW len \in Nat, PipeRead(fd, len),
         Find(fd) = "read"
  PROVE  Fifo!Read(len)
<1> DEFINE k == Smaller(len, count)
<1>1. /\ N \in Nat /\ N # 0 /\ count \in 0 .. N /\ len \in Nat
      /\ rpos \in Positions
  BY PipeAssumption DEF PipeInv, PipeTypeOK
<1>2. k \in Nat /\ k <= count
  BY <1>1, SmallerIs
<1>3. /\ handed' = [j \in 1 .. k |-> buf[Wrap(rpos + j - 1)]]
      /\ rpos' = Wrap(rpos + k)
      /\ count' = count - k
      /\ UNCHANGED <<ready, buf>>
      /\ ready
  BY DEF PipeRead, StrayLookup, Find
<1>4. ASSUME NEW j \in 1 .. count - k
      PROVE  buf[Wrap(rpos' + j - 1)] = Contents[j + k]
  <2>1. /\ k \in 0 .. N /\ j - 1 \in 0 .. N /\ k + (j - 1) <= N
        /\ j + k \in 1 .. count
        /\ rpos + k + (j - 1) = rpos + (j + k) - 1
    BY <1>1, <1>2 DEF Positions
  <2>2. Wrap(Wrap(rpos + k) + (j - 1)) = Wrap(rpos + k + (j - 1))
    BY <1>1, <2>1, WrapWrap
  <2>3. Wrap(rpos + k) + (j - 1) = Wrap(rpos + k) + j - 1
    BY <1>1, <1>2 DEF Wrap, Positions
  <2> QED
    BY <1>3, <2>1, <2>2, <2>3 DEF Contents
<1>5. Contents' = [j \in 1 .. count - k |-> Contents[j + k]]
  BY <1>3, <1>4 DEF Contents
<1>6. handed' = [j \in 1 .. k |-> Contents[j]]
  BY <1>1, <1>2, <1>3 DEF Contents
<1>7. Queue = Contents /\ Queue' = Contents' /\ Len(Queue) = count
  BY <1>3, ContentsLen DEF Queue
<1>8. k = Fifo!Smaller(len, Len(Queue))
  BY <1>7 DEF Smaller, Fifo!Smaller
<1> QED
  BY <1>3, <1>5, <1>6, <1>7, <1>8 DEF Fifo!Read, Queue

LEMMA StepIsStep ==
  ASSUME PipeInv, [PipeNext]_pipeVars
  PROVE  [Fifo!Next]_<<ready, Queue, handed>>
<1> DEFINE Same == UNCHANGED <<ready, rpos, count, buf, handed>>
<1>1. Same => UNCHANGED <<ready, Queue, handed>>
  BY DEF Queue, Contents
<1>2. CASE PipeCreate
  <2>1. CASE ready
    BY <1>1, <1>2, <2>1 DEF PipeCreate
  <2>2. CASE ~ready
    <3>1. ready' /\ count' = 0 /\ UNCHANGED handed
      BY <1>2, <2>2 DEF PipeCreate
    <3>2. Contents' = <<>>
      BY <3>1 DEF Contents
    <3> QED
      BY <2>2, <3>1, <3>2 DEF Fifo!Next, Fifo!Create, Queue
  <2> QED
    BY <2>1, <2>2
<1>3. ASSUME NEW fd \in Fds, NEW data \in Chunks, PipeWrite(fd, data)
      PROVE  [Fifo!Next]_<<ready, Queue, handed>>
  <2>1. CASE Find(fd) = "write"
    BY <1>3, <2>1, WriteIsWrite DEF Fifo!Next
  <2>2. CASE Find(fd) # "write"
    BY <1>1, <1>3, <2>2 DEF PipeWrite, StrayLookup
  <2> QED
    BY <2>1, <2>2
<1>4. ASSUME NEW fd \in Fds, NEW len \in Lengths, PipeRead(fd, len)
      PROVE  [Fifo!Next]_<<ready, Queue, handed>>
  <2>1. CASE Find(fd) = "read"
    BY <1>4, <2>1, PipeAssumption, ReadIsRead DEF Fifo!Next
  <2>2. CASE Find(fd) # "read"
    BY <1>1, <1>4, <2>2 DEF PipeRead, StrayLookup, pipeVars
  <2> QED
    BY <2>1, <2>2
<1>5. ASSUME NEW fd \in Fds, PipeClose(fd)
      PROVE  [Fifo!Next]_<<ready, Queue, handed>>
  <2>1. CASE Find(fd) = "none"
    BY <1>1, <1>5, <2>1 DEF PipeClose, StrayLookup
  <2>2. CASE Find(fd) # "none"
    BY <1>5, <2>2 DEF PipeClose, Find, Fifo!Next, Fifo!Close, Queue
  <2> QED
    BY <2>1, <2>2
<1>6. CASE UNCHANGED pipeVars
  BY <1>1, <1>6 DEF pipeVars
<1> QED
  BY <1>2, <1>3, <1>4, <1>5, <1>6 DEF PipeNext

(* The ring buffer with its wrapping positions and stale bytes implements  *)
(* the bounded first-in first-out queue, for every size of the buffer.     *)
THEOREM RingIsFifo == PipeSpec => ImplementsFifo
<1>1. PipeInit => Fifo!Init
  BY DEF PipeInit, Fifo!Init
<1>2. PipeInv /\ [PipeNext]_pipeVars => [Fifo!Next]_Fifo!vars
  BY StepIsStep DEF Fifo!vars, Queue
<1> QED
  BY <1>1, <1>2, InitInv, StepInv, PTL DEF PipeSpec, ImplementsFifo, Fifo!Spec
-----------------------------------------------------------------------------
(* Modules around the pipe.                                                *)

SlotsOK == /\ stdin \in Seq(Int) /\ stdout \in Seq(Int)
           /\ Len(stdin) \in 1 .. MaxModules /\ Len(stdout) = Len(stdin)
           /\ cur \in 1 .. Len(stdin) + 1

HistoryOK == /\ sent \in Seq(Byte) /\ got \in Seq(Byte)
             /\ full \in BOOLEAN /\ eof \in BOOLEAN

(* What was got and what is in the buffer, even of a pipe that was closed, *)
(* was sent in this order.                                                 *)
HeldInOrder == InOrder(got \o Contents, sent)

PipelineInv == /\ PipeInv /\ SlotsOK /\ HistoryOK
               /\ NothingLostUnlessFull /\ HeldInOrder

LEMMA EmptyInOrder == InOrder(<<>>, <<>>)
<1> DEFINE at == [i \in 1 .. 0 |-> i]
<1>1. at \in [1 .. Len(<<>>) -> 1 .. Len(<<>>)]
  OBVIOUS
<1> QED  BY <1>1 DEF InOrder

(* The beginning of what is in order is in order.                          *)
LEMMA PrefixInOrder ==
  ASSUME NEW X, NEW g \in Seq(X), NEW c \in Seq(X), NEW t \in Seq(X), InOrder(g \o c, t)
  PROVE  InOrder(g, t)
<1>1. /\ Len(g \o c) = Len(g) + Len(c) /\ Len(g) \in Nat /\ Len(c) \in Nat
      /\ \A i \in 1 .. Len(g) : (g \o c)[i] = g[i]
  OBVIOUS
<1>2. PICK at \in [1 .. Len(g \o c) -> 1 .. Len(t)] :
        /\ \A i \in 1 .. Len(g \o c) : (g \o c)[i] = t[at[i]]
        /\ \A i, j \in 1 .. Len(g \o c) : i < j => at[i] < at[j]
  BY DEF InOrder
<1>3. \A i \in 1 .. Len(g) : i \in 1 .. Len(g \o c)
  BY <1>1
<1> DEFINE b == [i \in 1 .. Len(g) |-> at[i]]
<1>4. b \in [1 .. Len(g) -> 1 .. Len(t)]
  BY <1>2, <1>3
<1>5. /\ \A i \in 1 .. Len(g) : g[i] = t[b[i]]
      /\ \A i, j \in 1 .. Len(g) : i < j => b[i] < b[j]
  BY <1>1, <1>2, <1>3
<1> HIDE DEF b
<1> QED  BY <1>4, <1>5 DEF InOrder

(* It stays in order when a beginning of what is sent next is put behind.  *)
LEMMA AppendInOrder ==
  ASSUME NEW X, NEW s \in Seq(X), NEW t \in Seq(X), NEW d \in Seq(X), NEW e \in Seq(X),
         Len(e) <= Len(d), \A i \in 1 .. Len(e) : e[i] = d[i],
         InOrder(s, t)
  PROVE  InOrder(s \o e, t \o d)
<1>1. /\ Len(s) \in Nat /\ Len(t) \in Nat /\ Len(d) \in Nat /\ Len(e) \in Nat
      /\ Len(s \o e) = Len(s) + Len(e) /\ Len(t \o d) = Len(t) + Len(d)
      /\ \A i \in 1 .. Len(s) : (s \o e)[i] = s[i]
      /\ \A i \in 1 .. Len(t) : (t \o d)[i] = t[i]
  OBVIOUS
<1>2. PICK at \in [1 .. Len(s) -> 1 .. Len(t)] :
        /\ \A i \in 1 .. Len(s) : s[i] = t[at[i]]
        /\ \A i, j \in 1 .. Len(s) : i < j => at[i] < at[j]
  BY DEF InOrder
<1> DEFINE b == [i \in 1 .. Len(s \o e) |->
                   IF i <= Len(s) THEN at[i] ELSE Len(t) + (i - Len(s))]
<1>3. \A i \in 1 .. Len(s \o e) :
        /\ i <= Len(s) => i \in 1 .. Len(s) /\ at[i] \in 1 .. Len(t)
        /\ ~(i <= Len(s)) => i - Len(s) \in 1 .. Len(e)
  <2>1. \A i \in 1 .. Len(s) + Len(e) :
          /\ i <= Len(s) => i \in 1 .. Len(s)
          /\ ~(i <= Len(s)) => i - Len(s) \in 1 .. Len(e)
    BY <1>1
  <2> QED  BY <1>1, <1>2, <2>1
<1>4. b \in [1 .. Len(s \o e) -> 1 .. Len(t \o d)]
  BY <1>1, <1>3
<1>5. ASSUME NEW i \in 1 .. Len(s \o e)
      PROVE  (s \o e)[i] = (t \o d)[b[i]]
  <2>1. CASE i <= Len(s)
    BY <2>1, <1>1, <1>2, <1>3
  <2>2. CASE ~(i <= Len(s))
    <3>1. i - Len(s) \in 1 .. Len(e)
      BY <2>2, <1>3
    <3>2. (s \o e)[i] = e[i - Len(s)]
      BY <3>1, <1>1, <2>2
    <3>3. (t \o d)[Len(t) + (i - Len(s))] = d[i - Len(s)]
      BY <3>1, <1>1
    <3> QED  BY <2>2, <3>1, <3>2, <3>3
  <2> QED  BY <2>1, <2>2
<1>6. \A i, j \in 1 .. Len(s \o e) : i < j => b[i] < b[j]
  BY <1>1, <1>2, <1>3
<1> HIDE DEF b
<1> QED  BY <1>4, <1>5, <1>6 DEF InOrder

(* A write puts a beginning of the data behind what is in the pipe.        *)
LEMMA WriteAppends ==
  ASSUME PipeInv, NEW fd, NEW data \in Chunks, PipeWrite(fd, data), Find(fd) = "write"
  PROVE  LET k == Smaller(Len(data), N - count)
         IN  /\ Contents' = Contents \o SubSeq(data, 1, k)
             /\ k \in 0 .. Len(data) /\ SubSeq(data, 1, k) \in Seq(Byte)
             /\ count + Len(data) <= N => SubSeq(data, 1, k) = data
<1> DEFINE k == Smaller(Len(data), N - count)
           new == SubSeq(data, 1, k)
<1>1. /\ data \in Seq(Byte) /\ Len(data) \in Nat
      /\ N \in Nat /\ N - count \in Nat /\ count \in 0 .. N
  BY PipeAssumption DEF PipeInv, PipeTypeOK
<1>2. k \in 0 .. Len(data)
  <2>1. k \in Nat /\ k <= Len(data)
    BY <1>1, SmallerIs
  <2> QED  BY <1>1, <2>1
<1>3. /\ new \in Seq(Byte) /\ Len(new) = k
      /\ \A i \in 1 .. k : new[i] = data[i]
  BY <1>1, <1>2
<1>4. ready /\ ready'
  BY DEF PipeWrite, Find
<1>5. Contents \in Seq(Byte) /\ Len(Contents) = count /\ Queue = Contents /\ Queue' = Contents'
  BY <1>4, ContentsLen DEF Queue
<1>6. k = Fifo!Smaller(Len(data), N - Len(Queue))
  BY <1>5 DEF Smaller, Fifo!Smaller
<1>7. Contents' = [j \in 1 .. count + k |->
                     IF j <= count THEN Contents[j] ELSE data[j - count]]
  BY <1>5, <1>6, WriteIsWrite DEF Fifo!Write, Queue
<1>8. ASSUME NEW c \in Seq(Byte), NEW d \in Seq(Byte), NEW e \in Seq(Byte),
             Len(e) <= Len(d), \A i \in 1 .. Len(e) : e[i] = d[i]
      PROVE  c \o e = [j \in 1 .. Len(c) + Len(e) |->
                         IF j <= Len(c) THEN c[j] ELSE d[j - Len(c)]]
  <2> DEFINE f == [j \in 1 .. Len(c) + Len(e) |->
                     IF j <= Len(c) THEN c[j] ELSE d[j - Len(c)]]
  <2>1. /\ Len(c) \in Nat /\ Len(e) \in Nat /\ Len(d) \in Nat
        /\ Len(c \o e) = Len(c) + Len(e) /\ c \o e \in Seq(Byte)
        /\ \A j \in 1 .. Len(c) : (c \o e)[j] = c[j]
        /\ \A n \in 1 .. Len(e) : (c \o e)[Len(c) + n] = e[n]
    OBVIOUS
  <2>2. ASSUME NEW j \in 1 .. Len(c) + Len(e)
        PROVE  (c \o e)[j] = f[j] /\ f[j] \in Byte
    <3>1. CASE j <= Len(c)
      BY <2>1, <3>1
    <3>2. CASE ~(j <= Len(c))
      <4>1. PICK n \in 1 .. Len(e) : j = Len(c) + n
        <5>1. j - Len(c) \in 1 .. Len(e) /\ j = Len(c) + (j - Len(c))
          BY <2>1, <3>2
        <5> QED  BY <5>1
      <4>2. j - Len(c) = n /\ n \in 1 .. Len(d)
        BY <2>1, <4>1, <1>8
      <4>3. f[j] = d[n] /\ d[n] = e[n] /\ e[n] \in Byte
        BY <3>2, <4>1, <4>2, <1>8
      <4> QED  BY <2>1, <4>1, <4>3
    <3> QED  BY <3>1, <3>2
  <2>3. f \in Seq(Byte) /\ Len(f) = Len(c) + Len(e)
    BY <2>1, <2>2
  <2> HIDE DEF f
  <2>4. c \o e = f
    BY <2>1, <2>2, <2>3, SeqEqual
  <2> QED  BY <2>4 DEF f
<1>9. Contents \o new = [j \in 1 .. count + k |->
                           IF j <= count THEN Contents[j] ELSE data[j - count]]
  <2>1. Len(new) <= Len(data) /\ \A i \in 1 .. Len(new) : new[i] = data[i]
    BY <1>1, <1>2, <1>3
  <2> HIDE DEF k, new
  <2>2. Contents \o new = [j \in 1 .. Len(Contents) + Len(new) |->
                              IF j <= Len(Contents) THEN Contents[j]
                              ELSE data[j - Len(Contents)]]
    BY <2>1, <1>1, <1>3, <1>5, <1>8
  <2> QED  BY <2>2, <1>3, <1>5
<1>10. ASSUME count + Len(data) <= N PROVE new = data
  <2>1. k = Len(data)
    BY <1>1, <1>10 DEF Smaller
  <2> QED  BY <1>1, <2>1
<1> QED  BY <1>2, <1>3, <1>7, <1>9, <1>10

(* A read takes its answer from the front of what is in the pipe.          *)
LEMMA ReadTakes ==
  ASSUME PipeInv, NEW fd, NEW len \in Nat, PipeRead(fd, len), Find(fd) = "read"
  PROVE  /\ handed' \in Seq(Byte) /\ Contents' \in Seq(Byte)
         /\ Contents = handed' \o Contents'
<1> DEFINE k == Smaller(len, count)
<1>1. /\ Contents \in Seq(Byte) /\ Len(Contents) = count /\ count \in Nat
  BY ContentsLen DEF PipeInv, PipeTypeOK
<1>2. k \in 0 .. count
  BY <1>1, SmallerIs
<1>3. ready /\ ready'
  BY DEF PipeRead, Find
<1>4. k = Fifo!Smaller(len, Len(Queue)) /\ Queue = Contents /\ Queue' = Contents'
  BY <1>1, <1>3 DEF Queue, Smaller, Fifo!Smaller
<1>5. /\ handed' = [j \in 1 .. k |-> Contents[j]]
      /\ Contents' = [j \in 1 .. count - k |-> Contents[j + k]]
  BY <1>1, <1>3, <1>4, ReadIsRead DEF Fifo!Read, Queue
<1> HIDE DEF k
<1>6. \A j \in 1 .. count : Contents[j] \in Byte
  BY <1>1
<1>7. handed' \in Seq(Byte) /\ Len(handed') = k
  BY <1>1, <1>2, <1>5, <1>6
<1>8. Contents' \in Seq(Byte) /\ Len(Contents') = count - k
  BY <1>1, <1>2, <1>5, <1>6
<1>9. \A j \in 1 .. count : (handed' \o Contents')[j] = Contents[j]
  BY <1>1, <1>2, <1>5, <1>7, <1>8
<1>10. handed' \o Contents' \in Seq(Byte) /\ Len(handed' \o Contents') = count
  BY <1>1, <1>2, <1>7, <1>8
<1> QED  BY <1>1, <1>7, <1>8, <1>9, <1>10, SeqEqual

(* Joining lists is associative.                                           *)
LEMMA JoinAssociative ==
  ASSUME NEW x \in Seq(Byte), NEW y \in Seq(Byte), NEW z \in Seq(Byte)
  PROVE  (x \o y) \o z = x \o (y \o z)
<1>1. /\ Len(x) \in Nat /\ Len(y) \in Nat /\ Len(z) \in Nat
      /\ x \o y \in Seq(Byte) /\ Len(x \o y) = Len(x) + Len(y)
      /\ y \o z \in Seq(Byte) /\ Len(y \o z) = Len(y) + Len(z)
  OBVIOUS
<1>2. /\ (x \o y) \o z \in Seq(Byte) /\ x \o (y \o z) \in Seq(Byte)
      /\ Len((x \o y) \o z) = Len(x \o (y \o z))
  BY <1>1
<1>3. \A i \in 1 .. Len((x \o y) \o z) : ((x \o y) \o z)[i] = (x \o (y \o z))[i]
  BY <1>1
<1> QED  BY <1>2, <1>3, SeqEqual

(* A write that the history follows, with all of the data or with what     *)
(* fitted of it, leaves printed and received bytes in step.                *)
LEMMA WriteKeepsHistory ==
  ASSUME PipelineInv, NEW fd, NEW data \in Chunks,
         PipeWrite(fd, data), Find(fd) = "write", got' = got,
         \/ /\ sent' = sent \o data
            /\ full' = (full \/ count + Len(data) > N)
         \/ /\ sent' = sent \o SubSeq(data, 1, Smaller(Len(data), N - count))
            /\ full' = full
  PROVE  sent' \in Seq(Byte) /\ full' \in BOOLEAN /\ NothingLostUnlessFull' /\ HeldInOrder'
<1> DEFINE new == SubSeq(data, 1, Smaller(Len(data), N - count))
<1>1. /\ PipeInv /\ sent \in Seq(Byte) /\ got \in Seq(Byte) /\ full \in BOOLEAN
      /\ NothingLostUnlessFull /\ HeldInOrder
      /\ data \in Seq(Byte) /\ count \in Nat /\ N \in Nat
  BY PipeAssumption DEF PipelineInv, HistoryOK, PipeInv, PipeTypeOK
<1>2. /\ Contents' = Contents \o new /\ new \in Seq(Byte)
      /\ count + Len(data) <= N => new = data
      /\ Len(new) <= Len(data) /\ \A i \in 1 .. Len(new) : new[i] = data[i]
  <2> DEFINE k == Smaller(Len(data), N - count)
  <2>1. /\ k \in 0 .. Len(data) /\ Contents' = Contents \o new /\ new \in Seq(Byte)
        /\ count + Len(data) <= N => new = data
    BY <1>1, WriteAppends
  <2> HIDE DEF k
  <2>2. Len(SubSeq(data, 1, k)) = k /\ \A i \in 1 .. k : SubSeq(data, 1, k)[i] = data[i]
    BY <1>1, <2>1
  <2> QED  BY <1>1, <2>1, <2>2 DEF k
<1> HIDE DEF new
<1>3. Contents \in Seq(Byte)
  BY <1>1, ContentsLen
<1> DEFINE over == count + Len(data) > N
<1>4. PICK e \in Seq(Byte) : /\ sent' = sent \o e
                             /\ Len(new) <= Len(e)
                             /\ \A i \in 1 .. Len(new) : new[i] = e[i]
                             /\ full' \in BOOLEAN
                             /\ ~full' => ~full /\ e = new
  <2>1. CASE sent' = sent \o data /\ full' = (full \/ over)
    <3>1. ~over => new = data
      BY <1>1, <1>2
    <3>2. full' \in BOOLEAN /\ (~full' => ~full /\ ~over)
      <4> HIDE DEF over
      <4> QED  BY <2>1, <1>1
    <3> QED  BY <2>1, <3>1, <3>2, <1>1, <1>2
  <2>2. CASE sent' = sent \o new /\ full' = full
    <3>1. Len(new) <= Len(new) /\ \A i \in 1 .. Len(new) : new[i] = new[i]
      BY <1>2
    <3> QED  BY <2>2, <3>1, <1>1, <1>2
  <2> QED  BY <2>1, <2>2 DEF new
<1>6. sent' \in Seq(Byte)
  BY <1>1, <1>4
<1>7. got \o Contents' = (got \o Contents) \o new /\ got \o Contents \in Seq(Byte)
  <2>1. \A a, b, c \in Seq(Byte) : (a \o b) \o c = a \o (b \o c)
    BY JoinAssociative
  <2>2. (got \o Contents) \o new = got \o (Contents \o new)
    BY <2>1, <1>1, <1>2, <1>3
  <2> QED  BY <2>2, <1>1, <1>2, <1>3
<1>8. HeldInOrder'
  <2>1. InOrder(got \o Contents, sent)
    BY <1>1 DEF HeldInOrder
  <2>2. InOrder((got \o Contents) \o new, sent \o e)
    BY <2>1, <1>1, <1>2, <1>4, <1>7, AppendInOrder
  <2> QED  BY <2>2, <1>4, <1>7 DEF HeldInOrder
<1>9. NothingLostUnlessFull'
  <2> SUFFICES ASSUME ~full' PROVE sent' = got \o Contents'
    BY DEF NothingLostUnlessFull
  <2>1. ready
    BY DEF PipeWrite, Find
  <2>2. sent = got \o Contents
    BY <2>1, <1>1, <1>4 DEF NothingLostUnlessFull
  <2>3. e = new
    BY <1>4
  <2> QED  BY <2>2, <2>3, <1>4, <1>7
<1> QED  BY <1>4, <1>6, <1>8, <1>9

(* So does a read: what it takes from the pipe it adds to what was got.    *)
LEMMA ReadKeepsHistory ==
  ASSUME PipelineInv, NEW fd, NEW len \in Nat, PipeRead(fd, len), Find(fd) = "read",
         got' = got \o handed', UNCHANGED <<sent, full>>
  PROVE  got' \in Seq(Byte) /\ NothingLostUnlessFull' /\ HeldInOrder'
<1>1. /\ PipeInv /\ got \in Seq(Byte) /\ NothingLostUnlessFull /\ HeldInOrder
  BY DEF PipelineInv, HistoryOK
<1>2. handed' \in Seq(Byte) /\ Contents' \in Seq(Byte) /\ Contents = handed' \o Contents'
  BY <1>1, ReadTakes
<1>3. got' \in Seq(Byte) /\ got' \o Contents' = got \o Contents
  BY <1>1, <1>2, JoinAssociative
<1>4. ready /\ ready'
  BY DEF PipeRead, Find
<1>5. NothingLostUnlessFull'
  BY <1>1, <1>3, <1>4 DEF NothingLostUnlessFull
<1>6. HeldInOrder'
  BY <1>1, <1>3 DEF HeldInOrder
<1> QED  BY <1>3, <1>5, <1>6

(* Steps that leave the bytes of the pipe and the history alone.           *)
LEMMA BytesUntouched ==
  ASSUME PipelineInv, ready' => ready,
         UNCHANGED <<rpos, count, buf, sent, got, full>>
  PROVE  NothingLostUnlessFull' /\ HeldInOrder'
<1>1. Contents' = Contents
  BY DEF Contents
<1> QED  BY <1>1 DEF PipelineInv, NothingLostUnlessFull, HeldInOrder

(* A kernel with no pipe and nothing printed.                              *)
LEMMA PipelineInitInv == Init => PipelineInv
<1> SUFFICES ASSUME Init PROVE PipelineInv
  OBVIOUS
<1>1. PipeInv /\ count = 0 /\ ready = FALSE
  BY InitInv DEF Init, PipeInit
<1>2. SlotsOK
  <2>1. /\ stdin = <<None>> /\ stdout = <<None>> /\ cur = 1 /\ None \in Int
        /\ MaxModules \in Nat \ {0}
    BY PipelineAssumption DEF Init, None
  <2> QED  BY <2>1 DEF SlotsOK
<1>3. HistoryOK /\ sent = <<>> /\ got = <<>>
  <2>1. sent = <<>> /\ got = <<>> /\ full = FALSE /\ eof = FALSE
    BY DEF Init
  <2>2. <<>> \in Seq(Byte)
    OBVIOUS
  <2> QED  BY <2>1, <2>2 DEF HistoryOK
<1>4. Contents = <<>>
  BY <1>1 DEF Contents
<1>5. got \o Contents = <<>>
  BY <1>3, <1>4
<1> QED  BY <1>1, <1>2, <1>3, <1>5, EmptyInOrder
         DEF PipelineInv, NothingLostUnlessFull, HeldInOrder

(* The calls that read or write the pipe.  A descriptor that names neither *)
(* end does nothing, or meets a fault.                                     *)
LEMMA OtherEndWrite ==
  ASSUME PipelineInv, NEW fd, NEW data \in Chunks, PipeWrite(fd, data),
         Find(fd) # "write", UNCHANGED <<sent, got, full>>
  PROVE  NothingLostUnlessFull' /\ HeldInOrder'
<1>1. UNCHANGED <<ready, rpos, count, buf>>
  BY DEF PipeWrite, StrayLookup
<1> QED  BY <1>1, BytesUntouched

(* The same for a read.                                                    *)
LEMMA OtherEndRead ==
  ASSUME PipelineInv, NEW fd, NEW len \in Nat, PipeRead(fd, len),
         Find(fd) # "read", UNCHANGED <<sent, got, full>>
  PROVE  NothingLostUnlessFull' /\ HeldInOrder'
<1>1. UNCHANGED <<ready, rpos, count, buf>>
  BY DEF PipeRead, StrayLookup, pipeVars
<1> QED  BY <1>1, BytesUntouched

(* Most calls leave the slots and their redirections alone.                *)
LEMMA SlotsUntouched ==
  ASSUME SlotsOK, UNCHANGED slotVars
  PROVE  SlotsOK'
BY DEF SlotsOK, slotVars

(* host_pipe_create begins a new history when the pipe is new.             *)
LEMMA CreateKeepsHistory ==
  ASSUME PipelineInv, HostPipeCreate
  PROVE  PipelineInv'
<1>1. PipeInv /\ SlotsOK /\ HistoryOK /\ PipeCreate /\ UNCHANGED slotVars
  BY DEF PipelineInv, HostPipeCreate
<1>2. PipeInv' /\ SlotsOK'
  BY <1>1, CreateInv, SlotsUntouched
<1>3. CASE ready
  <2>1. UNCHANGED <<ready, rpos, count, buf>> /\ UNCHANGED <<sent, got, full, eof>>
    BY <1>1, <1>3 DEF HostPipeCreate, PipeCreate, history
  <2>2. NothingLostUnlessFull' /\ HeldInOrder'
    BY <2>1, BytesUntouched
  <2> QED  BY <1>1, <1>2, <2>1, <2>2 DEF PipelineInv, HistoryOK
<1>4. CASE ~ready
  <2>1. /\ count' = 0 /\ sent' = <<>> /\ got' = <<>> /\ full' = FALSE /\ eof' = FALSE
    BY <1>1, <1>4 DEF HostPipeCreate, PipeCreate
  <2>2. Contents' = <<>>
    BY <2>1 DEF Contents
  <2>3. got' \o Contents' = <<>> /\ <<>> \in Seq(Byte)
    BY <2>1, <2>2
  <2>4. NothingLostUnlessFull' /\ HeldInOrder'
    BY <2>1, <2>3, EmptyInOrder DEF NothingLostUnlessFull, HeldInOrder
  <2>5. HistoryOK'
    BY <2>1, <2>3 DEF HistoryOK
  <2> QED  BY <1>2, <2>4, <2>5 DEF PipelineInv
<1> QED  BY <1>3, <1>4

(* host_print, whose history records all that was to be printed.           *)
LEMMA PrintKeepsHistory ==
  ASSUME PipelineInv, NEW data \in Chunks, HostPrint(data)
  PROVE  PipelineInv'
<1>1. /\ PipeInv /\ SlotsOK /\ HistoryOK /\ UNCHANGED slotVars
      /\ PipeWrite(stdout[cur], data) /\ got' = got /\ eof' = eof
  BY DEF PipelineInv, HostPrint
<1>2. PipeInv' /\ SlotsOK'
  BY <1>1, WriteInv, SlotsUntouched
<1>3. /\ sent' \in Seq(Byte) /\ full' \in BOOLEAN
      /\ NothingLostUnlessFull' /\ HeldInOrder'
  <2>1. CASE Find(stdout[cur]) = "write"
    <3>1. sent' = sent \o data /\ full' = (full \/ count + Len(data) > N)
      BY <2>1 DEF HostPrint
    <3> QED  BY <1>1, <2>1, <3>1, WriteKeepsHistory
  <2>2. CASE Find(stdout[cur]) # "write"
    <3>1. UNCHANGED <<sent, got, full>>
      BY <1>1, <2>2 DEF HostPrint
    <3> QED  BY <1>1, <2>2, <3>1, OtherEndWrite DEF HistoryOK
  <2> QED  BY <2>1, <2>2
<1> QED  BY <1>1, <1>2, <1>3 DEF PipelineInv, HistoryOK

(* host_pipe_write, whose history records what fitted.                     *)
LEMMA PipeWriteKeepsHistory ==
  ASSUME PipelineInv, NEW fd, NEW data \in Chunks, HostPipeWrite(fd, data)
  PROVE  PipelineInv'
<1>1. /\ PipeInv /\ SlotsOK /\ HistoryOK /\ UNCHANGED slotVars
      /\ PipeWrite(fd, data) /\ got' = got /\ eof' = eof /\ full' = full
  BY DEF PipelineInv, HostPipeWrite
<1>2. PipeInv' /\ SlotsOK'
  BY <1>1, WriteInv, SlotsUntouched
<1>3. /\ sent' \in Seq(Byte) /\ full' \in BOOLEAN
      /\ NothingLostUnlessFull' /\ HeldInOrder'
  <2>1. CASE Find(fd) = "write"
    <3>1. sent' = sent \o SubSeq(data, 1, Smaller(Len(data), N - count))
      BY <2>1 DEF HostPipeWrite
    <3> QED  BY <1>1, <2>1, <3>1, WriteKeepsHistory
  <2>2. CASE Find(fd) # "write"
    <3>1. UNCHANGED <<sent, got, full>>
      BY <1>1, <2>2 DEF HostPipeWrite
    <3> QED  BY <1>1, <2>2, <3>1, OtherEndWrite DEF HistoryOK
  <2> QED  BY <2>1, <2>2
<1> QED  BY <1>1, <1>2, <1>3 DEF PipelineInv, HistoryOK

(* host_pipe_read, and host_getc, which reads one byte.                    *)
LEMMA ReadsKeepHistory ==
  ASSUME PipelineInv, NEW fd, NEW len \in Nat, PipeRead(fd, len),
         got' = IF Find(fd) = "read" THEN got \o handed' ELSE got,
         eof' \in BOOLEAN, UNCHANGED <<slotVars, sent, full>>
  PROVE  PipelineInv'
<1>1. PipeInv /\ SlotsOK /\ HistoryOK
  BY DEF PipelineInv
<1>2. PipeInv' /\ SlotsOK'
  BY <1>1, ReadInv, SlotsUntouched
<1>3. got' \in Seq(Byte) /\ NothingLostUnlessFull' /\ HeldInOrder'
  <2>1. CASE Find(fd) = "read"
    BY <2>1, ReadKeepsHistory
  <2>2. CASE Find(fd) # "read"
    BY <1>1, <2>2, OtherEndRead DEF HistoryOK
  <2> QED  BY <2>1, <2>2
<1> QED  BY <1>1, <1>2, <1>3 DEF PipelineInv, HistoryOK

(* The calls that close the pipe, or do not touch it.                      *)
LEMMA RestKeepsHistory ==
  ASSUME PipelineInv, PipeInv', SlotsOK', ready' => ready,
         UNCHANGED <<rpos, count, buf, history>>
  PROVE  PipelineInv'
<1>1. NothingLostUnlessFull' /\ HeldInOrder'
  BY BytesUntouched DEF history
<1>2. HistoryOK'
  BY DEF PipelineInv, HistoryOK, history
<1> QED  BY <1>1, <1>2 DEF PipelineInv

(* A slot whose redirection is undone leaves a list of the same length.    *)
LEMMA RedirectOff ==
  ASSUME NEW s \in Seq(Int), NEW i
  PROVE  /\ [s EXCEPT ![i] = None] \in Seq(Int)
         /\ Len([s EXCEPT ![i] = None]) = Len(s)
<1>1. None \in Int
  BY DEF None
<1>2. CASE i \in 1 .. Len(s)
  BY <1>1, <1>2, ExceptSeq
<1>3. CASE i \notin 1 .. Len(s)
  <2>1. DOMAIN s = 1 .. Len(s) /\ s = [j \in DOMAIN s |-> s[j]]
    BY LenProperties
  <2>2. [s EXCEPT ![i] = None] = s
    BY <1>3, <2>1
  <2> QED  BY <2>2
<1> QED  BY <1>2, <1>3

(* host_exit of a module closes the pipe its output goes to.               *)
LEMMA ExitKeepsHistory ==
  ASSUME PipelineInv, HostExit
  PROVE  PipelineInv'
<1>1. /\ PipeInv /\ SlotsOK /\ (ready' => ready)
      /\ UNCHANGED <<rfd, wfd, rpos, wpos, count, buf, nextFd, cur, history>>
      /\ stdin' = [stdin EXCEPT ![cur] = None] /\ stdout' = [stdout EXCEPT ![cur] = None]
  BY DEF PipelineInv, HostExit
<1>2. ready' \in BOOLEAN /\ fault' \in BOOLEAN
  <2>1. ready' \in BOOLEAN
    BY <1>1 DEF HostExit, PipeInv, PipeTypeOK
  <2>2. fault' \in {o = "fault" : o \in Stray} \cup {FALSE}
    BY DEF HostExit
  <2> QED  BY <2>1, <2>2
<1>3. PipeInv'
  BY <1>1, <1>2 DEF PipeInv, PipeTypeOK, RingConsistent, FdsFresh
<1>4. SlotsOK'
  <2>1. /\ stdin' \in Seq(Int) /\ Len(stdin') = Len(stdin)
        /\ stdout' \in Seq(Int) /\ Len(stdout') = Len(stdout)
    BY <1>1, RedirectOff DEF SlotsOK
  <2>2. cur' = cur
    BY <1>1
  <2> QED  BY <1>1, <2>1, <2>2 DEF SlotsOK
<1> QED  BY <1>1, <1>3, <1>4, RestKeepsHistory

(* Every call, one by one.                                                 *)
LEMMA PipelineStep == PipelineInv /\ [Next]_vars => PipelineInv'
<1> SUFFICES ASSUME PipelineInv, [Next]_vars PROVE PipelineInv'
  OBVIOUS
<1>0. PipeInv /\ SlotsOK /\ HistoryOK
  BY DEF PipelineInv
<1>1. CASE HostPipeCreate
  BY <1>1, CreateKeepsHistory
<1>2. ASSUME NEW data \in Chunks, HostPrint(data) PROVE PipelineInv'
  BY <1>2, PrintKeepsHistory
<1>3. ASSUME NEW fd, NEW data \in Chunks, HostPipeWrite(fd, data) PROVE PipelineInv'
  BY <1>3, PipeWriteKeepsHistory
<1>4. ASSUME NEW fd, NEW len \in Lengths, HostPipeRead(fd, len) PROVE PipelineInv'
  <2>1. /\ len \in Nat /\ PipeRead(fd, len) /\ eof' = eof
        /\ got' = IF Find(fd) = "read" THEN got \o handed' ELSE got
        /\ UNCHANGED <<slotVars, sent, full>>
    BY <1>4, PipeAssumption DEF HostPipeRead
  <2>2. eof' \in BOOLEAN
    BY <2>1, <1>0 DEF HistoryOK
  <2> QED  BY <2>1, <2>2, ReadsKeepHistory
<1>5. CASE HostGetc
  <2>1. /\ PipeRead(stdin[cur], 1) /\ 1 \in Nat
        /\ got' = IF Find(stdin[cur]) = "read" THEN got \o handed' ELSE got
        /\ UNCHANGED <<slotVars, sent, full>>
    BY <1>5 DEF HostGetc
  <2>2. eof' \in BOOLEAN
    BY <1>5 DEF HostGetc
  <2> QED  BY <2>1, <2>2, ReadsKeepHistory
<1>6. CASE HostExit
  BY <1>6, ExitKeepsHistory
<1>7. CASE ModuleReturns
  <2>1. /\ cur \in 1 .. Len(stdin) /\ cur' = cur + 1
        /\ UNCHANGED <<pipeVars, stdin, stdout, history>>
    BY <1>7, <1>0 DEF ModuleReturns, Running, SlotsOK
  <2>2. PipeInv' /\ (ready' => ready) /\ UNCHANGED <<rpos, count, buf, history>>
    BY <1>0, <2>1, StepInv DEF pipeVars
  <2>3. SlotsOK'
    BY <1>0, <2>1 DEF SlotsOK
  <2> QED  BY <2>2, <2>3, RestKeepsHistory
<1>8. ASSUME NEW in \in {None} \cup Ends, NEW to \in {None} \cup Ends,
             HostSpawnRedirect(in, to)
      PROVE  PipelineInv'
  <2>1. /\ Len(stdin) < MaxModules /\ MaxModules \in Nat
        /\ stdin' = Append(stdin, in) /\ stdout' = Append(stdout, to)
        /\ UNCHANGED <<pipeVars, cur, history>>
    BY <1>8, PipelineAssumption DEF HostSpawnRedirect
  <2>2. in \in Int /\ to \in Int
    BY <1>0 DEF Ends, None, PipeInv, PipeTypeOK
  <2>3. PipeInv' /\ (ready' => ready) /\ UNCHANGED <<rpos, count, buf, history>>
    BY <1>0, <2>1, StepInv DEF pipeVars
  <2>4. SlotsOK'
    BY <1>0, <2>1, <2>2 DEF SlotsOK
  <2> QED  BY <2>3, <2>4, RestKeepsHistory
<1>9. ASSUME NEW fd, HostPipeClose(fd) PROVE PipelineInv'
  <2>1. PipeClose(fd) /\ UNCHANGED <<slotVars, history>>
    BY <1>9 DEF HostPipeClose
  <2>2. PipeInv' /\ SlotsOK'
    BY <1>0, <2>1, CloseInv, SlotsUntouched
  <2>3. (ready' => ready) /\ UNCHANGED <<rpos, count, buf>>
    BY <2>1 DEF PipeClose, StrayLookup
  <2> QED  BY <2>1, <2>2, <2>3, RestKeepsHistory
<1>10. CASE UNCHANGED vars
  <2>1. UNCHANGED <<pipeVars, slotVars, history>>
    BY <1>10 DEF vars
  <2>2. PipeInv' /\ SlotsOK' /\ (ready' => ready) /\ UNCHANGED <<rpos, count, buf>>
    BY <1>0, <2>1, StepInv, SlotsUntouched DEF pipeVars
  <2> QED  BY <2>1, <2>2, RestKeepsHistory
<1> QED  BY <1>1, <1>2, <1>3, <1>4, <1>5, <1>6, <1>7, <1>8, <1>9, <1>10 DEF Next

(* The invariant of the pipe with modules around it: the ring is sound,    *)
(* and got, contents and sent belong together.                             *)
THEOREM PipelineInvariant == Spec => []PipelineInv
BY PipelineInitInv, PipelineStep, PTL DEF Spec

(* Modules, their redirections and the history have their types.           *)
THEOREM TypeCorrect == Spec => []TypeOK
<1>1. PipelineInv => TypeOK
  BY DEF PipelineInv, PipeInv, SlotsOK, HistoryOK, TypeOK
<1> QED  BY <1>1, PipelineInvariant, PTL

(* Whatever modules print, read, close and leave behind, a pipe that is    *)
(* open and was never too full holds what its readers have not got yet.    *)
THEOREM NothingIsLost == Spec => []NothingLostUnlessFull
<1>1. PipelineInv => NothingLostUnlessFull
  BY DEF PipelineInv
<1> QED  BY <1>1, PipelineInvariant, PTL

(* Readers get bytes in the order in which they were printed, also when    *)
(* some were dropped.                                                      *)
THEOREM BytesComeInOrder == Spec => []GotInOrder
<1>1. PipelineInv => GotInOrder
  <2> SUFFICES ASSUME PipelineInv PROVE GotInOrder
    OBVIOUS
  <2>1. got \in Seq(Byte) /\ sent \in Seq(Byte) /\ Contents \in Seq(Byte)
    BY ContentsLen DEF PipelineInv, HistoryOK
  <2> QED  BY <2>1, PrefixInOrder DEF PipelineInv, HeldInOrder, GotInOrder
<1> QED  BY <1>1, PipelineInvariant, PTL
=============================================================================
