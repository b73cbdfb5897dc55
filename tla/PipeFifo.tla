------------------------------ MODULE PipeFifo ------------------------------
(***************************************************************************)
(* What a pipe of kernel/ipc.asm promises: a first-in first-out queue of   *)
(* at most N bytes.  A write takes as many bytes as fit, a read hands over *)
(* as many as there are, in the order they were written, each once; a pipe *)
(* that is created anew is empty.                                          *)
(***************************************************************************)
EXTENDS Naturals, Sequences

CONSTANTS N, Chunks, Lengths   \* capacity, what is written, how much is asked for

VARIABLES open, queue, handed      \* the bytes the last read handed over

vars == <<open, queue, handed>>

Smaller(a, b) == IF a <= b THEN a ELSE b

Init == open = FALSE /\ queue = <<>> /\ handed = <<>>

Create == /\ ~open
          /\ open' = TRUE
          /\ queue' = <<>>
          /\ UNCHANGED handed

Write(data) ==
  /\ open
  /\ queue' = [j \in 1 .. Len(queue) + Smaller(Len(data), N - Len(queue)) |->
                 IF j <= Len(queue) THEN queue[j] ELSE data[j - Len(queue)]]
  /\ UNCHANGED <<open, handed>>

Read(n) ==
  LET k == Smaller(n, Len(queue))
  IN  /\ open
      /\ handed' = [j \in 1 .. k |-> queue[j]]
      /\ queue' = [j \in 1 .. Len(queue) - k |-> queue[j + k]]
      /\ UNCHANGED open

Close == /\ open
         /\ open' = FALSE
         /\ queue' = <<>>
         /\ UNCHANGED handed

Next == \/ Create \/ Close
        \/ \E data \in Chunks : Write(data)
        \/ \E n \in Lengths : Read(n)

Spec == Init /\ [][Next]_vars
=============================================================================
