----------------------------- MODULE FileCursors ----------------------------
(***************************************************************************)
(* What the descriptors of kernel/vfs.asm promise: each descriptor of each *)
(* process is a cursor of its own in a file.  It starts at the beginning,  *)
(* moves only when it is read, and never beyond the end of the file.  A    *)
(* descriptor of a pipe is none, and an exit gives all of a process back.  *)
(***************************************************************************)
EXTENDS Naturals

CONSTANTS Pids, Fds, Files, Size, Lengths, NoFile, PipeEnd

VARIABLE cursor   \* of descriptor <<pid, fd>>: which file, and where in it

At(f, n) == [file |-> f, position |-> n]
Nothing == At(NoFile, 0)

Smaller(a, b) == IF a <= b THEN a ELSE b

Init == cursor = [d \in Pids \X Fds |-> Nothing]

Open(d, f) == /\ cursor[d] = Nothing
              /\ cursor' = [cursor EXCEPT ![d] = At(f, 0)]

OpenPipe(ds) == /\ \A d \in ds : cursor[d] = Nothing
                /\ cursor' = [d \in Pids \X Fds |->
                                IF d \in ds THEN At(PipeEnd, 0) ELSE cursor[d]]

Read(d, len) ==
  LET f == cursor[d].file
      n == cursor[d].position
  IN  /\ f \in Files
      /\ cursor' = [cursor EXCEPT ![d] = At(f, Smaller(n + len, Size[f]))]

Close(d) == /\ cursor[d] # Nothing
            /\ cursor' = [cursor EXCEPT ![d] = Nothing]

Exit(pid) == cursor' = [d \in Pids \X Fds |->
                          IF d[1] = pid THEN Nothing ELSE cursor[d]]

Next == \/ \E d \in Pids \X Fds :
             \/ \E f \in Files : Open(d, f)
             \/ \E len \in Lengths : Read(d, len)
             \/ Close(d)
        \/ \E pid \in Pids : Exit(pid)
        \/ \E pid \in Pids, fd, fd2 \in Fds : OpenPipe({<<pid, fd>>, <<pid, fd2>>})

Spec == Init /\ [][Next]_cursor
=============================================================================
