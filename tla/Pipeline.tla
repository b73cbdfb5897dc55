------------------------------ MODULE Pipeline ------------------------------
(***************************************************************************)
(* Modules around the pipe of Pipe: those whose input and output are       *)
(* redirected to it (host_print, host_getc, host_exit,                     *)
(* host_spawn_redirect) and those that read and write it themselves.       *)
(*                                                                         *)
(* Modules run one after the other, each to its end, in the order in which *)
(* they were spawned; module 1 runs first, without redirection.  (Slots,   *)
(* identifiers and failing loads are the subject of ModuleRuntime.)        *)
(***************************************************************************)
EXTENDS Pipe, Integers

CONSTANTS
  ClosePipes,   \* do modules call host_pipe_close themselves?
  MaxModules,   \* bound of the model on modules
  MaxSent       \* bound of the model on bytes printed into one pipe

ASSUME PipelineAssumption == /\ ClosePipes \in BOOLEAN
                             /\ MaxModules \in Nat \ {0}
                             /\ MaxSent \in Nat

None == -1

VARIABLES
  stdin, stdout,  \* stdin_pipe_fd and stdout_pipe_fd of the modules
  cur,            \* current_module_id; greater than Len(stdin): none runs
  sent,           \* what was printed into the pipe since it was created,
  got,            \* and read from it;
  full,           \* some of it did not fit
  eof             \* a reader of the pipe was told that its input has ended

slotVars == <<stdin, stdout, cur>>
history  == <<sent, got, full, eof>>
vars     == <<pipeVars, slotVars, history>>

Init == /\ PipeInit
        /\ stdin = <<None>> /\ stdout = <<None>> /\ cur = 1
        /\ sent = <<>> /\ got = <<>> /\ full = FALSE /\ eof = FALSE

Running == ~fault /\ cur <= Len(stdin)

HostPipeCreate == /\ Running
                  /\ PipeCreate
                  /\ IF ready THEN UNCHANGED history
                     ELSE /\ sent' = <<>> /\ got' = <<>>
                          /\ full' = FALSE /\ eof' = FALSE
                  /\ UNCHANGED slotVars

(* The descriptors a module may hold: those of the last pipe, open or not. *)
Ends == IF nextFd = FirstFd THEN {} ELSE {rfd, wfd}

(* A parent redirects to the ends of the pipe it has, closed or not.       *)
HostSpawnRedirect(in, to) ==
  /\ Running
  /\ Len(stdin) < MaxModules
  /\ stdin' = Append(stdin, in)
  /\ stdout' = Append(stdout, to)
  /\ UNCHANGED <<pipeVars, cur, history>>

(* What does not fit, and what is printed to no pipe, is dropped.          *)
HostPrint(data) ==
  /\ Running
  /\ stdout[cur] # None
  /\ Len(sent) + Len(data) <= MaxSent
  /\ PipeWrite(stdout[cur], data)
  /\ IF Find(stdout[cur]) = "write"
     THEN /\ sent' = sent \o data
          /\ full' = (full \/ count + Len(data) > N)
     ELSE UNCHANGED <<sent, full>>
  /\ UNCHANGED <<slotVars, got, eof>>

(* A module that writes the pipe itself is told how much of its data fits. *)
HostPipeWrite(fd, data) ==
  /\ Running
  /\ Len(sent) + Len(data) <= MaxSent
  /\ PipeWrite(fd, data)
  /\ sent' = IF Find(fd) = "write"
             THEN sent \o SubSeq(data, 1, Smaller(Len(data), N - count))
             ELSE sent
  /\ UNCHANGED <<slotVars, got, full, eof>>

HostPipeRead(fd, len) ==
  /\ Running
  /\ PipeRead(fd, len)
  /\ got' = IF Find(fd) = "read" THEN got \o handed' ELSE got
  /\ UNCHANGED <<slotVars, sent, full, eof>>

(* Wrong on purpose: the byte is looked at and left where it is.           *)
HostGetcPeek ==
  /\ Running
  /\ stdin[cur] # None
  /\ Find(stdin[cur]) = "read" /\ count > 0
  /\ handed' = <<buf[rpos]>>
  /\ got' = got \o handed'
  /\ Len(got) < MaxSent
  /\ UNCHANGED <<ready, rfd, wfd, rpos, wpos, count, buf, nextFd, fault,
                 slotVars, sent, full, eof>>

(* host_getc asks for a byte and, without one, whether the pipe is ready:  *)
(* if not, its caller is told that the input has ended.                    *)
HostGetc ==
  /\ Running
  /\ stdin[cur] # None
  /\ PipeRead(stdin[cur], 1)
  /\ got' = IF Find(stdin[cur]) = "read" THEN got \o handed' ELSE got
  /\ eof' = (eof \/ (stdin[cur] = rfd /\ ~ready /\ ~fault'))
  /\ UNCHANGED <<slotVars, sent, full>>

(* Which descriptor is closed is left open, and whether it is one at all:  *)
(* host_pipe_close has no result but looks for its operand where it is     *)
(* beside one.                                                             *)
HostPipeClose(fd) == /\ Running
                     /\ ClosePipes
                     /\ PipeClose(fd)
                     /\ UNCHANGED <<slotVars, history>>

(* host_exit closes the module's redirections, the input first; the module *)
(* goes on running until it returns.                                       *)
HostExit ==
  LET in   == stdin[cur]
      to   == stdout[cur]
      hit  == in # None /\ Find(in) # "none"
      miss == \/ in # None /\ ~hit
              \/ to # None /\ (hit \/ Find(to) = "none")
  IN  /\ Running
      /\ {in, to} # {None}
      /\ ready' = (ready /\ ~hit /\ (to = None \/ Find(to) = "none"))
      /\ fault' \in IF miss THEN {o = "fault" : o \in Stray} ELSE {FALSE}
      /\ stdin' = [stdin EXCEPT ![cur] = None]
      /\ stdout' = [stdout EXCEPT ![cur] = None]
      /\ UNCHANGED <<rfd, wfd, rpos, wpos, count, buf, nextFd, handed, cur, history>>

(* A module that returns without host_exit closes nothing.                 *)
ModuleReturns == /\ Running
                 /\ cur' = cur + 1
                 /\ UNCHANGED <<pipeVars, stdin, stdout, history>>

Next == \/ HostPipeCreate \/ HostGetc \/ HostExit \/ ModuleReturns
        \/ \E in, to \in {None} \cup Ends : HostSpawnRedirect(in, to)
        \/ \E data \in Chunks : HostPrint(data)
        \/ \E fd \in Ends, data \in Chunks : HostPipeWrite(fd, data)
        \/ \E fd \in Ends, len \in Lengths : HostPipeRead(fd, len)
        \/ \E fd \in {None} \cup Ends : HostPipeClose(fd)

Spec == Init /\ [][Next]_vars
-----------------------------------------------------------------------------
TypeOK == /\ PipeTypeOK
          /\ Len(stdin) \in 1 .. MaxModules /\ Len(stdout) = Len(stdin)
          /\ cur \in 1 .. Len(stdin) + 1
          /\ sent \in Seq(Byte) /\ got \in Seq(Byte)
          /\ full \in BOOLEAN /\ eof \in BOOLEAN

(* As long as the pipe is open and nothing was printed that did not fit,   *)
(* what was printed by all its writers is what its readers have got and    *)
(* what is still in it.                                                    *)
NothingLostUnlessFull == ready /\ ~full => sent = got \o Contents

(* Even when bytes are dropped because the pipe was full, what the readers *)
(* get is in the order in which it was printed, and nothing comes twice.   *)
InOrder(s, t) ==
  \E at \in [1 .. Len(s) -> 1 .. Len(t)] :
    /\ \A i \in 1 .. Len(s) : s[i] = t[at[i]]
    /\ \A i, j \in 1 .. Len(s) : i < j => at[i] < at[j]
GotInOrder == InOrder(got, sent)

(* wasm_host.c, line 1605: a reader is told that its input has ended when  *)
(* the writer is done; then it has everything that fitted.                 *)
EofMeansDrained == eof /\ ~full => got = sent
=============================================================================
