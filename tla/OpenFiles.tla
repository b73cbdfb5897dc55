------------------------------ MODULE OpenFiles -----------------------------
(***************************************************************************)
(* The descriptors of kernel/vfs.asm and the open files of the ramdisk     *)
(* behind them, as host_fs_open, host_vfs_open, host_fs_read and           *)
(* host_fs_close use them, and the open files WASI modules hold by number. *)
(*                                                                         *)
(* Modules run to completion, but several are loaded and a restarted one   *)
(* has an old identifier, so any process may make the next call.  Calls    *)
(* that fail change nothing and are no actions: an identifier beyond the   *)
(* table, no descriptor or no open file left, no such file, any socket     *)
(* (net_connect and net_listen_impl always answer -1).                     *)
(*                                                                         *)
(* Nothing stops a WASI module from closing a number it does not hold, so  *)
(* a descriptor can be left whose open file is closed, or somebody else's  *)
(* by now: it is called stale.                                             *)
(***************************************************************************)
EXTENDS Integers

CONSTANTS
  Pids,            \* identifiers of modules, at most VFS_MAX_PROCS of them
  VFS_MAX_FD,      \* descriptors of a process
  MAX_OPEN_FILES,
  Files, Size,     \* the ramdisk's files and their sizes
  Lengths,         \* how much modules ask for
  PipeFd,          \* stands for all descriptors of pipes: not the number of a file
  NoFile, PipeEnd  \* no files

Fds == 0 .. VFS_MAX_FD - 1
Numbers == 0 .. MAX_OPEN_FILES - 1
Descriptors == Pids \X Fds

ASSUME FilesAssumption == /\ VFS_MAX_FD \in Nat
                          /\ MAX_OPEN_FILES \in Nat
                          /\ Size \in [Files -> Nat]
                          /\ Lengths \subseteq Nat
                          /\ PipeFd \in Nat \ Numbers
                          /\ NoFile \notin Files /\ PipeEnd \notin Files
                          /\ NoFile # PipeEnd

VARIABLES
  vfs,        \* vfs_proc_table: FD_NUM and OPS_PTR of each descriptor
  openFiles,  \* open_files
  wasi,       \* the numbers each process has from wasi_path_open
  lost,       \* history: open files that nobody holds any more
  stale       \* history: descriptors whose file somebody else has closed

fileVars == <<vfs, openFiles, wasi, lost, stale>>

Free == -1       \* FD_NUM = 0
Closed == [file |-> NoFile, position |-> 0]   \* not active

FilesInit == /\ vfs = [d \in Descriptors |-> Free]
             /\ openFiles = [n \in Numbers |-> Closed]
             /\ wasi = [pid \in Pids |-> {}]
             /\ lost = {}
             /\ stale = {}

Active(n) == openFiles[n] # Closed

Smaller(a, b) == IF a <= b THEN a ELSE b

(* vfs_alloc_fd finds fd; ramdisk_open finds n.                            *)
FirstFd(pid, fd) == /\ vfs[<<pid, fd>>] = Free
                    /\ \A g \in 0 .. fd - 1 : vfs[<<pid, g>>] # Free

(* Wrong on purpose: the last one in use can be taken as well.             *)
AnyNumber(n) == \A k \in 0 .. n - 1 : Active(k)

FirstNumber(n) == ~Active(n) /\ \A k \in 0 .. n - 1 : Active(k)

(* host_fs_open takes the descriptor first and host_vfs_open the file, and *)
(* both give back what they have when the other one is not to be had.      *)
HostOpen(pid, f) ==
  \E fd \in Fds, n \in Numbers :
    /\ FirstFd(pid, fd)
    /\ FirstNumber(n)
    /\ vfs' = [vfs EXCEPT ![<<pid, fd>>] = n]
    /\ openFiles' = [openFiles EXCEPT ![n] = [file |-> f, position |-> 0]]
    /\ UNCHANGED <<wasi, lost, stale>>

(* host_vfs_open of "/dev/pipe": a descriptor for the read end and, asked  *)
(* for writing, one for the write end if there is one.                     *)
HostOpenPipe(pid, write) ==
  \E fd \in Fds :
    /\ FirstFd(pid, fd)
    /\ vfs' = [d \in Descriptors |->
                 IF \/ d = <<pid, fd>>
                    \/ /\ write
                       /\ d[1] = pid /\ d[2] > fd /\ vfs[d] = Free
                       /\ \A g \in fd + 1 .. d[2] - 1 : vfs[<<pid, g>>] # Free
                 THEN PipeFd ELSE vfs[d]]
    /\ UNCHANGED <<openFiles, wasi, lost, stale>>

(* vfs_get_ops: what a descriptor stands for, 0 if it is not open.         *)
Ops(d) == IF vfs[d] = Free THEN 0 ELSE vfs[d]

(* Wrong on purpose: nothing stops a read at the end of the file.          *)
ReadOn(n, len) == openFiles[n].position + len

Advance(n, len) == Smaller(openFiles[n].position + len, Size[openFiles[n].file])

(* A read from a descriptor that is not open is one of open file 0, and    *)
(* one from a stale descriptor is one of whatever has its number now.      *)
HostRead(d, len) ==
  /\ Ops(d) \in Numbers
  /\ Active(Ops(d))
  /\ openFiles' = [openFiles EXCEPT ![Ops(d)].position = Advance(Ops(d), len)]
  /\ UNCHANGED <<vfs, wasi, lost, stale>>

(* ramdisk_close of n by one that does not hold it.                        *)
ClosedUnder(n) ==
  /\ openFiles' = [openFiles EXCEPT ![n] = Closed]
  /\ wasi' = [pid \in Pids |-> wasi[pid] \ {n}]
  /\ lost' = lost \ {n}

Users(n) == {d \in Descriptors : vfs[d] = n}

(* Wrong on purpose: the file is closed, its descriptor stays.             *)
HostCloseFile(d) ==
  /\ vfs[d] # Free
  /\ openFiles' = [n \in Numbers |->
                     IF n = vfs[d] /\ n # 0 THEN Closed ELSE openFiles[n]]
  /\ UNCHANGED <<vfs, wasi, lost, stale>>

(* Wrong on purpose: the descriptor is freed, its file stays open.         *)
HostCloseFd(d) ==
  /\ vfs[d] # Free
  /\ vfs' = [vfs EXCEPT ![d] = Free]
  /\ stale' = stale \ {d}
  /\ UNCHANGED <<openFiles, wasi, lost>>

(* Number 0 is taken for no file at all, so it is never closed.  (Which    *)
(* descriptor a module gets closed is left open: host_fs_close has no      *)
(* result but looks for its operand where it is beside one.)               *)
HostClose(d) ==
  /\ vfs[d] # Free
  /\ vfs' = [vfs EXCEPT ![d] = Free]
  /\ \/ /\ vfs[d] \in Numbers \ {0}
        /\ \/ /\ d \notin stale
              /\ openFiles' = [openFiles EXCEPT ![vfs[d]] = Closed]
              /\ UNCHANGED <<wasi, lost, stale>>
           \/ /\ d \in stale
              /\ ClosedUnder(vfs[d])
              /\ stale' = (stale \cup Users(vfs[d])) \ {d}
     \/ /\ vfs[d] \notin Numbers \ {0}
        /\ lost' = lost \cup IF d \in stale THEN {} ELSE {vfs[d]} \ {PipeFd}
        /\ stale' = stale \ {d}
        /\ UNCHANGED <<openFiles, wasi>>

(* The ends of pipes that host_vfs_open gave out are descriptors here;     *)
(* host_pipe_close and host_net_close free any descriptor, and leave what  *)
(* it stands for as it is.                                                 *)
HostPipeClose(d) ==
  /\ vfs[d] # Free
  /\ vfs' = [vfs EXCEPT ![d] = Free]
  /\ lost' = lost \cup IF d \in stale THEN {} ELSE {vfs[d]} \ {PipeFd}
  /\ stale' = stale \ {d}
  /\ UNCHANGED <<openFiles, wasi>>

(* vfs_free_all at an exit: the descriptors go, the open files stay.       *)
HostExit(pid) ==
  LET own == {pid} \X Fds
  IN  /\ vfs' = [d \in Descriptors |-> IF d \in own THEN Free ELSE vfs[d]]
      /\ lost' = lost \cup {n \in Numbers : \E d \in own \ stale : vfs[d] = n}
                      \cup wasi[pid]
      /\ wasi' = [wasi EXCEPT ![pid] = {}]
      /\ stale' = stale \ own
      /\ UNCHANGED openFiles

(* The number is lost when it should be stored outside the memory.         *)
WasiPathOpen(pid, f) ==
  \E n \in Numbers :
    /\ FirstNumber(n)
    /\ openFiles' = [openFiles EXCEPT ![n] = [file |-> f, position |-> 0]]
    /\ \/ wasi' = [wasi EXCEPT ![pid] = @ \cup {n}] /\ UNCHANGED lost
       \/ lost' = lost \cup {n} /\ UNCHANGED wasi
    /\ UNCHANGED <<vfs, stale>>

Standard == 0 .. 2   \* standard input, output and error of WASI

(* Of any number, whoever holds it; the standard ones are not closed.      *)
WasiFdClose(pid, n) ==
  /\ \/ /\ n \in wasi[pid]
        /\ wasi' = [wasi EXCEPT ![pid] = @ \ {n}]
        /\ IF n \in Standard
           THEN lost' = lost \cup {n} /\ UNCHANGED openFiles
           ELSE openFiles' = [openFiles EXCEPT ![n] = Closed] /\ UNCHANGED lost
        /\ UNCHANGED stale
     \/ /\ n \notin wasi[pid] \cup Standard
        /\ Active(n)
        /\ ClosedUnder(n)
        /\ stale' = stale \cup Users(n)
  /\ UNCHANGED vfs

FilesNext == \/ \E pid \in Pids :
                  \/ \E f \in Files : HostOpen(pid, f) \/ WasiPathOpen(pid, f)
                  \/ \E write \in BOOLEAN : HostOpenPipe(pid, write)
                  \/ \E n \in Numbers : WasiFdClose(pid, n)
                  \/ HostExit(pid)
             \/ \E d \in Descriptors :
                  \/ \E len \in Lengths : HostRead(d, len)
                  \/ HostClose(d)
                  \/ HostPipeClose(d)

FilesSpec == FilesInit /\ [][FilesNext]_fileVars
-----------------------------------------------------------------------------
(* Every entry is free, the end of a pipe or the number of an open file,   *)
(* and no position is beyond the end of its file.                          *)
FilesTypeOK ==
  /\ vfs \in [Descriptors -> {Free, PipeFd} \cup Numbers]
  /\ openFiles \in [Numbers -> {Closed} \cup [file : Files, position : Nat]]
  /\ \A n \in Numbers : Active(n) => openFiles[n].position <= Size[openFiles[n].file]
  /\ wasi \in [Pids -> SUBSET Numbers]
  /\ lost \subseteq Numbers
  /\ stale \subseteq {d \in Descriptors : vfs[d] \in Numbers}

(* An open file has one holder: no two descriptors, no two WASI modules    *)
(* and no descriptor and WASI module share one, and none is one of those   *)
(* nobody holds any more.  What they hold is open.  The exception are      *)
(* stale descriptors: their open file was closed under them, by a WASI     *)
(* module that did not hold its number or through another stale one.       *)
Live == Descriptors \ stale

OneHolder ==
  /\ \A d, e \in Live : vfs[d] = vfs[e] /\ vfs[d] \in Numbers => d = e
  /\ \A p, q \in Pids : p # q => wasi[p] \cap wasi[q] = {}
  /\ \A p \in Pids : wasi[p] \cap lost = {}
  /\ \A d \in Live : /\ vfs[d] \notin lost
                     /\ \A p \in Pids : vfs[d] \notin wasi[p]
  /\ \A d \in Live : vfs[d] \in Numbers => Active(vfs[d])
  /\ \A n \in lost \cup UNION {wasi[p] : p \in Pids} : Active(n)

(* An open file that nobody holds is one whose holder has exited, has      *)
(* closed a number that a close does not close (0 for a descriptor, 0 to 2 *)
(* for WASI), has closed its descriptor as that of a pipe or a socket, or  *)
(* was not told its number.                                                *)
OnlyKnownLeaks ==
  \A n \in Numbers :
    Active(n) => \/ n \in lost
                 \/ \E d \in Live : vfs[d] = n
                 \/ \E p \in Pids : n \in wasi[p]

(* The cursor of a descriptor is the open file it stands for.              *)
Cursor(d) == IF vfs[d] = Free \/ d \in stale THEN Closed
             ELSE IF vfs[d] = PipeFd THEN [file |-> PipeEnd, position |-> 0]
             ELSE openFiles[vfs[d]]

(* Through all opening, closing, leaking and reusing of open files, each   *)
(* descriptor is a cursor of its own: one that opens at the beginning of   *)
(* its file, moves by what one read takes while all others stay, and stays *)
(* until it is closed, if only under it, or its process exits.  (Who reads *)
(* is not part of it: a stray read, of open file 0 or from a stale         *)
(* descriptor, is taken for one by the holder.)                            *)
Cursors == INSTANCE FileCursors WITH cursor <- [d \in Descriptors |-> Cursor(d)]
ImplementsCursors == Cursors!Spec
=============================================================================
