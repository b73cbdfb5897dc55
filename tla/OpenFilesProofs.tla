--------------------------- MODULE OpenFilesProofs --------------------------
(* Descriptors and open files (kernel/vfs.asm, kernel/wasm_host.c), for    *)
(* any number of processes, descriptors, open files, and files.            *)
EXTENDS OpenFiles, TLAPS

Inv == FilesTypeOK /\ OneHolder /\ OnlyKnownLeaks

LEMMA InitInv == FilesInit => Inv
BY FilesAssumption DEF FilesInit, Inv, FilesTypeOK, OneHolder, OnlyKnownLeaks, Active,
                       Live, Closed, Free, Descriptors, Numbers

LEMMA NumbersAre == Free \notin Numbers /\ PipeFd \notin Numbers /\ PipeFd # Free
BY FilesAssumption DEF Free, Numbers

(* A file that has just been opened.                                       *)
LEMMA OpenedIs ==
  ASSUME NEW f \in Files
  PROVE  /\ [file |-> f, position |-> 0] \in [file : Files, position : Nat]
         /\ [file |-> f, position |-> 0] # Closed
         /\ 0 <= Size[f]
BY FilesAssumption DEF Closed

LEMMA OpenInv ==
  ASSUME Inv, NEW pid \in Pids, NEW f \in Files, HostOpen(pid, f)
  PROVE  Inv'
<1>1. PICK fd \in Fds, n \in Numbers :
        /\ vfs[<<pid, fd>>] = Free
        /\ ~Active(n)
        /\ vfs' = [vfs EXCEPT ![<<pid, fd>>] = n]
        /\ openFiles' = [openFiles EXCEPT ![n] = [file |-> f, position |-> 0]]
        /\ UNCHANGED <<wasi, lost, stale>>
  BY DEF HostOpen, FirstFd, FirstNumber
<1>2. <<pid, fd>> \in Live
  BY <1>1, NumbersAre DEF Descriptors, Inv, FilesTypeOK, Live
<1>3. FilesTypeOK'
  BY <1>1, <1>2, OpenedIs DEF Inv, FilesTypeOK, Active, Live
<1>4. OneHolder'
  BY <1>1, <1>2, OpenedIs, NumbersAre DEF Inv, FilesTypeOK, OneHolder, Active, Live
<1>5. OnlyKnownLeaks'
  BY <1>1, <1>2, OpenedIs, NumbersAre DEF Inv, FilesTypeOK, OnlyKnownLeaks, Active, Live
<1> QED
  BY <1>3, <1>4, <1>5 DEF Inv

(* Descriptors come to stand for pipes, or are freed, and open files stay. *)
LEMMA PipeInv ==
  ASSUME Inv, NEW pid \in Pids, NEW write \in BOOLEAN, HostOpenPipe(pid, write)
  PROVE  Inv'
<1>1. /\ \A d \in Descriptors : vfs'[d] = vfs[d] \/ (vfs[d] = Free /\ vfs'[d] = PipeFd)
      /\ vfs' \in [Descriptors -> {Free, PipeFd} \cup Numbers]
  BY DEF Inv, FilesTypeOK, HostOpenPipe, FirstFd
<1>2. UNCHANGED <<openFiles, wasi, lost, stale>>
  BY DEF HostOpenPipe
<1>3. \A d \in Descriptors : vfs'[d] \in Numbers <=> vfs[d] \in Numbers
  BY <1>1, NumbersAre
<1>4. \A d \in Descriptors : vfs[d] \in Numbers => vfs'[d] = vfs[d]
  BY <1>1, NumbersAre
<1>5. FilesTypeOK'
  BY <1>1, <1>2, <1>3 DEF Inv, FilesTypeOK, Active
<1>6. lost \subseteq Numbers /\ \A p \in Pids : wasi[p] \subseteq Numbers
  BY DEF Inv, FilesTypeOK
<1>7. OneHolder'
  BY <1>2, <1>3, <1>4, <1>6 DEF Inv, OneHolder, Active, Live
<1>8. OnlyKnownLeaks'
  BY <1>2, <1>4 DEF Inv, OnlyKnownLeaks, Active, Live
<1> QED
  BY <1>5, <1>7, <1>8 DEF Inv

LEMMA AdvanceIs ==
  ASSUME FilesTypeOK, NEW n \in Numbers, Active(n), NEW len \in Lengths
  PROVE  /\ Advance(n, len) \in Nat
         /\ Advance(n, len) <= Size[openFiles[n].file]
         /\ openFiles[n].file \in Files
         /\ openFiles[n].position \in Nat
<1>1. openFiles[n] \in [file : Files, position : Nat]
  BY DEF FilesTypeOK, Active
<1> QED
  BY <1>1, FilesAssumption DEF Advance, Smaller

LEMMA ReadInv ==
  ASSUME Inv, NEW d \in Descriptors, NEW len \in Lengths, HostRead(d, len)
  PROVE  Inv'
<1> DEFINE n == Ops(d)
<1>1. /\ n \in Numbers /\ Active(n)
      /\ openFiles' = [openFiles EXCEPT ![n].position = Advance(n, len)]
      /\ UNCHANGED <<vfs, wasi, lost, stale>>
  BY DEF HostRead
<1>2. /\ Advance(n, len) \in Nat
      /\ Advance(n, len) <= Size[openFiles[n].file]
      /\ openFiles[n].file \in Files
  BY <1>1, AdvanceIs DEF Inv
<1> HIDE DEF n
<1>3. openFiles'[n] = [file |-> openFiles[n].file, position |-> Advance(n, len)]
  <2>1. openFiles[n] \in [file : Files, position : Nat]
    BY <1>1 DEF Inv, FilesTypeOK, Active
  <2> QED
    BY <1>1, <2>1 DEF Inv, FilesTypeOK
<1>4. /\ \A k \in Numbers : k # n => openFiles'[k] = openFiles[k]
      /\ openFiles' \in [Numbers -> {Closed} \cup [file : Files, position : Nat]]
  BY <1>1, <1>2, <1>3 DEF Inv, FilesTypeOK
<1>5. openFiles'[n] # Closed
  BY <1>2, <1>3, FilesAssumption DEF Closed
<1>6. \A k \in Numbers : (openFiles'[k] # Closed) <=> (openFiles[k] # Closed)
  BY <1>1, <1>4, <1>5 DEF Active
<1>7. FilesTypeOK'
  <2>1. \A k \in Numbers : Active(k)' => openFiles'[k].position <= Size[openFiles'[k].file]
    BY <1>2, <1>3, <1>4 DEF Inv, FilesTypeOK, Active
  <2> QED
    BY <1>1, <1>4, <2>1 DEF Inv, FilesTypeOK
<1>8. OneHolder'
  BY <1>1, <1>6 DEF Inv, FilesTypeOK, OneHolder, Active, Live
<1>9. OnlyKnownLeaks'
  BY <1>1, <1>6 DEF Inv, OnlyKnownLeaks, Active, Live
<1> QED
  BY <1>7, <1>8, <1>9 DEF Inv

(* A descriptor is freed and the open file behind it stays as it is: if    *)
(* the descriptor held it, nobody does now.                                *)
FreedOnly(d) == /\ vfs' = [vfs EXCEPT ![d] = Free]
                /\ lost' = lost \cup IF d \in stale THEN {} ELSE {vfs[d]} \ {PipeFd}
                /\ stale' = stale \ {d}
                /\ UNCHANGED <<openFiles, wasi>>

LEMMA FreedInv ==
  ASSUME Inv, NEW d \in Descriptors, vfs[d] # Free, FreedOnly(d)
  PROVE  Inv'
<1>1. /\ UNCHANGED <<openFiles, wasi>>
      /\ \A e \in Descriptors : vfs'[e] = IF e = d THEN Free ELSE vfs[e]
      /\ Live' = Live \cup {d}
  BY DEF FreedOnly, Inv, FilesTypeOK, Live
<1>2. /\ d \in stale => lost' = lost
      /\ d \notin stale /\ vfs[d] \in Numbers => lost' = lost \cup {vfs[d]}
      /\ d \notin stale /\ vfs[d] \notin Numbers => lost' = lost
  BY NumbersAre DEF FreedOnly, Inv, FilesTypeOK
<1>3. FilesTypeOK'
  BY <1>1, <1>2 DEF FreedOnly, Inv, FilesTypeOK, Active
<1>4. d \notin stale => d \in Live
  BY DEF Live
<1>5. OneHolder'
  <2>1. \A e \in Live' : vfs'[e] \in Numbers => e \in Live /\ e # d /\ vfs'[e] = vfs[e]
    BY <1>1, NumbersAre DEF Live
  <2>2. \A e \in Live' : vfs'[e] \notin lost'
    BY <1>2, <1>3, <1>4, <2>1 DEF Inv, FilesTypeOK, OneHolder
  <2>3. \A p \in Pids : wasi[p] \cap lost' = {}
    BY <1>2, <1>4 DEF Inv, FilesTypeOK, OneHolder
  <2>4. \A n \in lost' \cup UNION {wasi[p] : p \in Pids} : Active(n)
    BY <1>2, <1>4 DEF Inv, OneHolder
  <2>5. \A e \in Live', p \in Pids : vfs'[e] \notin wasi[p]
    BY <2>1 DEF Inv, FilesTypeOK, OneHolder
  <2> QED
    BY <1>1, <2>1, <2>2, <2>3, <2>4, <2>5 DEF Inv, OneHolder, Active
<1>6. OnlyKnownLeaks'
  <2> SUFFICES ASSUME NEW n \in Numbers, Active(n), n \notin lost'
               PROVE  \/ \E e \in Live' : vfs'[e] = n
                      \/ \E p \in Pids : n \in wasi[p]
    BY <1>1 DEF OnlyKnownLeaks, Active
  <2>1. \A e \in Live : vfs[e] = n => e # d
    BY <1>2 DEF Live
  <2> QED
    BY <1>1, <1>2, <2>1 DEF Inv, OnlyKnownLeaks, Live
<1> QED
  BY <1>3, <1>5, <1>6 DEF Inv

(* A descriptor is freed and the open file it held is closed.              *)
ClosedOwn(d) == /\ vfs' = [vfs EXCEPT ![d] = Free]
                /\ openFiles' = [openFiles EXCEPT ![vfs[d]] = Closed]
                /\ UNCHANGED <<wasi, lost, stale>>

LEMMA OwnInv ==
  ASSUME Inv, NEW d \in Live, vfs[d] \in Numbers, ClosedOwn(d)
  PROVE  Inv'
<1>1. /\ UNCHANGED <<wasi, lost, stale>>
      /\ d \in Descriptors /\ Live' = Live
      /\ \A e \in Descriptors : vfs'[e] = IF e = d THEN Free ELSE vfs[e]
      /\ \A n \in Numbers : openFiles'[n] = IF n = vfs[d] THEN Closed ELSE openFiles[n]
  BY DEF ClosedOwn, Inv, FilesTypeOK, Live
<1>2. FilesTypeOK'
  BY <1>1, NumbersAre DEF ClosedOwn, Inv, FilesTypeOK, Active, Live
<1>3. \A e \in Live : vfs'[e] \in Numbers => e # d /\ vfs'[e] = vfs[e] /\ vfs[e] # vfs[d]
  BY <1>1, NumbersAre DEF Inv, OneHolder, Live
<1>4. vfs[d] \notin lost /\ \A p \in Pids : vfs[d] \notin wasi[p]
  BY DEF Inv, OneHolder
<1>5. lost \subseteq Numbers /\ \A p \in Pids : wasi[p] \subseteq Numbers
  BY DEF Inv, FilesTypeOK
<1>6. OneHolder'
  <2>1. \A n \in lost \cup UNION {wasi[p] : p \in Pids} : Active(n)'
    BY <1>1, <1>4, <1>5 DEF Inv, OneHolder, Active
  <2>2. \A e \in Live : vfs'[e] \in Numbers => openFiles'[vfs'[e]] # Closed
    BY <1>1, <1>3 DEF Inv, OneHolder, Active
  <2>3. \A e \in Live : vfs'[e] \notin lost /\ \A p \in Pids : vfs'[e] \notin wasi[p]
    BY <1>3, <1>5 DEF Inv, OneHolder
  <2> QED
    BY <1>1, <1>3, <2>1, <2>2, <2>3 DEF Inv, OneHolder, Active
<1>7. OnlyKnownLeaks'
  BY <1>1 DEF Inv, OnlyKnownLeaks, Active, Live
<1> QED
  BY <1>2, <1>6, <1>7 DEF Inv

(* An open file is closed by one that does not hold it, and the descriptor *)
(* it is closed through, if there is one, is freed.                        *)
Under(n, freed) == /\ ClosedUnder(n)
                   /\ freed \subseteq Users(n)
                   /\ vfs' = [e \in Descriptors |-> IF e \in freed THEN Free ELSE vfs[e]]
                   /\ stale' = (stale \cup Users(n)) \ freed

LEMMA UnderIs ==
  ASSUME Inv, NEW n \in Numbers, NEW freed, Under(n, freed)
  PROVE  /\ Live' = {e \in Live : vfs[e] # n} \cup freed
         /\ \A e \in Live' : \/ vfs'[e] = Free /\ e \in freed
                             \/ e \in Live /\ vfs'[e] = vfs[e] /\ vfs[e] # n
         /\ \A k \in Numbers : openFiles'[k] = IF k = n THEN Closed ELSE openFiles[k]
         /\ \A p \in Pids : wasi'[p] = wasi[p] \ {n}
         /\ lost' = lost \ {n}
BY DEF Under, ClosedUnder, Users, Live, Inv, FilesTypeOK

LEMMA UnderInv ==
  ASSUME Inv, NEW n \in Numbers, NEW freed, Under(n, freed)
  PROVE  Inv'
<1>1. /\ Live' = {e \in Live : vfs[e] # n} \cup freed
      /\ \A e \in Live' : \/ vfs'[e] = Free /\ e \in freed
                          \/ e \in Live /\ vfs'[e] = vfs[e] /\ vfs[e] # n
      /\ \A k \in Numbers : openFiles'[k] = IF k = n THEN Closed ELSE openFiles[k]
      /\ \A p \in Pids : wasi'[p] = wasi[p] \ {n}
      /\ lost' = lost \ {n}
  BY UnderIs
<1>2. FilesTypeOK'
  <2>1. /\ vfs' \in [Descriptors -> {Free, PipeFd} \cup Numbers]
        /\ openFiles' \in [Numbers -> {Closed} \cup [file : Files, position : Nat]]
        /\ wasi' \in [Pids -> SUBSET Numbers]
    BY DEF Under, ClosedUnder, Inv, FilesTypeOK
  <2>2. stale' \subseteq {e \in Descriptors : vfs'[e] \in Numbers}
    BY DEF Under, Users, Inv, FilesTypeOK
  <2>3. \A k \in Numbers : Active(k)' => openFiles'[k].position <= Size[openFiles'[k].file]
    BY <1>1 DEF Inv, FilesTypeOK, Active
  <2> QED
    BY <1>1, <2>1, <2>2, <2>3 DEF Inv, FilesTypeOK
<1>3. lost \subseteq Numbers /\ \A p \in Pids : wasi[p] \subseteq Numbers
  BY DEF Inv, FilesTypeOK
<1>4. OneHolder'
  <2>1. \A e \in Live' : vfs'[e] \in Numbers => e \in Live /\ vfs'[e] = vfs[e] /\ vfs[e] # n
    BY <1>1, NumbersAre
  <2>2. \A k \in lost' \cup UNION {wasi'[p] : p \in Pids} : Active(k)'
    <3>1. \A k \in lost' : Active(k)'
      BY <1>1, <1>3 DEF Inv, OneHolder, Active
    <3>2. \A p \in Pids : \A k \in wasi'[p] : Active(k)'
      BY <1>1, <1>3 DEF Inv, OneHolder, Active
    <3> QED
      BY <3>1, <3>2
  <2>3. \A e \in Live' : vfs'[e] \in Numbers => openFiles'[vfs'[e]] # Closed
    BY <1>1, <2>1 DEF Inv, OneHolder, Active
  <2>4. \A e \in Live' : vfs'[e] \notin lost' /\ \A p \in Pids : vfs'[e] \notin wasi'[p]
    BY <1>1, <1>3, <2>1 DEF Inv, OneHolder
  <2>5. \A p, q \in Pids : p # q => wasi'[p] \cap wasi'[q] = {}
    BY <1>1 DEF Inv, OneHolder
  <2>6. \A p \in Pids : wasi'[p] \cap lost' = {}
    BY <1>1 DEF Inv, OneHolder
  <2>7. \A d, e \in Live' : vfs'[d] = vfs'[e] /\ vfs'[d] \in Numbers => d = e
    BY <2>1 DEF Inv, OneHolder
  <2> QED
    BY <2>2, <2>3, <2>4, <2>5, <2>6, <2>7 DEF OneHolder, Active
<1>5. OnlyKnownLeaks'
  <2> SUFFICES ASSUME NEW k \in Numbers, openFiles'[k] # Closed, k \notin lost'
               PROVE  \/ \E e \in Live' : vfs'[e] = k
                      \/ \E p \in Pids : k \in wasi'[p]
    BY DEF OnlyKnownLeaks, Active
  <2>1. k # n /\ openFiles[k] # Closed /\ k \notin lost
    BY <1>1
  <2>2. \A e \in Live : vfs[e] = k => e \in Live' /\ vfs'[e] = k
    BY <1>1, <2>1 DEF Under, Users, Live
  <2> QED
    BY <1>1, <2>1, <2>2 DEF Inv, OnlyKnownLeaks, Active
<1> QED
  BY <1>2, <1>4, <1>5 DEF Inv

(* What a close of a descriptor is.                                        *)
LEMMA CloseIs ==
  ASSUME Inv, NEW d \in Descriptors, HostClose(d) \/ HostPipeClose(d)
  PROVE  /\ vfs[d] # Free
         /\ \/ FreedOnly(d)
            \/ d \in Live /\ vfs[d] \in Numbers /\ ClosedOwn(d)
            \/ vfs[d] \in Numbers /\ d \in stale /\ Under(vfs[d], {d})
<1>1. CASE HostPipeClose(d)
  BY <1>1 DEF HostPipeClose, FreedOnly
<1>2. CASE HostClose(d)
  <2>1. vfs[d] # Free /\ vfs' = [vfs EXCEPT ![d] = Free]
    BY <1>2 DEF HostClose
  <2>2. CASE /\ vfs[d] \in Numbers \ {0} /\ d \notin stale
             /\ openFiles' = [openFiles EXCEPT ![vfs[d]] = Closed]
             /\ UNCHANGED <<wasi, lost, stale>>
    BY <2>1, <2>2 DEF ClosedOwn, Live
  <2>3. CASE /\ vfs[d] \in Numbers \ {0} /\ d \in stale
             /\ ClosedUnder(vfs[d])
             /\ stale' = (stale \cup Users(vfs[d])) \ {d}
    <3>1. vfs' = [e \in Descriptors |-> IF e \in {d} THEN Free ELSE vfs[e]]
      BY <2>1 DEF Inv, FilesTypeOK
    <3> QED
      BY <2>1, <2>3, <3>1 DEF Under, Users
  <2>4. CASE FreedOnly(d)
    BY <2>1, <2>4
  <2> QED
    BY <1>2, <2>1, <2>2, <2>3, <2>4 DEF HostClose, FreedOnly
<1> QED
  BY <1>1, <1>2

LEMMA CloseInv ==
  ASSUME Inv, NEW d \in Descriptors, HostClose(d) \/ HostPipeClose(d)
  PROVE  Inv'
BY CloseIs, FreedInv, OwnInv, UnderInv

LEMMA ExitInv ==
  ASSUME Inv, NEW pid \in Pids, HostExit(pid)
  PROVE  Inv'
<1> DEFINE own == {pid} \X Fds
           gone == {n \in Numbers : \E d \in own \ stale : vfs[d] = n}
<1>1. /\ \A d \in Descriptors : vfs'[d] = IF d \in own THEN Free ELSE vfs[d]
      /\ vfs' \in [Descriptors -> {Free, PipeFd} \cup Numbers]
      /\ UNCHANGED openFiles
      /\ lost' = lost \cup gone \cup wasi[pid]
      /\ wasi' = [wasi EXCEPT ![pid] = {}]
      /\ stale' = stale \ own
  BY DEF HostExit, Inv, FilesTypeOK
<1>2. own \subseteq Descriptors
  BY DEF Descriptors
<1> HIDE DEF own
<1>3. \A n : n \in gone <=> n \in Numbers /\ \E d \in Live : d \in own /\ vfs[d] = n
  BY <1>2 DEF Live
<1> HIDE DEF gone
<1>4. \A p \in Pids : wasi'[p] = IF p = pid THEN {} ELSE wasi[p]
  BY <1>1 DEF Inv, FilesTypeOK
<1>5. FilesTypeOK'
  BY <1>1, <1>3 DEF Inv, FilesTypeOK, Active
<1>6. OneHolder'
  <2>1. \A d \in Live' : vfs'[d] \in Numbers => d \in Live /\ d \notin own /\ vfs'[d] = vfs[d]
    BY <1>1, NumbersAre DEF Live
  <2>2. lost' \subseteq Numbers
    BY <1>5 DEF FilesTypeOK
  <2>3. \A d \in Live' : vfs'[d] \notin lost'
    BY <1>1, <1>3, <2>1, <2>2 DEF Inv, OneHolder
  <2>4. \A n \in lost' \cup UNION {wasi'[p] : p \in Pids} : Active(n)'
    BY <1>1, <1>3, <1>4 DEF Inv, OneHolder, Active
  <2>5. \A p \in Pids : wasi'[p] \cap lost' = {}
    BY <1>1, <1>3, <1>4 DEF Inv, OneHolder
  <2>6. \A d \in Live', p \in Pids : vfs'[d] \notin wasi'[p]
    BY <1>1, <1>4, <2>1 DEF Inv, FilesTypeOK, OneHolder
  <2> QED
    BY <1>1, <1>4, <2>1, <2>3, <2>4, <2>5, <2>6 DEF Inv, OneHolder, Active
<1>7. OnlyKnownLeaks'
  BY <1>1, <1>3, <1>4 DEF Inv, OnlyKnownLeaks, Active, Live
<1> QED
  BY <1>5, <1>6, <1>7 DEF Inv

LEMMA WasiOpenInv ==
  ASSUME Inv, NEW pid \in Pids, NEW f \in Files, WasiPathOpen(pid, f)
  PROVE  Inv'
<1>1. PICK n \in Numbers :
        /\ ~Active(n)
        /\ openFiles' = [openFiles EXCEPT ![n] = [file |-> f, position |-> 0]]
        /\ \/ wasi' = [wasi EXCEPT ![pid] = @ \cup {n}] /\ UNCHANGED lost
           \/ lost' = lost \cup {n} /\ UNCHANGED wasi
        /\ UNCHANGED <<vfs, stale>>
  BY DEF WasiPathOpen, FirstNumber
<1>2. \/ /\ \A p \in Pids : wasi'[p] = IF p = pid THEN wasi[p] \cup {n} ELSE wasi[p]
         /\ lost' = lost
      \/ lost' = lost \cup {n} /\ wasi' = wasi
  BY <1>1 DEF Inv, FilesTypeOK
<1>3. \A k \in Numbers : openFiles'[k] = IF k = n THEN [file |-> f, position |-> 0]
                                         ELSE openFiles[k]
  BY <1>1 DEF Inv, FilesTypeOK
<1>4. FilesTypeOK'
  BY <1>1, OpenedIs DEF Inv, FilesTypeOK, Active
<1>5. OneHolder'
  <2>1. /\ n \notin lost
        /\ \A d \in Live : vfs[d] # n
        /\ \A p \in Pids : n \notin wasi[p]
    BY <1>1 DEF Inv, OneHolder
  <2>2. \A k \in Numbers : Active(k) => Active(k)'
    BY <1>3, OpenedIs DEF Active
  <2>3. Active(n)'
    BY <1>3, OpenedIs DEF Active
  <2>4. \A k \in lost' \cup UNION {wasi'[p] : p \in Pids} : Active(k)'
    <3>1. ASSUME NEW k \in lost' \cup UNION {wasi'[p] : p \in Pids}
          PROVE  k = n \/ (k \in Numbers /\ k \in lost \cup UNION {wasi[p] : p \in Pids})
      <4>1. lost \subseteq Numbers /\ \A p \in Pids : wasi[p] \subseteq Numbers
        BY DEF Inv, FilesTypeOK
      <4>2. CASE k \in lost'
        BY <1>2, <4>1, <4>2
      <4>3. CASE \E p \in Pids : k \in wasi'[p]
        <5>1. PICK p \in Pids : k \in wasi'[p]
          BY <4>3
        <5>2. k = n \/ k \in wasi[p]
          BY <1>2, <5>1
        <5> QED
          BY <4>1, <5>2
      <4> QED
        BY <4>2, <4>3
    <3>2. \A k \in lost \cup UNION {wasi[p] : p \in Pids} : Active(k)
      BY DEF Inv, OneHolder
    <3> QED
      BY <3>1, <3>2, <2>2, <2>3
  <2>5. \A d \in Live : vfs'[d] \in Numbers => openFiles'[vfs'[d]] # Closed
    <3> SUFFICES ASSUME NEW d \in Live, vfs[d] \in Numbers
                 PROVE  openFiles'[vfs[d]] # Closed
      BY <1>1
    <3>1. openFiles[vfs[d]] # Closed
      BY DEF Inv, OneHolder, Active
    <3> QED
      BY <1>3, <3>1, OpenedIs
  <2>6. /\ \A d \in Live : vfs'[d] \notin lost'
        /\ \A d \in Live, p \in Pids : vfs'[d] \notin wasi'[p]
        /\ \A p \in Pids : wasi'[p] \cap lost' = {}
    BY <1>1, <1>2, <2>1 DEF Inv, OneHolder
  <2>7. \A p, q \in Pids : p # q => wasi'[p] \cap wasi'[q] = {}
    <3>1. CASE wasi' = wasi
      BY <3>1 DEF Inv, OneHolder
    <3>2. CASE \A p \in Pids : wasi'[p] = IF p = pid THEN wasi[p] \cup {n} ELSE wasi[p]
      BY <2>1, <3>2 DEF Inv, OneHolder
    <3> QED
      BY <1>2, <3>1, <3>2
  <2> QED
    BY <1>1, <2>4, <2>5, <2>6, <2>7 DEF Inv, OneHolder, Active, Live
<1>6. OnlyKnownLeaks'
  BY <1>1, <1>2, <1>3 DEF Inv, OnlyKnownLeaks, Active, Live
<1> QED
  BY <1>4, <1>5, <1>6 DEF Inv

(* What a close by number is: of a number the process has, or under the    *)
(* one that has it.                                                        *)
ClosedByNumber(pid, n) ==
  /\ n \in wasi[pid]
  /\ wasi' = [wasi EXCEPT ![pid] = @ \ {n}]
  /\ IF n \in Standard
     THEN lost' = lost \cup {n} /\ UNCHANGED openFiles
     ELSE openFiles' = [openFiles EXCEPT ![n] = Closed] /\ UNCHANGED lost
  /\ UNCHANGED <<vfs, stale>>

LEMMA WasiCloseIs ==
  ASSUME Inv, NEW pid \in Pids, NEW n \in Numbers, WasiFdClose(pid, n)
  PROVE  ClosedByNumber(pid, n) \/ Under(n, {})
<1>1. CASE /\ n \notin wasi[pid] \cup Standard
           /\ ClosedUnder(n)
           /\ stale' = stale \cup Users(n)
           /\ UNCHANGED vfs
  BY <1>1 DEF Under, Inv, FilesTypeOK
<1>2. CASE ClosedByNumber(pid, n)
  BY <1>2
<1> QED
  BY <1>1, <1>2 DEF WasiFdClose, ClosedByNumber

LEMMA WasiCloseInv ==
  ASSUME Inv, NEW pid \in Pids, NEW n \in Numbers, ClosedByNumber(pid, n)
  PROVE  Inv'
<1>1. /\ n \in wasi[pid]
      /\ openFiles' \in [Numbers -> {Closed} \cup [file : Files, position : Nat]]
      /\ \A k \in Numbers : openFiles'[k] = IF k = n /\ n \notin Standard THEN Closed
                                            ELSE openFiles[k]
      /\ lost' = IF n \in Standard THEN lost \cup {n} ELSE lost
      /\ UNCHANGED <<vfs, stale>>
  BY DEF ClosedByNumber, Inv, FilesTypeOK
<1>2. /\ wasi' \in [Pids -> SUBSET Numbers]
      /\ \A p \in Pids : wasi'[p] = IF p = pid THEN wasi[p] \ {n} ELSE wasi[p]
  BY DEF ClosedByNumber, Inv, FilesTypeOK
<1>3. FilesTypeOK'
  BY <1>1, <1>2 DEF Inv, FilesTypeOK, Active
<1>4. OneHolder'
  <2>1. /\ n \notin lost /\ Active(n)
        /\ \A d \in Live : vfs[d] # n
        /\ \A p \in Pids : n \notin wasi'[p]
    BY <1>1, <1>2 DEF Inv, OneHolder
  <2>2. \A k \in Numbers : (k # n \/ n \in Standard) /\ Active(k) => Active(k)'
    BY <1>1 DEF Active
  <2>3. \A k \in lost' \cup UNION {wasi'[p] : p \in Pids} : Active(k)'
    <3>1. \A k \in lost' : Active(k)'
      BY <1>1, <2>1, <2>2 DEF Inv, FilesTypeOK, OneHolder
    <3>2. \A p \in Pids : \A k \in wasi'[p] : k # n /\ k \in wasi[p] /\ k \in Numbers
      BY <1>2, <2>1 DEF Inv, FilesTypeOK
    <3>3. \A p \in Pids : \A k \in wasi'[p] : Active(k)'
      BY <2>2, <3>2 DEF Inv, OneHolder
    <3> QED
      BY <3>1, <3>3
  <2>4. \A d \in Live : vfs[d] \in Numbers => openFiles'[vfs[d]] # Closed
    BY <2>1, <2>2 DEF Inv, OneHolder, Active
  <2> QED
    BY <1>1, <1>2, <2>1, <2>3, <2>4 DEF Inv, OneHolder, Live, Active
<1>5. OnlyKnownLeaks'
  BY <1>1, <1>2 DEF Inv, OnlyKnownLeaks, Active, Live
<1> QED
  BY <1>3, <1>4, <1>5 DEF Inv

LEMMA NextInv == Inv /\ [FilesNext]_fileVars => Inv'
<1> SUFFICES ASSUME Inv, [FilesNext]_fileVars PROVE Inv'
  OBVIOUS
<1>1. CASE UNCHANGED fileVars
  BY <1>1 DEF fileVars, Inv, FilesTypeOK, OneHolder, OnlyKnownLeaks, Active, Live
<1>2. ASSUME NEW pid \in Pids, NEW n \in Numbers, WasiFdClose(pid, n) PROVE Inv'
  BY <1>2, WasiCloseIs, WasiCloseInv, UnderInv
<1>3. CASE FilesNext
  BY <1>2, <1>3, OpenInv, PipeInv, ReadInv, CloseInv, ExitInv, WasiOpenInv DEF FilesNext
<1> QED
  BY <1>1, <1>3

LEMMA SpecInv == FilesSpec => []Inv
BY InitInv, NextInv, PTL DEF FilesSpec

(* Every descriptor stands for what can be opened, and no read goes beyond *)
(* the end of its file, whatever is opened, closed and read.               *)
THEOREM TypeCorrect == FilesSpec => []FilesTypeOK
BY SpecInv, PTL DEF Inv

(* However open files are given up and used again, nobody is given one     *)
(* that somebody holds; a stale descriptor, whose open file was closed     *)
(* under it, holds none.                                                   *)
THEOREM EveryFileHasOneHolder == FilesSpec => []OneHolder
BY SpecInv, PTL DEF Inv

(* Open files are lost at exits, when a descriptor is closed as that of a  *)
(* pipe or a socket or, with three of the numbers, at all, and when a WASI *)
(* module is not told the number, but nowhere else.                        *)
THEOREM NoOtherLeaks == FilesSpec => []OnlyKnownLeaks
BY SpecInv, PTL DEF Inv
-----------------------------------------------------------------------------
(***************************************************************************)
(* Every step is one of the cursors, or none of them moves.                *)
(***************************************************************************)
LEMMA NothingIsClosed == Cursors!Nothing = Closed
BY DEF Cursors!Nothing, Cursors!At, Closed

(* A cursor stays if its descriptor does and, where that is not stale, the *)
(* open file behind it.                                                    *)
LEMMA SameCursor ==
  ASSUME FilesTypeOK, NEW e \in Descriptors, vfs'[e] = vfs[e],
         e \in stale' <=> e \in stale,
         e \in Live /\ vfs[e] \in Numbers => openFiles'[vfs[e]] = openFiles[vfs[e]]
  PROVE  Cursor(e)' = Cursor(e)
BY NumbersAre DEF FilesTypeOK, Cursor, Live

LEMMA CursorIs ==
  ASSUME Inv, NEW e \in Descriptors
  PROVE  /\ e \in stale \/ vfs[e] = Free => Cursor(e) = Closed
         /\ vfs[e] = PipeFd => Cursor(e) = [file |-> PipeEnd, position |-> 0]
         /\ e \in Live /\ vfs[e] \in Numbers => /\ Cursor(e) = openFiles[vfs[e]]
                                             /\ Cursor(e) # Closed
BY NumbersAre DEF Inv, FilesTypeOK, OneHolder, Active, Cursor, Live

LEMMA OpenMaps ==
  ASSUME Inv, NEW pid \in Pids, NEW f \in Files, HostOpen(pid, f)
  PROVE  Cursors!Next
<1>1. PICK fd \in Fds, n \in Numbers :
        /\ vfs[<<pid, fd>>] = Free
        /\ ~Active(n)
        /\ vfs' = [vfs EXCEPT ![<<pid, fd>>] = n]
        /\ openFiles' = [openFiles EXCEPT ![n] = [file |-> f, position |-> 0]]
        /\ UNCHANGED stale
  BY DEF HostOpen, FirstFd, FirstNumber
<1> DEFINE d == <<pid, fd>>
<1>2. d \in Descriptors
  BY DEF Descriptors
<1> HIDE DEF d
<1>3. Cursor(d) = Closed /\ Cursor(d)' = [file |-> f, position |-> 0]
  BY <1>1, <1>2, NumbersAre DEF Inv, FilesTypeOK, Cursor, d
<1>4. ASSUME NEW e \in Descriptors, e # d PROVE Cursor(e)' = Cursor(e)
  <2>1. vfs'[e] = vfs[e]
    BY <1>1, <1>4 DEF Inv, FilesTypeOK, d
  <2>2. e \in Live /\ vfs[e] \in Numbers => vfs[e] # n
    BY <1>1 DEF Inv, OneHolder
  <2>3. e \in Live /\ vfs[e] \in Numbers => openFiles'[vfs[e]] = openFiles[vfs[e]]
    BY <1>1, <2>2 DEF Inv, FilesTypeOK
  <2> QED
    BY <1>1, <2>1, <2>3, SameCursor DEF Inv
<1>5. Cursors!Open(d, f)
  BY <1>2, <1>3, <1>4, NothingIsClosed DEF Cursors!Open, Cursors!At, Descriptors
<1> QED
  BY <1>2, <1>5 DEF Cursors!Next, Descriptors

LEMMA PipeMaps ==
  ASSUME Inv, NEW pid \in Pids, NEW write \in BOOLEAN, HostOpenPipe(pid, write)
  PROVE  Cursors!Next
<1>1. PICK fd \in Fds :
        /\ FirstFd(pid, fd)
        /\ vfs' = [d \in Descriptors |->
                     IF \/ d = <<pid, fd>>
                        \/ /\ write
                           /\ d[1] = pid /\ d[2] > fd /\ vfs[d] = Free
                           /\ \A g \in fd + 1 .. d[2] - 1 : vfs[<<pid, g>>] # Free
                     THEN PipeFd ELSE vfs[d]]
        /\ UNCHANGED <<openFiles, stale>>
  BY DEF HostOpenPipe
<1> DEFINE Second(g) == /\ write /\ g > fd /\ vfs[<<pid, g>>] = Free
                        /\ \A h \in fd + 1 .. g - 1 : vfs[<<pid, h>>] # Free
<1>2. PICK fd2 \in Fds : \A g \in Fds : Second(g) \/ g = fd <=> g = fd2 \/ g = fd
  <2>1. \A g, h \in Fds : Second(g) /\ Second(h) => g = h
    <3> SUFFICES ASSUME NEW g \in Fds, NEW h \in Fds, Second(g), Second(h), g < h
                 PROVE  FALSE
      BY DEF Fds
    <3>1. g \in fd + 1 .. h - 1
      BY DEF Fds
    <3> QED
      BY <3>1
  <2>2. CASE \E g \in Fds : Second(g)
    BY <2>1, <2>2
  <2>3. CASE ~ \E g \in Fds : Second(g)
    BY <2>3
  <2> QED
    BY <2>2, <2>3
<1> DEFINE ds == {<<pid, fd>>, <<pid, fd2>>}
<1>3. ASSUME NEW d \in Descriptors PROVE vfs'[d] = IF d \in ds THEN PipeFd ELSE vfs[d]
  <2>1. d = <<d[1], d[2]>> /\ d[1] \in Pids /\ d[2] \in Fds
    BY DEF Descriptors
  <2>2. d \in ds <=> d[1] = pid /\ (d[2] = fd \/ Second(d[2]))
    BY <1>2, <2>1
  <2> QED
    BY <1>1, <2>1, <2>2
<1>4. \A d \in ds : d \in Descriptors /\ vfs[d] = Free
  <2>1. vfs[<<pid, fd>>] = Free
    BY <1>1 DEF FirstFd
  <2>2. vfs[<<pid, fd2>>] = Free
    BY <1>2, <2>1
  <2> QED
    BY <2>1, <2>2 DEF Descriptors
<1> HIDE DEF ds
<1>5. \A d \in ds : Cursor(d) = Closed
  BY <1>4 DEF Cursor
<1>6. ASSUME NEW d \in Descriptors
      PROVE  Cursor(d)' = IF d \in ds THEN [file |-> PipeEnd, position |-> 0]
                          ELSE Cursor(d)
  <2>1. CASE d \in ds
    <3>1. d \notin stale /\ vfs'[d] = PipeFd
      BY <1>3, <1>4, <2>1, NumbersAre DEF Inv, FilesTypeOK
    <3>2. stale' = stale
      BY <1>1
    <3> QED
      BY <2>1, <3>1, <3>2, NumbersAre DEF Cursor
  <2>2. CASE d \notin ds
    BY <1>1, <1>3, <2>2, SameCursor DEF Inv
  <2> QED
    BY <2>1, <2>2
<1>7. Cursors!OpenPipe(ds)
  BY <1>4, <1>5, <1>6, NothingIsClosed DEF Cursors!OpenPipe, Cursors!At, Descriptors
<1> QED
  BY <1>7 DEF Cursors!Next, ds

LEMMA ReadMaps ==
  ASSUME Inv, NEW d \in Descriptors, NEW len \in Lengths, HostRead(d, len)
  PROVE  Cursors!Next \/ \A e \in Descriptors : Cursor(e)' = Cursor(e)
<1>1. PICK n \in Numbers :
        /\ Active(n)
        /\ openFiles' = [openFiles EXCEPT ![n].position = Advance(n, len)]
        /\ UNCHANGED <<vfs, stale>>
  BY DEF HostRead
<1>2. /\ \A k \in Numbers : k # n => openFiles'[k] = openFiles[k]
      /\ openFiles'[n] = [file |-> openFiles[n].file, position |-> Advance(n, len)]
  <2>1. openFiles[n] \in [file : Files, position : Nat]
    BY <1>1 DEF Inv, FilesTypeOK, Active
  <2> QED
    BY <1>1, <2>1 DEF Inv, FilesTypeOK
<1>3. ASSUME NEW e \in Descriptors, e \in stale \/ vfs[e] # n
      PROVE  Cursor(e)' = Cursor(e)
  BY <1>1, <1>2, <1>3, SameCursor DEF Inv, Live
<1>4. CASE \E e \in Live : vfs[e] = n
  <2>1. PICK e \in Live : vfs[e] = n
    BY <1>4
  <2>2. \A g \in Descriptors : g # e => g \in stale \/ vfs[g] # n
    BY <2>1 DEF Inv, OneHolder, Live
  <2>3. Cursor(e) = openFiles[n] /\ Cursor(e)' = openFiles'[n]
    BY <1>1, <2>1, NumbersAre DEF Cursor, Live
  <2>4. openFiles[n].file \in Files
    BY <1>1, AdvanceIs DEF Inv
  <2>5. \A g \in Descriptors : g # e => Cursor(g)' = Cursor(g)
    BY <1>3, <2>2
  <2>6. Cursor(e)' = Cursors!At(Cursor(e).file,
                               Cursors!Smaller(Cursor(e).position + len,
                                               Size[Cursor(e).file]))
    BY <1>2, <2>3 DEF Cursors!At, Cursors!Smaller, Advance, Smaller
  <2>7. Cursors!Read(e, len)
    BY <2>3, <2>4, <2>5, <2>6 DEF Cursors!Read, Descriptors, Live
  <2> QED
    BY <2>7 DEF Cursors!Next, Descriptors, Live
<1> QED
  BY <1>3, <1>4 DEF Live

LEMMA CloseOne ==
  ASSUME NEW d \in Descriptors, Cursor(d) # Closed, Cursor(d)' = Closed,
         \A e \in Descriptors : e # d => Cursor(e)' = Cursor(e)
  PROVE  Cursors!Next
<1>1. Cursors!Close(d)
  BY NothingIsClosed DEF Cursors!Close, Descriptors
<1> QED
  BY <1>1 DEF Cursors!Next, Descriptors

Moves == Cursors!Next \/ \A e \in Descriptors : Cursor(e)' = Cursor(e)

(* A descriptor that is freed is a cursor that is closed, if it was not    *)
(* stale, in which case it was closed before.                              *)
LEMMA FreedMaps ==
  ASSUME Inv, NEW d \in Descriptors, vfs[d] # Free,
         FreedOnly(d) \/ (d \in Live /\ vfs[d] \in Numbers /\ ClosedOwn(d))
  PROVE  Moves
<1>1. /\ vfs' = [vfs EXCEPT ![d] = Free]
      /\ \A e \in Descriptors : e # d => (e \in stale' <=> e \in stale)
      /\ \/ UNCHANGED openFiles
         \/ d \in Live /\ vfs[d] \in Numbers /\ openFiles' = [openFiles EXCEPT ![vfs[d]] = Closed]
  BY DEF FreedOnly, ClosedOwn
<1>2. Cursor(d)' = Closed
  BY <1>1 DEF Inv, FilesTypeOK, Cursor
<1>3. ASSUME NEW e \in Descriptors, e # d PROVE Cursor(e)' = Cursor(e)
  <2>1. vfs'[e] = vfs[e]
    BY <1>1, <1>3 DEF Inv, FilesTypeOK
  <2>2. e \in Live /\ vfs[e] \in Numbers /\ d \in Live => vfs[e] # vfs[d]
    BY <1>3 DEF Inv, OneHolder
  <2>3. e \in Live /\ vfs[e] \in Numbers => openFiles'[vfs[e]] = openFiles[vfs[e]]
    BY <1>1, <2>2 DEF Inv, FilesTypeOK
  <2> QED
    BY <1>1, <1>3, <2>1, <2>3, SameCursor DEF Inv
<1>4. CASE d \in stale
  BY <1>2, <1>3, <1>4, CursorIs DEF Moves
<1>5. CASE d \in Live
  <2>1. Cursor(d) # Closed
    BY <1>5, CursorIs, NumbersAre, FilesAssumption DEF Inv, FilesTypeOK, Closed
  <2> QED
    BY <1>2, <1>3, <2>1, CloseOne DEF Moves
<1> QED
  BY <1>4, <1>5 DEF Live

(* So is the one an open file is closed under.                             *)
LEMMA UnderMaps ==
  ASSUME Inv, NEW n \in Numbers, NEW freed, Under(n, freed),
         freed = {} \/ freed \subseteq stale
  PROVE  Moves
<1>1. /\ \A e \in Descriptors : vfs'[e] = IF e \in freed THEN Free ELSE vfs[e]
      /\ freed \subseteq Users(n) /\ freed \subseteq stale
      /\ stale' = (stale \cup Users(n)) \ freed
      /\ \A k \in Numbers : k # n => openFiles'[k] = openFiles[k]
  BY DEF Under, ClosedUnder, Inv, FilesTypeOK
<1>2. ASSUME NEW e \in Users(n) PROVE Cursor(e)' = Closed
  BY <1>1, <1>2 DEF Cursor, Users
<1>3. ASSUME NEW e \in Descriptors, e \notin Users(n) PROVE Cursor(e)' = Cursor(e)
  <2>1. vfs'[e] = vfs[e] /\ (e \in stale' <=> e \in stale) /\ vfs[e] # n
    BY <1>1, <1>3 DEF Users
  <2> QED
    BY <1>1, <2>1, SameCursor DEF Inv
<1>4. CASE \E d \in Live : vfs[d] = n
  <2>1. PICK d \in Live : vfs[d] = n
    BY <1>4
  <2>2. d \in Users(n) /\ Cursor(d) # Closed
    BY <2>1, CursorIs DEF Users, Live
  <2>3. ASSUME NEW e \in Descriptors, e # d PROVE Cursor(e)' = Cursor(e)
    <3>1. CASE e \in Users(n)
      <4>1. e \in stale
        BY <2>1, <2>3, <3>1 DEF Users, Live, Inv, OneHolder
      <4> QED
        BY <1>2, <3>1, <4>1, CursorIs
    <3> QED
      BY <1>3, <3>1
  <2> QED
    BY <1>2, <2>2, <2>3, CloseOne DEF Moves, Live
<1>5. CASE ~ \E d \in Live : vfs[d] = n
  <2>1. ASSUME NEW e \in Users(n) PROVE Cursor(e)' = Cursor(e)
    BY <1>2, <1>5, CursorIs DEF Users, Live
  <2> QED
    BY <1>3, <2>1 DEF Moves
<1> QED
  BY <1>4, <1>5

LEMMA CloseMaps ==
  ASSUME Inv, NEW d \in Descriptors, HostClose(d) \/ HostPipeClose(d)
  PROVE  Moves
<1>1. CASE vfs[d] \in Numbers /\ d \in stale /\ Under(vfs[d], {d})
  BY <1>1, UnderMaps
<1> QED
  BY <1>1, CloseIs, FreedMaps

LEMMA ExitMaps ==
  ASSUME Inv, NEW pid \in Pids, HostExit(pid)
  PROVE  Cursors!Next
<1>1. ASSUME NEW d \in Descriptors
      PROVE  Cursor(d)' = IF d[1] = pid THEN Closed ELSE Cursor(d)
  <2>1. d \in {pid} \X Fds <=> d[1] = pid
    BY DEF Descriptors
  <2>2. CASE d[1] = pid
    BY <2>1, <2>2 DEF HostExit, Cursor
  <2>3. CASE d[1] # pid
    <3>1. vfs'[d] = vfs[d] /\ (d \in stale' <=> d \in stale) /\ openFiles' = openFiles
      BY <2>1, <2>3 DEF HostExit
    <3> QED
      BY <2>3, <3>1, SameCursor DEF Inv
  <2> QED
    BY <2>2, <2>3
<1>2. Cursors!Exit(pid)
  BY <1>1, NothingIsClosed DEF Cursors!Exit, Descriptors
<1> QED
  BY <1>2 DEF Cursors!Next

(* What WASI modules open and close by number no descriptor stands for,    *)
(* unless it is closed under one.                                          *)
LEMMA WasiOpenMaps ==
  ASSUME Inv, NEW pid \in Pids, NEW f \in Files, WasiPathOpen(pid, f)
  PROVE  Moves
<1>1. PICK n \in Numbers : /\ UNCHANGED <<vfs, stale>>
                           /\ ~Active(n)
                           /\ \A k \in Numbers : k # n => openFiles'[k] = openFiles[k]
  BY DEF WasiPathOpen, FirstNumber, Inv, FilesTypeOK
<1>2. \A e \in Live : vfs[e] \in Numbers => vfs[e] # n
  BY <1>1 DEF Inv, OneHolder
<1> QED
  BY <1>1, <1>2, SameCursor DEF Inv, Moves

LEMMA WasiCloseMaps ==
  ASSUME Inv, NEW pid \in Pids, NEW n \in Numbers, WasiFdClose(pid, n)
  PROVE  Moves
<1>1. CASE ClosedByNumber(pid, n)
  <2>1. /\ UNCHANGED <<vfs, stale>>
        /\ n \in wasi[pid]
        /\ \A k \in Numbers : k # n => openFiles'[k] = openFiles[k]
    BY <1>1 DEF ClosedByNumber, Inv, FilesTypeOK
  <2>2. \A e \in Live : vfs[e] # n
    BY <2>1 DEF Inv, OneHolder
  <2> QED
    BY <2>1, <2>2, SameCursor DEF Inv, Moves
<1> QED
  BY <1>1, WasiCloseIs, UnderMaps

(* The cursors that modules see through their descriptors are independent, *)
(* whatever the table of open files behind them goes through.              *)
THEOREM DescriptorsAreCursors == FilesSpec => ImplementsCursors
<1> DEFINE cursor == [d \in Descriptors |-> Cursor(d)]
<1>1. FilesInit => Cursors!Init
  BY NothingIsClosed DEF FilesInit, Cursors!Init, Cursor, Descriptors
<1>2. Inv /\ [FilesNext]_fileVars => [Cursors!Next]_cursor
  <2> SUFFICES ASSUME Inv, [FilesNext]_fileVars
               PROVE  Cursors!Next \/ \A e \in Descriptors : Cursor(e)' = Cursor(e)
    OBVIOUS
  <2>1. CASE UNCHANGED fileVars
    BY <2>1 DEF fileVars, Cursor
  <2>2. CASE FilesNext
    BY <2>2, OpenMaps, PipeMaps, ReadMaps, CloseMaps, ExitMaps, WasiOpenMaps, WasiCloseMaps
       DEF FilesNext, Moves
  <2> QED
    BY <2>1, <2>2
<1> QED
  BY <1>1, <1>2, SpecInv, PTL DEF FilesSpec, ImplementsCursors, Cursors!Spec
=============================================================================
