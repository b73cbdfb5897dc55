----------------------------- MODULE TextFilters ----------------------------
(***************************************************************************)
(* Text filters among the user modules: head, wc, fold, rev, tac and uniq  *)
(* (modules/<name>/src/main.c).  Each reads standard input byte by byte    *)
(* with host_getc until that answers -1, prints with host_print and exits. *)
(*                                                                         *)
(* A module has two pages of memory.  Its heap begins with the second, is  *)
(* handed out by a function alloc that only ever counts up, and is never   *)
(* given back; a write behind the second page traps.  Addresses count from *)
(* the start of the heap.  host_getc and host_yield are taken to return    *)
(* (see Preemption for when they do), and 0, "nothing yet", changes        *)
(* nothing.                                                                *)
(***************************************************************************)
EXTENDS Naturals, SequencesExt

CONSTANTS
  Bytes,        \* what may be read; 0 never is
  MaxInput,     \* bound of the model: bytes read
  MemSize,      \* program -> bytes of heap, 65536 for all in the build
  ALIGN,        \* alloc rounds heap_pos up to a multiple of it
  MAX_ARGV,     \* buffer for the command line
  Counts,       \* head: values of -n
  HEAD_BUF,     \* head: MAX_BUF
  Widths,       \* fold: values of -w; the buffer fits the memory
  REV_LINE,     \* rev: MAX_LINE
  TAC_LINES,    \* tac: MAX_LINES
  TAC_LEN,      \* tac: MAX_LINE_LEN
  UNIQ_LINE     \* uniq: MAX_LINE

Programs == {"head", "wc", "fold", "rev", "tac", "uniq"}

NL     == "\n"
Blanks == {" ", "\t", "\r", NL}

ASSUME FilterAssumption ==
  /\ NL \in Bytes
  /\ {MaxInput, MAX_ARGV, HEAD_BUF} \subseteq Nat
  /\ {ALIGN, REV_LINE, TAC_LINES, TAC_LEN, UNIQ_LINE} \subseteq Nat \ {0}
  /\ MemSize \in [Programs -> Nat]
  /\ Counts \subseteq Nat
  /\ \A w \in Widths : w \in Nat \ {0} /\ MAX_ARGV + w <= MemSize["fold"]

VARIABLES
  prog,     \* the program
  st,       \* its variables
  status,   \* "reading", then tac's "printing", "done" or "trapped"
  read,     \* history: what host_getc has answered
  out       \* what host_print was given

filterVars == <<prog, st, status, read, out>>

Getc(c) == /\ status = "reading"
           /\ Len(read) < MaxInput
           /\ read' = Append(read, c)
Eof     == /\ status = "reading"
           /\ UNCHANGED read

Alloc(heap, n) == ((heap + n + ALIGN - 1) \div ALIGN) * ALIGN
ArgvEnd        == Alloc(0, MAX_ARGV)
Room(n)        == st.heap + n <= MemSize[prog]

Trap     == status' = "trapped" /\ UNCHANGED <<st, out>>
Prints(s) == out' = out \o s
GoOn     == UNCHANGED <<out, status>>

(* Prints text, then a newline out of a byte that is allocated for it.     *)
PrintLine(text, next, then) ==
  /\ st' = [next EXCEPT !.heap = Alloc(@, 1)]
  /\ IF Room(1) THEN Prints(Append(text, NL)) /\ status' = then
                ELSE Prints(text) /\ status' = "trapped"

-----------------------------------------------------------------------------
(* head -n N.  print_buf prints a copy, for which it allocates.            *)
HeadInit(n) == /\ prog = "head"
               /\ st = [heap |-> Alloc(ArgvEnd, HEAD_BUF), buf |-> <<>>,
                        lines |-> 0, max |-> n]

PrintBuf(buf, next, then) ==
  IF Room(Len(buf))
  THEN /\ Prints(buf)
       /\ st' = [next EXCEPT !.heap = Alloc(@, Len(buf))]
       /\ status' = then
  ELSE Trap

(* Wrong on purpose: the line that is full is printed with the next one.   *)
HeadKeepsLast(c) == IF Len(st.buf) < HEAD_BUF - 1 THEN Append(st.buf, c) ELSE st.buf

HeadKeeps(c) == IF Len(st.buf) < HEAD_BUF THEN Append(st.buf, c) ELSE st.buf

HeadByte(c) == /\ c # NL
               /\ st' = [st EXCEPT !.buf = HeadKeeps(c)]
               /\ GoOn

HeadLine(c) ==
  LET next == [st EXCEPT !.buf = <<>>, !.lines = @ + 1]
      then == IF next.lines >= st.max THEN "done" ELSE "reading"
  IN  /\ c = NL
      /\ IF st.lines < st.max THEN PrintBuf(HeadKeeps(c), next, then)
         ELSE st' = next /\ status' = then /\ UNCHANGED out

HeadEof == IF st.buf # <<>> /\ st.lines < st.max THEN PrintBuf(st.buf, st, "done")
           ELSE status' = "done" /\ UNCHANGED <<st, out>>

HeadNext == /\ prog = "head"
            /\ \/ \E c \in Bytes : Getc(c) /\ (HeadByte(c) \/ HeadLine(c))
               \/ Eof /\ HeadEof

-----------------------------------------------------------------------------
(* wc -l -w -c; without a flag it shows all three.                         *)
WcShows == SUBSET {"l", "w", "c"} \ {{}}

WcInit(show) == /\ prog = "wc"
                /\ st = [lines |-> 0, words |-> 0, bytes |-> 0,
                         inWord |-> FALSE, show |-> show]

(* Wrong on purpose: only a space ends a word.                             *)
WcCountSpace(c) ==
  [st EXCEPT !.bytes = @ + 1, !.lines = IF c = NL THEN @ + 1 ELSE @,
             !.words = IF c # " " /\ ~st.inWord THEN @ + 1 ELSE @,
             !.inWord = c # " "]

WcCount(c) ==
  [st EXCEPT !.bytes = @ + 1,
             !.lines = IF c = NL THEN @ + 1 ELSE @,
             !.words = IF c \notin Blanks /\ ~st.inWord THEN @ + 1 ELSE @,
             !.inWord = c \notin Blanks]

WcShown(lines, words, bytes) ==
  LET Shown(flag, n) == IF flag \in st.show THEN << <<flag, n>> >> ELSE <<>>
  IN  Shown("l", lines) \o Shown("w", words) \o Shown("c", bytes)

WcNext == /\ prog = "wc"
          /\ \/ \E c \in Bytes : Getc(c) /\ st' = WcCount(c) /\ GoOn
             \/ Eof /\ Prints(WcShown(st.lines, st.words, st.bytes))
                /\ status' = "done" /\ UNCHANGED st

-----------------------------------------------------------------------------
(* fold -w W.                                                              *)
FoldInit(w) == /\ prog = "fold"
               /\ st = [heap |-> Alloc(ArgvEnd, w), buf |-> <<>>, width |-> w]

(* Wrong on purpose: the line is broken one character late.                *)
FoldLateFull == Len(st.buf) >= st.width

FoldFull == Len(st.buf) + 1 >= st.width

FoldByte(c) == /\ c # NL
               /\ ~FoldFull
               /\ st' = [st EXCEPT !.buf = Append(@, c)]
               /\ GoOn
FoldBreak(c) == /\ c # NL
                /\ FoldFull
                /\ PrintLine(Append(st.buf, c), [st EXCEPT !.buf = <<>>], "reading")
FoldLine(c) == /\ c = NL
               /\ PrintLine(st.buf, [st EXCEPT !.buf = <<>>], "reading")
FoldEof == Prints(st.buf) /\ status' = "done" /\ UNCHANGED st

FoldNext == /\ prog = "fold"
            /\ \/ \E c \in Bytes : Getc(c) /\ (FoldByte(c) \/ FoldBreak(c) \/ FoldLine(c))
               \/ Eof /\ FoldEof

-----------------------------------------------------------------------------
(* rev.  The last index of an empty line is 0 - 1, that is 2^32 - 1, and   *)
(* the loop that swaps the ends towards each other leaves the memory.      *)
RevInit == /\ prog = "rev"
           /\ st = [heap |-> Alloc(0, REV_LINE), buf |-> <<>>]

RevByte(c) == /\ c # NL
              /\ st' = [st EXCEPT !.buf = IF Len(@) < REV_LINE - 1 THEN Append(@, c) ELSE @]
              /\ GoOn

(* Wrong on purpose: the length is kept for the next line.                 *)
RevLineKept(c) ==
  /\ c = NL
  /\ IF st.buf = <<>> THEN Trap ELSE PrintLine(Reverse(st.buf), st, "reading")

RevLine(c) ==
  /\ c = NL
  /\ IF st.buf = <<>> THEN Trap
     ELSE PrintLine(Reverse(st.buf), [st EXCEPT !.buf = <<>>], "reading")
RevEof == IF st.buf = <<>> THEN status' = "done" /\ UNCHANGED <<st, out>>
           ELSE PrintLine(Reverse(st.buf), st, "done")

RevNext == /\ prog = "rev"
           /\ \/ \E c \in Bytes : Getc(c) /\ (RevByte(c) \/ RevLine(c))
              \/ Eof /\ RevEof
-----------------------------------------------------------------------------
(* tac.  The text of all lines lies end to end in one buffer; in the build *)
(* the buffer is the whole heap.                                           *)
TacInit == /\ prog = "tac"
           /\ st = [heap |-> Alloc(0, TAC_LINES * TAC_LEN), lines |-> <<>>,
                    buf |-> [a \in 0 .. MemSize["tac"] - 1 |-> NL],
                    pos |-> 0, cur |-> 0]

TacByte(c) ==
  /\ c # NL
  /\ IF st.cur >= TAC_LEN - 1 THEN GoOn /\ UNCHANGED st
     ELSE IF st.pos + st.cur >= MemSize[prog] THEN Trap
     ELSE st' = [st EXCEPT !.buf[st.pos + st.cur] = c, !.cur = @ + 1] /\ GoOn

TacLines == IF Len(st.lines) < TAC_LINES
            THEN Append(st.lines, [off |-> st.pos, len |-> st.cur]) ELSE st.lines

(* Wrong on purpose: the next line starts where this one did.              *)
TacLineSamePlace(c) ==
  c = NL /\ st' = [st EXCEPT !.lines = TacLines, !.cur = 0] /\ GoOn

TacLine(c) ==
  /\ c = NL
  /\ st' = [st EXCEPT !.lines = TacLines, !.pos = @ + st.cur, !.cur = 0]
  /\ GoOn

(* The end of the input ends a line that has begun.                        *)
TacEof == /\ st' = [st EXCEPT !.lines = IF st.cur > 0 THEN TacLines ELSE @]
          /\ status' = "printing"
          /\ UNCHANGED out

(* One turn of the loop that prints; the newline of each line is allocated,*)
(* and the first one that does not fit traps.                              *)
TacText(line) == [k \in 1 .. line.len |-> st.buf[line.off + k - 1]]
TacPrint == /\ st.lines # <<>>
            /\ PrintLine(TacText(Last(st.lines)), [st EXCEPT !.lines = Front(@)],
                         "printing")
TacExit  == /\ st.lines = <<>>
            /\ status' = "done" /\ UNCHANGED <<st, out>>

TacNext == /\ prog = "tac"
           /\ \/ \E c \in Bytes : Getc(c) /\ (TacByte(c) \/ TacLine(c))
              \/ Eof /\ TacEof
              \/ status = "printing" /\ UNCHANGED read /\ (TacPrint \/ TacExit)

-----------------------------------------------------------------------------
(* uniq -c -d -u.                                                          *)
UniqInit(flags) ==
  /\ prog = "uniq"
  /\ st = [heap |-> Alloc(Alloc(ArgvEnd, UNIQ_LINE), UNIQ_LINE),
           prev |-> <<>>, curr |-> <<>>, count |-> 0, hasPrev |-> FALSE,
           flags |-> flags]

UniqByte(c) ==
  /\ c # NL
  /\ st' = [st EXCEPT !.curr = IF Len(@) < UNIQ_LINE - 1 THEN Append(@, c) ELSE @]
  /\ GoOn

(* The line before, if there is one and the flags ask for its group.       *)
PrintGroup(count, next, then) ==
  IF ~st.hasPrev \/ ("d" \in st.flags /\ count < 2) \/ ("u" \in st.flags /\ count # 1)
  THEN st' = next /\ status' = then /\ UNCHANGED out
  ELSE IF "c" \notin st.flags
  THEN st' = next /\ status' = then /\ Prints(st.prev)
  ELSE IF Room(1)
  THEN /\ st' = [next EXCEPT !.heap = Alloc(@, 1)]
       /\ status' = then
       /\ Prints(<<ToString(count)>> \o st.prev)
  ELSE Trap

UniqCurr == IF Len(st.curr) < UNIQ_LINE THEN Append(st.curr, NL) ELSE st.curr

(* curr_len is not reset: the next line goes behind this one.              *)
UniqRepeat(c) ==
  /\ c = NL
  /\ st.hasPrev /\ st.prev = UniqCurr
  /\ st' = [st EXCEPT !.count = @ + 1, !.curr = UniqCurr]
  /\ GoOn

(* Wrong on purpose: the group before is not printed.                      *)
UniqNewSilent(c) ==
  /\ c = NL
  /\ ~(st.hasPrev /\ st.prev = UniqCurr)
  /\ st' = [st EXCEPT !.prev = UniqCurr, !.curr = <<>>, !.count = 1, !.hasPrev = TRUE]
  /\ GoOn

UniqNew(c) ==
  /\ c = NL
  /\ ~(st.hasPrev /\ st.prev = UniqCurr)
  /\ PrintGroup(st.count, [st EXCEPT !.prev = UniqCurr, !.curr = <<>>,
                                     !.count = 1, !.hasPrev = TRUE], "reading")

UniqEof == PrintGroup(IF st.curr # <<>> THEN st.count + 1 ELSE st.count, st, "done")

UniqNext ==
  /\ prog = "uniq"
  /\ \/ \E c \in Bytes : Getc(c) /\ (UniqByte(c) \/ UniqRepeat(c) \/ UniqNew(c))
     \/ Eof /\ UniqEof

-----------------------------------------------------------------------------
FilterInit ==
  /\ status = "reading" /\ read = <<>> /\ out = <<>>
  /\ \/ \E n \in Counts : HeadInit(n)
     \/ \E show \in WcShows : WcInit(show)
     \/ \E w \in Widths : FoldInit(w)
     \/ RevInit \/ TacInit
     \/ \E flags \in SUBSET {"c", "d", "u"} : UniqInit(flags)

FilterNext == /\ HeadNext \/ WcNext \/ FoldNext \/ RevNext \/ TacNext \/ UniqNext
              /\ UNCHANGED prog

FilterSpec == FilterInit /\ [][FilterNext]_filterVars
-----------------------------------------------------------------------------
(* What the programs promise, said of the whole input by its positions.    *)
Newlines(s) == {i \in DOMAIN s : s[i] = NL}

(* Every line of s is shorter than n.                                      *)
LinesBelow(s, n) == \A i \in 0 .. Len(s) - n : \E k \in 1 .. n : s[i + k] = NL

(* A text ends a line, or is made to.                                      *)
EndsLine(s) == s = <<>> \/ s[Len(s)] = NL
Ended(s)    == IF EndsLine(s) THEN s ELSE Append(s, NL)

(* A line of s and its newline are at a .. e.                              *)
IsLine(s, a, e) == /\ a <= e /\ s[e] = NL
                   /\ \A k \in a .. e - 1 : s[k] # NL
                   /\ a > 1 => s[a - 1] = NL

(* What is left of s without the positions S.                              *)
IsWithout(t, s, S) ==
  /\ Len(t) = Len(s) - Cardinality(S)
  /\ \A i \in DOMAIN s \ S : t[i - Cardinality(S \cap (1 .. i))] = s[i]

(* head prints the beginning of its input, up to a number of newlines.     *)
HeadPromise ==
  prog = "head" /\ LinesBelow(read, HEAD_BUF) =>
    /\ IsPrefix(out, read)
    /\ Cardinality(Newlines(out)) <= st.max
    /\ Cardinality(Newlines(out)) = st.max => EndsLine(out)
    /\ status = "done" => out = read \/ Cardinality(Newlines(out)) = st.max

(* wc counts newlines, longest runs of characters between blanks, bytes.   *)
WordStarts(s) == {i \in DOMAIN s : s[i] \notin Blanks /\ (i > 1 => s[i - 1] \in Blanks)}

WcPromise ==
  prog = "wc" /\ status = "done" =>
    out = WcShown(Cardinality(Newlines(read)), Cardinality(WordStarts(read)), Len(read))

(* fold prints what it read in order and adds newlines, so that no line is *)
(* longer than the width.                                                  *)
FoldPromise ==
  prog = "fold" =>
    /\ LinesBelow(out, st.width + 1)
    /\ \E added \in SUBSET Newlines(out) :
         LET n == Len(out) - Cardinality(added)
         IN  /\ n <= Len(read)
             /\ IsWithout(SubSeq(read, 1, n), out, added)
             /\ status = "done" => n = Len(read)

(* rev prints each line backwards, in its place.                           *)
RevPromise ==
  prog = "rev" /\ LinesBelow(read, REV_LINE) =>
    LET text == Ended(read)
    IN  /\ Len(out) <= Len(text)
        /\ status = "done" => Len(out) = Len(text)
        /\ \A e \in Newlines(text), a \in 1 .. Len(text) : IsLine(text, a, e) =>
             /\ e \in DOMAIN out => out[e] = NL
             /\ \A i \in a .. e - 1 : a + e - 1 - i \in DOMAIN out =>
                                        out[a + e - 1 - i] = text[i]

(* tac prints the last line first: a line stands as far from the beginning *)
(* of what is printed as it ended before the end of what was read.         *)
TacFits == prog = "tac" /\ LinesBelow(read, TAC_LEN)
                        /\ Cardinality(Newlines(Ended(read))) <= TAC_LINES
TacPromise ==
  TacFits =>
    LET text == Ended(read)
    IN  /\ Len(out) <= Len(text)
        /\ status = "done" => Len(out) = Len(text)
        /\ \A e \in Newlines(text), a \in 1 .. Len(text) : IsLine(text, a, e) =>
             \A i \in a .. e : LET p == Len(text) - e + i - a + 1
                               IN  p \in DOMAIN out => out[p] = text[i]

(* uniq without flags prints what it read without some of the lines that   *)
(* repeat the one before, and without a last line that has no newline.     *)
(* Two lines must fit its buffer.                                          *)
RepeatsLine(s, a, e) == LET b == a - (e - a + 1)
                        IN  b >= 1 /\ IsLine(s, b, a - 1)
                                   /\ \A i \in a .. e : s[i - a + b] = s[i]
UniqPromise ==
  prog = "uniq" /\ st.flags = {} /\ status = "done" /\ LinesBelow(read, UNIQ_LINE \div 2) =>
    \E left \in SUBSET DOMAIN read :
      /\ IsWithout(out, read, left)
      /\ \A e \in Newlines(read), a \in 1 .. Len(read) : IsLine(read, a, e) =>
           \/ (a .. e) \cap left = {}
           \/ a .. e \subseteq left /\ RepeatsLine(read, a, e)

(* modules/uniq/src/main.c, line 6: uniq removes adjacent duplicate lines. *)
UniqRemovesRepeats ==
  prog = "uniq" /\ st.flags = {} /\ status = "done" =>
    \A e \in Newlines(out), a \in 1 .. Len(out) : IsLine(out, a, e) => ~RepeatsLine(out, a, e)

(* modules/tac/src/main.c, line 6: tac reads its input and prints the      *)
(* lines in reverse order.                                                 *)
TacReverses ==
  TacFits /\ status \notin {"reading", "printing"} => Len(out) = Len(Ended(read))
=============================================================================
