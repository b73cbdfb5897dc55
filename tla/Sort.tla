-------------------------------- MODULE Sort --------------------------------
(***************************************************************************)
(* The module sort (modules/sort/src/main.c): it reads lines from standard *)
(* input into one buffer, sorts the table of their offsets by insertion,   *)
(* and prints the lines in the order of the table.                         *)
(*                                                                         *)
(* A line is kept with its number in the input, which the code does not    *)
(* have: it tells lines of equal text apart.  compare_str and              *)
(* compare_numeric are given by the rank of a text in their order, and the *)
(* flag -n chooses between them.                                           *)
(***************************************************************************)
EXTENDS Integers, Sequences

CONSTANTS
  Whole,      \* lines as they may come, with their newline
  Unended,    \* what may stand before the end of the input without one
  Texts,      \* what may be kept of them: their prefixes
  Ranks,      \* the orders of texts, one for each value of -n
  BUF_SIZE,   \* bytes of the buffer
  MAX_LINES,  \* entries of the table
  MaxLines    \* bound of the model: lines of the input

ASSUME SortAssumption ==
  /\ Texts \subseteq Seq(Nat)
  /\ \A t \in Whole \cup Unended : t \in Seq(Nat) /\ \A n \in 0 .. Len(t) : SubSeq(t, 1, n) \in Texts
  /\ Ranks \subseteq [Texts -> Int]
  /\ {BUF_SIZE, MAX_LINES, MaxLines} \subseteq Nat

VARIABLES
  reverse,  \* the flag -r
  rank,     \* the order chosen
  phase,    \* "reading", "sorting" or "printed"
  input,    \* history: the lines read
  used,     \* buf_used
  lines,    \* line_off and line_len
  j, k,     \* the line that is being placed: where it stood, where it is
  printed   \* what host_print was given

sortVars == <<reverse, rank, phase, input, used, lines, j, k, printed>>

SortInit == /\ reverse \in BOOLEAN /\ rank \in Ranks
            /\ phase = "reading" /\ input = <<>> /\ used = 0
            /\ lines = <<>> /\ j = 2 /\ k = 2 /\ printed = <<>>

(* A byte that does not fit is not stored.                                 *)
Kept(t) == IF Len(t) <= BUF_SIZE - used THEN t ELSE SubSeq(t, 1, BUF_SIZE - used)

Record(t) == IF Len(lines) < MAX_LINES
             THEN Append(lines, [at |-> Len(input) + 1, text |-> Kept(t)]) ELSE lines

ReadLine(t) ==
  /\ phase = "reading"
  /\ Len(input) < MaxLines
  /\ input' = Append(input, t)
  /\ used' = used + Len(Kept(t))
  /\ lines' = Record(t)
  /\ UNCHANGED <<reverse, rank, phase, j, k, printed>>

(* Wrong on purpose: only a newline ends a line.                           *)
DropsUnended(t) ==
  /\ phase = "reading"
  /\ phase' = "sorting"
  /\ input' = IF t = <<>> THEN input ELSE Append(input, t)
  /\ used' = used + Len(Kept(t))
  /\ UNCHANGED <<reverse, rank, lines, j, k, printed>>

(* The end of the input, behind an unfinished line unless t is empty.      *)
EndOfInput(t) ==
  /\ phase = "reading"
  /\ phase' = "sorting"
  /\ input' = IF t = <<>> THEN input ELSE Append(input, t)
  /\ used' = used + Len(Kept(t))
  /\ lines' = IF Kept(t) = <<>> THEN lines ELSE Record(t)
  /\ UNCHANGED <<reverse, rank, j, k, printed>>

Rank(i) == rank[lines[i].text]

(* Wrong on purpose: a line passes the lines that are equal to it.         *)
OutOfOrderOrEqual == k > 1 /\ Rank(k - 1) >= Rank(k)

(* should_swap asks for the same with -r as without.                       *)
OutOfOrder == k > 1 /\ IF reverse THEN Rank(k - 1) > Rank(k)
                                  ELSE Rank(k - 1) > Rank(k)

Swap == /\ phase = "sorting" /\ j <= Len(lines)
        /\ OutOfOrder
        /\ lines' = [lines EXCEPT ![k - 1] = lines[k], ![k] = lines[k - 1]]
        /\ k' = k - 1
        /\ UNCHANGED <<reverse, rank, phase, input, used, j, printed>>

NextLine == /\ phase = "sorting" /\ j <= Len(lines)
            /\ ~OutOfOrder
            /\ j' = j + 1 /\ k' = j + 1
            /\ UNCHANGED <<reverse, rank, phase, input, used, lines, printed>>

PrintAll == /\ phase = "sorting" /\ j > Len(lines)
            /\ printed' = lines
            /\ phase' = "printed"
            /\ UNCHANGED <<reverse, rank, input, used, lines, j, k>>

SortNext == \/ \E t \in Whole : ReadLine(t)
            \/ \E t \in Unended : EndOfInput(t)
            \/ Swap \/ NextLine \/ PrintAll

SortSpec == SortInit /\ [][SortNext]_sortVars
-----------------------------------------------------------------------------
(* Without -r what is printed is in order, and lines of equal rank come in *)
(* the order of the input: the sort is stable (swap_lines only when        *)
(* cmp > 0).                                                               *)
Before(x, y) == \/ rank[x.text] < rank[y.text]
                \/ rank[x.text] = rank[y.text] /\ x.at < y.at

SortedStable ==
  ~reverse =>
    \A a, b \in 1 .. Len(printed) : a < b => Before(printed[a], printed[b])

(* main.c, line 7: "-r: reverse order".  With -r, no line is printed       *)
(* before one that is greater.                                             *)
SortReverses ==
  reverse =>
    \A a, b \in 1 .. Len(printed) :
      a < b => rank[printed[a].text] >= rank[printed[b].text]

(* Unless the buffer or the table was full, every line of the input is     *)
(* printed, and once; what is printed is in any case the beginning of a    *)
(* line of the input, no line twice.                                       *)
SortKeepsLines ==
  /\ \A a \in 1 .. Len(printed) :
       /\ printed[a].at \in 1 .. Len(input)
       /\ \A n \in 1 .. Len(printed[a].text) : printed[a].text[n] = input[printed[a].at][n]
       /\ \A b \in 1 .. Len(printed) : printed[a].at = printed[b].at => a = b
  /\ phase = "printed" /\ used < BUF_SIZE /\ Len(input) <= MAX_LINES =>
       \A i \in 1 .. Len(input) :
         \E a \in 1 .. Len(printed) : printed[a] = [at |-> i, text |-> input[i]]
=============================================================================
