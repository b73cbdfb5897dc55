----------------------------- MODULE SortProofs -----------------------------
(***************************************************************************)
(* Proofs about Sort, for every set of lines, order of texts, buffer size  *)
(* and table size.                                                         *)
(***************************************************************************)
EXTENDS Sort, TLAPS

Line == [at : Nat, text : Texts]

TypeOK ==
  /\ rank \in [Texts -> Int]
  /\ phase \in {"reading", "sorting", "printed"}
  /\ input \in Seq(Seq(Nat))
  /\ used \in 0 .. BUF_SIZE
  /\ lines \in Seq(Line)
  /\ j \in Nat /\ k \in Nat
  /\ printed \in Seq(Line)

(* Every entry of the table is the beginning of a line of the input, no    *)
(* two of the same; all are there unless a limit was met.                  *)
Begins(x, text) == /\ x.at \in 1 .. Len(text)
                   /\ Len(x.text) <= Len(text[x.at])
                   /\ \A n \in 1 .. Len(x.text) : x.text[n] = text[x.at][n]

Origin ==
  /\ Len(lines) <= Len(input)
  /\ \A a \in 1 .. Len(lines) : Begins(lines[a], input)
  /\ \A a, b \in 1 .. Len(lines) : lines[a].at = lines[b].at => a = b

AllThere ==
  used < BUF_SIZE /\ Len(input) <= MAX_LINES =>
    \A i \in 1 .. Len(input) :
      \E a \in 1 .. Len(lines) : lines[a] = [at |-> i, text |-> input[i]]

(* The insertion.  Up to j the lines are in order but for the one at k;    *)
(* those between k and j are greater than it; it came after all of them;   *)
(* what is behind j is as it was read.                                     *)
Placed == \A a, b \in 1 .. Len(lines) :
            a < b /\ b <= j /\ a # k /\ b # k => Before(lines[a], lines[b])
Passed == \A b \in 1 .. Len(lines) : k < b /\ b <= j => Rank(k) < Rank(b)
Behind == \A a, b \in 1 .. Len(lines) :
            a < b /\ j < b => lines[a].at < lines[b].at
Newest == \A a \in 1 .. Len(lines) :
            a <= j /\ a # k /\ k <= Len(lines) => lines[a].at < lines[k].at
Places == /\ 1 <= k /\ k <= j /\ 2 <= j
          /\ j > Len(lines) => k = j
          /\ phase = "reading" => j = 2 /\ k = 2

Insertion == Placed /\ Passed /\ Behind /\ Newest /\ Places

Output == /\ phase # "printed" => printed = <<>>
          /\ phase = "printed" => printed = lines /\ j > Len(lines)

Inv == TypeOK /\ Origin /\ AllThere /\ Insertion /\ Output
-----------------------------------------------------------------------------
(* A byte is stored or is not: what is kept of a line is a beginning of it *)
(* that fits, and all of it unless the buffer is full then.                *)
LEMMA KeptBegins ==
  ASSUME TypeOK, NEW t \in Whole \cup Unended
  PROVE  /\ t \in Seq(Nat)
         /\ Kept(t) \in Texts /\ Kept(t) \in Seq(Nat)
         /\ Len(Kept(t)) <= Len(t)
         /\ used + Len(Kept(t)) \in 0 .. BUF_SIZE
         /\ \A n \in 1 .. Len(Kept(t)) : Kept(t)[n] = t[n]
         /\ used + Len(Kept(t)) < BUF_SIZE => Kept(t) = t /\ used < BUF_SIZE
<1>1. t \in Seq(Nat) /\ BUF_SIZE \in Nat /\ used \in 0 .. BUF_SIZE
  BY SortAssumption DEF TypeOK
<1>2. CASE Len(t) <= BUF_SIZE - used
  <2>1. Kept(t) = t
    BY <1>2 DEF Kept
  <2>2. SubSeq(t, 1, Len(t)) = t /\ Len(t) \in 0 .. Len(t)
    BY <1>1
  <2>3. t \in Texts
    BY <2>2, SortAssumption
  <2> QED  BY <1>1, <1>2, <2>1, <2>3
<1>3. CASE ~(Len(t) <= BUF_SIZE - used)
  <2> DEFINE r == BUF_SIZE - used
  <2>1. r \in 0 .. Len(t) /\ r < Len(t)
    BY <1>1, <1>3
  <2>2. Kept(t) = SubSeq(t, 1, r)
    BY <1>3 DEF Kept
  <2>3. SubSeq(t, 1, r) \in Texts
    BY <2>1, SortAssumption
  <2>4. Len(SubSeq(t, 1, r)) = r /\ \A n \in 1 .. r : SubSeq(t, 1, r)[n] = t[n]
    BY <1>1, <2>1
  <2>5. SubSeq(t, 1, r) \in Seq(Nat)
    BY <2>3, SortAssumption
  <2>6. used + r = BUF_SIZE
    BY <1>1
  <2> HIDE DEF r
  <2> QED  BY <1>1, <2>1, <2>2, <2>3, <2>4, <2>5, <2>6
<1> QED  BY <1>2, <1>3

(* Recording one more line, t with the number Len(input) + 1.              *)
LEMMA RecordKeepsTable ==
  ASSUME Inv, phase = "reading", NEW t \in Whole \cup Unended,
         input' = Append(input, t), used' = used + Len(Kept(t)),
         lines' = Record(t), UNCHANGED <<rank, j, k>>
  PROVE  /\ input' \in Seq(Seq(Nat)) /\ used' \in 0 .. BUF_SIZE
         /\ lines' \in Seq(Line)
         /\ Origin' /\ AllThere' /\ (Placed /\ Passed /\ Behind /\ Newest)'
<1>0. /\ TypeOK /\ Origin /\ AllThere /\ Placed /\ Passed /\ Behind /\ Newest
      /\ j = 2 /\ k = 2
  BY DEF Inv, Insertion, Places
<1>1. /\ t \in Seq(Nat) /\ Kept(t) \in Texts /\ Len(Kept(t)) <= Len(t)
      /\ Kept(t) \in Seq(Nat)
      /\ used' \in 0 .. BUF_SIZE
      /\ \A n \in 1 .. Len(Kept(t)) : Kept(t)[n] = t[n]
      /\ used' < BUF_SIZE => Kept(t) = t /\ used < BUF_SIZE
  BY <1>0, KeptBegins
<1>2. /\ input \in Seq(Seq(Nat)) /\ lines \in Seq(Line)
      /\ MAX_LINES \in Nat
  BY <1>0, SortAssumption DEF TypeOK
<1>3. /\ input' \in Seq(Seq(Nat)) /\ Len(input') = Len(input) + 1
      /\ input'[Len(input) + 1] = t
      /\ \A i \in 1 .. Len(input) : input'[i] = input[i]
  BY <1>1, <1>2
<1>7. \A y : Begins(y, input) => Begins(y, input')
  BY <1>2, <1>3 DEF Begins
<1> DEFINE x == [at |-> Len(input) + 1, text |-> Kept(t)]
<1>4. x \in Line /\ x.at = Len(input) + 1 /\ x.text = Kept(t)
  BY <1>1, <1>2 DEF Line
<1>5. CASE Len(lines) < MAX_LINES
  <2>1. lines' = Append(lines, x)
    BY <1>5 DEF Record
  <2> HIDE DEF x
  <2>2. /\ lines' \in Seq(Line) /\ Len(lines') = Len(lines) + 1
        /\ lines'[Len(lines) + 1] = x
        /\ \A a \in 1 .. Len(lines) : lines'[a] = lines[a]
    BY <1>2, <1>4, <2>1
  <2>3. Len(lines) \in Nat /\ Len(input) \in Nat
    BY <1>2
  <2>4. \A a \in 1 .. Len(lines) : lines[a] \in Line /\ lines[a].at \in 1 .. Len(input)
    BY <1>0, <1>2 DEF Origin, Begins
  <2>a. \A a \in 1 .. Len(lines') : a \in 1 .. Len(lines) \/ a = Len(lines) + 1
    BY <2>2, <2>3
  <2>b. Begins(x, input')
    <3>1. Len(input) + 1 \in 1 .. Len(input')
      BY <1>3, <2>3
    <3> QED  BY <3>1, <1>1, <1>3, <1>4 DEF Begins
  <2>5. \A a \in 1 .. Len(lines') : Begins(lines'[a], input')
    <3> SUFFICES ASSUME NEW a \in 1 .. Len(lines')
                 PROVE  Begins(lines'[a], input')
      OBVIOUS
    <3>1. CASE a \in 1 .. Len(lines)
      BY <3>1, <1>0, <1>7, <2>2 DEF Origin
    <3>2. CASE a = Len(lines) + 1
      BY <3>2, <2>2, <2>b
    <3> QED  BY <3>1, <3>2, <2>a
  <2>6. Origin'
    <3>1. Len(lines') <= Len(input')
      BY <1>0, <1>3, <2>2, <2>3 DEF Origin
    <3>2. \A a, b \in 1 .. Len(lines') : lines'[a].at = lines'[b].at => a = b
      <4>1. \A a \in 1 .. Len(lines') :
              lines'[a].at = Len(input) + 1 <=> a = Len(lines) + 1
        BY <1>4, <2>2, <2>3, <2>4, <2>a
      <4> QED  BY <1>0, <4>1, <2>2, <2>a DEF Origin
    <3> QED  BY <3>1, <3>2, <2>5 DEF Origin
  <2>7. AllThere'
    <3> SUFFICES ASSUME used' < BUF_SIZE, Len(input') <= MAX_LINES,
                        NEW i \in 1 .. Len(input')
                 PROVE  \E a \in 1 .. Len(lines') :
                          lines'[a] = [at |-> i, text |-> input'[i]]
      BY DEF AllThere
    <3>1. CASE i \in 1 .. Len(input)
      <4>1. PICK a \in 1 .. Len(lines) : lines[a] = [at |-> i, text |-> input[i]]
        BY <3>1, <1>0, <1>1, <1>2, <1>3, <2>3 DEF AllThere
      <4>2. a \in 1 .. Len(lines') /\ lines'[a] = [at |-> i, text |-> input'[i]]
        BY <4>1, <3>1, <1>3, <2>2, <2>3
      <4> QED  BY <4>2
    <3>2. CASE i = Len(input) + 1
      <4>1. x = [at |-> i, text |-> input'[i]]
        BY <3>2, <1>1, <1>3 DEF x
      <4>2. Len(lines) + 1 \in 1 .. Len(lines')
        BY <2>2, <2>3
      <4> QED  BY <4>1, <4>2, <2>2
    <3> QED  BY <3>1, <3>2, <1>3, <2>3
  <2>8. \A a, b \in 1 .. Len(lines') : a < b => lines'[a].at < lines'[b].at
    <3> SUFFICES ASSUME NEW a \in 1 .. Len(lines'), NEW b \in 1 .. Len(lines'), a < b
                 PROVE  lines'[a].at < lines'[b].at
      OBVIOUS
    <3>1. CASE b = Len(lines) + 1
      BY <3>1, <1>4, <2>2, <2>3, <2>4
    <3>2. CASE b \in 1 .. Len(lines)
      <4>1. lines[a].at < lines[b].at
        BY <3>2, <1>0, <2>3 DEF Behind, Newest
      <4> QED  BY <4>1, <3>2, <2>2, <2>3
    <3> QED  BY <3>1, <3>2, <2>a
  <2>9. (Placed /\ Passed /\ Behind /\ Newest)'
    <3>1. j' = 2 /\ k' = 2 /\ Len(lines') \in Nat
      BY <1>0, <2>2, <2>3
    <3>2. Placed'
      BY <3>1 DEF Placed
    <3>3. Passed'
      BY <3>1 DEF Passed
    <3>4. Behind'
      BY <2>8 DEF Behind
    <3>5. Newest'
      <4> SUFFICES ASSUME NEW a \in 1 .. Len(lines'), a <= 2, a # 2, 2 <= Len(lines')
                   PROVE  lines'[a].at < lines'[2].at
        BY <3>1 DEF Newest
      <4>1. 2 \in 1 .. Len(lines') /\ a < 2
        BY <3>1
      <4> QED  BY <4>1, <2>8
    <3> QED  BY <3>2, <3>3, <3>4, <3>5
  <2> QED  BY <1>1, <1>3, <2>2, <2>6, <2>7, <2>9
<1>6. CASE ~(Len(lines) < MAX_LINES)
  <2>1. lines' = lines
    BY <1>6 DEF Record
  <2>2. Origin'
    <3>1. \A a \in 1 .. Len(lines) : Begins(lines[a], input')
      BY <1>0, <1>7 DEF Origin
    <3>2. Len(lines') <= Len(input')
      BY <1>0, <1>2, <1>3, <2>1 DEF Origin
    <3> QED  BY <1>0, <3>1, <3>2, <2>1 DEF Origin
  <2>3. AllThere'
    <3>1. ~(Len(input') <= MAX_LINES)
      BY <1>0, <1>2, <1>3, <1>6 DEF Origin
    <3> QED  BY <3>1 DEF AllThere
  <2>4. (Placed /\ Passed /\ Behind /\ Newest)'
    BY <1>0, <2>1 DEF Placed, Passed, Behind, Newest, Before, Rank
  <2> QED  BY <1>1, <1>2, <1>3, <2>1, <2>2, <2>3, <2>4
<1> QED  BY <1>5, <1>6
-----------------------------------------------------------------------------
(* Ranks are integers, and places in the input natural numbers.            *)
LEMMA RankIsInt ==
  ASSUME TypeOK
  PROVE  \A x \in Line : rank[x.text] \in Int /\ x.at \in Nat
BY DEF TypeOK, Line

(* Before is transitive: rank first, then the place in the input.          *)
LEMMA BeforeTransitive ==
  ASSUME TypeOK, NEW x \in Line, NEW y \in Line, NEW z \in Line,
         Before(x, y), Before(y, z)
  PROVE  Before(x, z)
BY RankIsInt DEF Before

(* Two neighbours change places, for a line that came later is the lesser. *)
LEMMA SwapKeepsTable ==
  ASSUME Inv, Swap
  PROVE  Inv'
<1>0. /\ TypeOK /\ Origin /\ AllThere /\ Placed /\ Passed /\ Behind /\ Newest
      /\ Places /\ Output
  BY DEF Inv, Insertion
<1>1. /\ phase = "sorting" /\ phase' = phase /\ rank' = rank /\ input' = input
      /\ used' = used /\ j' = j /\ k' = k - 1 /\ printed' = printed
      /\ j <= Len(lines) /\ k > 1 /\ Rank(k - 1) > Rank(k)
      /\ lines' = [lines EXCEPT ![k - 1] = lines[k], ![k] = lines[k - 1]]
  BY DEF Swap, OutOfOrder
<1>2. /\ lines \in Seq(Line) /\ Len(lines) \in Nat /\ j \in Nat /\ k \in Nat
      /\ 1 < k /\ k <= j /\ 2 <= j
  BY <1>0, <1>1 DEF TypeOK, Places
<1>3. k \in 1 .. Len(lines) /\ k - 1 \in 1 .. Len(lines)
  BY <1>1, <1>2
<1>4. /\ lines' \in Seq(Line) /\ Len(lines') = Len(lines)
      /\ lines'[k - 1] = lines[k] /\ lines'[k] = lines[k - 1]
      /\ \A a \in 1 .. Len(lines) : a # k - 1 /\ a # k => lines'[a] = lines[a]
  BY <1>1, <1>2, <1>3
<1>5. \A a \in 1 .. Len(lines) : lines[a] \in Line
  BY <1>2
<1>6. TypeOK'
  BY <1>0, <1>1, <1>2, <1>4 DEF TypeOK
<1> DEFINE old(a) == IF a = k THEN k - 1 ELSE IF a = k - 1 THEN k ELSE a
<1>7. \A a \in 1 .. Len(lines) :
        old(a) \in 1 .. Len(lines) /\ lines'[a] = lines[old(a)] /\ old(old(a)) = a
  BY <1>2, <1>3, <1>4
<1>8. Origin'
  <2>1. \A a \in 1 .. Len(lines) : Begins(lines'[a], input)
    BY <1>0, <1>7 DEF Origin
  <2>2. \A a, b \in 1 .. Len(lines) : lines'[a].at = lines'[b].at => a = b
    <3> SUFFICES ASSUME NEW a \in 1 .. Len(lines), NEW b \in 1 .. Len(lines),
                        lines'[a].at = lines'[b].at
                 PROVE  a = b
      OBVIOUS
    <3>1. old(a) = old(b)
      BY <1>0, <1>7 DEF Origin
    <3>2. a = old(old(a)) /\ b = old(old(b))
      BY <1>7
    <3> QED  BY <3>1, <3>2
  <2> QED  BY <2>1, <2>2, <1>0, <1>1, <1>4 DEF Origin
<1>9. AllThere'
  <2> SUFFICES ASSUME used < BUF_SIZE, Len(input) <= MAX_LINES, NEW i \in 1 .. Len(input)
               PROVE  \E a \in 1 .. Len(lines) : lines'[a] = [at |-> i, text |-> input[i]]
    BY <1>1, <1>4 DEF AllThere
  <2>1. PICK a \in 1 .. Len(lines) : lines[a] = [at |-> i, text |-> input[i]]
    BY <1>0 DEF AllThere
  <2>2. old(a) \in 1 .. Len(lines) /\ lines'[old(a)] = lines[a]
    BY <1>7
  <2> QED  BY <2>1, <2>2
<1>10. Placed'
  <2> SUFFICES ASSUME NEW a \in 1 .. Len(lines), NEW b \in 1 .. Len(lines),
                      a < b, b <= j, a # k - 1, b # k - 1
               PROVE  Before(lines'[a], lines'[b])
    BY <1>1, <1>4 DEF Placed, Before
  <2>1. old(a) < old(b) /\ old(b) <= j /\ old(a) # k /\ old(b) # k
    BY <1>2
  <2>2. Before(lines[old(a)], lines[old(b)])
    BY <2>1, <1>0, <1>7 DEF Placed
  <2> QED  BY <2>2, <1>7
<1>11. Passed'
  <2> SUFFICES ASSUME NEW b \in 1 .. Len(lines), k - 1 < b, b <= j
               PROVE  rank[lines[k].text] < rank[lines'[b].text]
    BY <1>1, <1>4 DEF Passed, Rank
  <2>1. CASE b = k
    BY <2>1, <1>1, <1>3, <1>4, <1>5, <1>0, RankIsInt DEF Rank
  <2>2. CASE b # k
    <3>1. k < b /\ lines'[b] = lines[b]
      BY <2>2, <1>2, <1>4
    <3> QED  BY <3>1, <1>0 DEF Passed, Rank
  <2> QED  BY <2>1, <2>2
<1>12. Behind'
  <2> SUFFICES ASSUME NEW a \in 1 .. Len(lines), NEW b \in 1 .. Len(lines), a < b, j < b
               PROVE  lines'[a].at < lines'[b].at
    BY <1>1, <1>4 DEF Behind
  <2>1. lines'[b] = lines[b]
    BY <1>2, <1>4
  <2>2. old(a) < b
    BY <1>2
  <2> QED  BY <2>1, <2>2, <1>0, <1>7 DEF Behind
<1>13. Newest'
  <2> SUFFICES ASSUME NEW a \in 1 .. Len(lines), a <= j, a # k - 1
               PROVE  lines'[a].at < lines[k].at
    BY <1>1, <1>3, <1>4 DEF Newest
  <2>1. old(a) # k /\ old(a) <= j
    BY <1>2
  <2> QED  BY <2>1, <1>0, <1>3, <1>7 DEF Newest
<1>14. Places' /\ Output'
  BY <1>0, <1>1, <1>2, <1>4 DEF Places, Output
<1> QED  BY <1>6, <1>8, <1>9, <1>10, <1>11, <1>12, <1>13, <1>14 DEF Inv, Insertion

(* The line before is not greater, and came earlier: the one at k has      *)
(* found its place, and the next one is the newest.                        *)
LEMMA NextLineKeepsTable ==
  ASSUME Inv, NextLine
  PROVE  Inv'
<1>0. /\ TypeOK /\ Origin /\ AllThere /\ Placed /\ Passed /\ Behind /\ Newest
      /\ Places /\ Output
  BY DEF Inv, Insertion
<1>1. /\ phase = "sorting" /\ j <= Len(lines) /\ ~OutOfOrder
      /\ j' = j + 1 /\ k' = j + 1
      /\ UNCHANGED <<rank, phase, input, used, lines, printed>>
  BY DEF NextLine
<1>2. /\ lines \in Seq(Line) /\ Len(lines) \in Nat /\ j \in Nat /\ k \in Nat
      /\ 1 <= k /\ k <= j /\ 2 <= j /\ k <= Len(lines)
  BY <1>0, <1>1 DEF TypeOK, Places
<1>3. \A a \in 1 .. Len(lines) : lines[a] \in Line
  BY <1>2
<1>4. TypeOK' /\ Origin' /\ AllThere' /\ Output'
  BY <1>0, <1>1, <1>2 DEF TypeOK, Origin, AllThere, Output
<1>5. ASSUME NEW a \in 1 .. Len(lines), a < k
      PROVE  Before(lines[a], lines[k])
  <2>1. k > 1 /\ k - 1 \in 1 .. Len(lines) /\ k \in 1 .. Len(lines)
    BY <1>2, <1>5
  <2>2. rank[lines[k - 1].text] \in Int /\ rank[lines[k].text] \in Int
    BY <2>1, <1>0, <1>3, RankIsInt
  <2>3. rank[lines[k - 1].text] <= rank[lines[k].text]
    BY <2>1, <2>2, <1>1 DEF OutOfOrder, Rank
  <2>4. lines[k - 1].at < lines[k].at
    BY <2>1, <1>0, <1>2 DEF Newest
  <2>5. Before(lines[k - 1], lines[k])
    BY <2>2, <2>3, <2>4 DEF Before
  <2>6. CASE a = k - 1
    BY <2>5, <2>6
  <2>7. CASE a < k - 1
    <3>1. Before(lines[a], lines[k - 1])
      BY <2>1, <2>7, <1>0, <1>2 DEF Placed
    <3> QED  BY <3>1, <2>1, <2>5, <1>0, <1>3, BeforeTransitive
  <2> QED  BY <2>6, <2>7, <1>2, <1>5
<1>6. Placed'
  <2> SUFFICES ASSUME NEW a \in 1 .. Len(lines), NEW b \in 1 .. Len(lines),
                      a < b, b <= j + 1, a # j + 1, b # j + 1
               PROVE  Before(lines[a], lines[b])
    BY <1>1 DEF Placed, Before
  <2>1. b <= j
    BY <1>2
  <2>2. CASE a # k /\ b # k
    BY <2>1, <2>2, <1>0 DEF Placed
  <2>3. CASE b = k
    BY <2>3, <1>5
  <2>4. CASE a = k
    BY <2>1, <2>4, <1>0 DEF Passed, Before, Rank
  <2> QED  BY <2>2, <2>3, <2>4
<1>7. Passed'
  BY <1>1, <1>2 DEF Passed
<1>8. Behind'
  BY <1>0, <1>1, <1>2 DEF Behind
<1>9. Newest'
  BY <1>0, <1>1, <1>2 DEF Behind, Newest
<1>10. Places'
  BY <1>0, <1>1, <1>2 DEF Places
<1> QED  BY <1>4, <1>6, <1>7, <1>8, <1>9, <1>10 DEF Inv, Insertion

(* Reading a line leaves the table a record of the input.                  *)
LEMMA ReadLineKeepsTable ==
  ASSUME Inv, NEW t \in Whole, ReadLine(t)
  PROVE  Inv'
<1>1. /\ phase = "reading" /\ UNCHANGED <<rank, phase, j, k, printed>>
      /\ input' = Append(input, t) /\ used' = used + Len(Kept(t)) /\ lines' = Record(t)
  BY DEF ReadLine
<1>2. /\ input' \in Seq(Seq(Nat)) /\ used' \in 0 .. BUF_SIZE /\ lines' \in Seq(Line)
      /\ Origin' /\ AllThere' /\ (Placed /\ Passed /\ Behind /\ Newest)'
  BY <1>1, RecordKeepsTable
<1>3. TypeOK /\ Places /\ Output
  BY DEF Inv, Insertion
<1>4. TypeOK' /\ Output'
  BY <1>1, <1>2, <1>3 DEF TypeOK, Output
<1>5. Places'
  BY <1>1, <1>3 DEF Places
<1> QED  BY <1>2, <1>4, <1>5 DEF Inv, Insertion

(* So does the end of the input, with an unfinished line or without.       *)
LEMMA EndOfInputKeepsTable ==
  ASSUME Inv, NEW t \in Unended, EndOfInput(t)
  PROVE  Inv'
<1>1. /\ phase = "reading" /\ phase' = "sorting" /\ UNCHANGED <<rank, j, k, printed>>
      /\ input' = IF t = <<>> THEN input ELSE Append(input, t)
      /\ used' = used + Len(Kept(t))
      /\ lines' = IF Kept(t) = <<>> THEN lines ELSE Record(t)
  BY DEF EndOfInput
<1>2. /\ TypeOK /\ Origin /\ AllThere /\ Placed /\ Passed /\ Behind /\ Newest
      /\ Places /\ Output
  BY DEF Inv, Insertion
<1>3. /\ t \in Seq(Nat) /\ Kept(t) \in Seq(Nat) /\ Len(Kept(t)) <= Len(t)
      /\ used' \in 0 .. BUF_SIZE
      /\ used' < BUF_SIZE => Kept(t) = t
  BY <1>1, <1>2, KeptBegins
<1>4. /\ j = 2 /\ k = 2 /\ j' = 2 /\ k' = 2
      /\ input \in Seq(Seq(Nat)) /\ lines \in Seq(Line)
  BY <1>1, <1>2 DEF Places, TypeOK
<1>5. /\ input' \in Seq(Seq(Nat)) /\ lines' \in Seq(Line)
      /\ Origin' /\ AllThere' /\ (Placed /\ Passed /\ Behind /\ Newest)'
  <2>1. CASE t = <<>>
    <3>1. Kept(t) = <<>> /\ used' = used
      BY <2>1, <1>1, <1>2, <1>3 DEF TypeOK
    <3>2. input' = input /\ lines' = lines
      BY <2>1, <3>1, <1>1
    <3> QED  BY <3>1, <3>2, <1>1, <1>2, <1>4
             DEF Origin, AllThere, Placed, Passed, Behind, Newest, Before, Rank
  <2>2. CASE t # <<>> /\ Kept(t) # <<>>
    <3>1. input' = Append(input, t) /\ lines' = Record(t)
      BY <2>2, <1>1
    <3> QED  BY <3>1, <1>1, RecordKeepsTable
  <2>3. CASE t # <<>> /\ Kept(t) = <<>>
    <3>1. /\ input' = Append(input, t) /\ lines' = lines /\ ~(used' < BUF_SIZE)
      BY <2>3, <1>1, <1>3
    <3>2. /\ input' \in Seq(Seq(Nat)) /\ Len(input') = Len(input) + 1
          /\ \A i \in 1 .. Len(input) : input'[i] = input[i]
      BY <3>1, <1>3, <1>4
    <3>3. \A y : Begins(y, input) => Begins(y, input')
      BY <3>2, <1>4 DEF Begins
    <3>4. Origin'
      <4>1. \A a \in 1 .. Len(lines) : Begins(lines[a], input')
        BY <3>3, <1>2 DEF Origin
      <4>2. Len(lines') <= Len(input')
        BY <3>1, <3>2, <1>2, <1>4 DEF Origin
      <4> QED  BY <4>1, <4>2, <3>1, <1>2 DEF Origin
    <3>5. AllThere'
      BY <3>1 DEF AllThere
    <3> QED  BY <3>1, <3>2, <3>4, <3>5, <1>1, <1>2, <1>4
             DEF Placed, Passed, Behind, Newest, Before, Rank
  <2> QED  BY <2>1, <2>2, <2>3
<1>6. TypeOK' /\ Output'
  BY <1>1, <1>2, <1>3, <1>5 DEF TypeOK, Output
<1>7. Places'
  BY <1>1, <1>2, <1>4 DEF Places
<1> QED  BY <1>5, <1>6, <1>7 DEF Inv, Insertion

(* Steps that leave the table and what it is compared with as they are.    *)
LEMMA TableUntouched ==
  ASSUME Origin, AllThere, Placed, Passed, Behind, Newest,
         UNCHANGED <<rank, input, used, lines, j, k>>
  PROVE  (Origin /\ AllThere /\ Placed /\ Passed /\ Behind /\ Newest)'
<1>1. (Origin /\ AllThere)'
  BY DEF Origin, AllThere
<1>2. (Placed /\ Passed)'
  BY DEF Placed, Passed, Before, Rank
<1>3. (Behind /\ Newest)'
  BY DEF Behind, Newest
<1> QED  BY <1>1, <1>2, <1>3

(* Printing leaves the table as it is.                                     *)
LEMMA PrintAllKeepsTable ==
  ASSUME Inv, PrintAll
  PROVE  Inv'
<1>1. /\ phase = "sorting" /\ phase' = "printed" /\ j > Len(lines) /\ printed' = lines
      /\ UNCHANGED <<rank, input, used, lines, j, k>>
  BY DEF PrintAll
<1>2. (TypeOK /\ Places /\ Output)'
  BY <1>1 DEF Inv, Insertion, TypeOK, Places, Output
<1>3. (Origin /\ AllThere /\ Placed /\ Passed /\ Behind /\ Newest)'
  BY <1>1, TableUntouched DEF Inv, Insertion
<1> QED  BY <1>2, <1>3 DEF Inv, Insertion
-----------------------------------------------------------------------------
(* The invariant of the insertion holds for every input.                   *)
THEOREM TableStaysSorted == SortSpec => []Inv
<1>1. SortInit => Inv
  <2> SUFFICES ASSUME SortInit PROVE Inv
    OBVIOUS
  <2>1. /\ rank \in Ranks /\ phase = "reading" /\ input = <<>> /\ used = 0
        /\ lines = <<>> /\ j = 2 /\ k = 2 /\ printed = <<>>
    BY DEF SortInit
  <2>2. TypeOK
    BY <2>1, SortAssumption DEF TypeOK
  <2>3. Origin /\ AllThere /\ Insertion /\ Output
    BY <2>1 DEF Origin, AllThere, Insertion, Placed, Passed, Behind, Newest,
                Places, Output
  <2> QED  BY <2>2, <2>3 DEF Inv
<1>2. Inv /\ [SortNext]_sortVars => Inv'
  <2> SUFFICES ASSUME Inv, [SortNext]_sortVars PROVE Inv'
    OBVIOUS
  <2>1. ASSUME NEW t \in Whole, ReadLine(t) PROVE Inv'
    BY <2>1, ReadLineKeepsTable
  <2>2. ASSUME NEW t \in Unended, EndOfInput(t) PROVE Inv'
    BY <2>2, EndOfInputKeepsTable
  <2>3. CASE Swap
    BY <2>3, SwapKeepsTable
  <2>4. CASE NextLine
    BY <2>4, NextLineKeepsTable
  <2>5. CASE PrintAll
    BY <2>5, PrintAllKeepsTable
  <2>6. CASE UNCHANGED sortVars
    <3>1. (TypeOK /\ Places /\ Output)'
      BY <2>6 DEF sortVars, Inv, Insertion, TypeOK, Places, Output
    <3>2. (Origin /\ AllThere /\ Placed /\ Passed /\ Behind /\ Newest)'
      BY <2>6, TableUntouched DEF sortVars, Inv, Insertion
    <3> QED  BY <3>1, <3>2 DEF Inv, Insertion
  <2> QED  BY <2>1, <2>2, <2>3, <2>4, <2>5, <2>6 DEF SortNext
<1> QED  BY <1>1, <1>2, PTL DEF SortSpec

(* What sort prints is in order, and lines of equal rank keep the order in *)
(* which they came.                                                        *)
THEOREM PrintsInOrder == SortSpec => []SortedStable
<1>1. Inv => SortedStable
  <2> SUFFICES ASSUME Inv PROVE SortedStable
    OBVIOUS
  <2>1. TypeOK /\ Placed /\ Places /\ Output
    BY DEF Inv, Insertion
  <2>2. CASE phase # "printed"
    BY <2>1, <2>2 DEF Output, SortedStable
  <2>3. CASE phase = "printed"
    <3>1. printed = lines /\ j > Len(lines) /\ k = j /\ Len(lines) \in Nat /\ j \in Nat
      BY <2>1, <2>3 DEF Output, Places, TypeOK
    <3> QED  BY <2>1, <3>1 DEF Placed, SortedStable
  <2> QED  BY <2>2, <2>3
<1> QED  BY <1>1, TableStaysSorted, PTL

(* sort prints no line twice and nothing it has not read, and all it has   *)
(* read unless the buffer or the table was full.                           *)
THEOREM PrintsEveryLine == SortSpec => []SortKeepsLines
<1>1. Inv => SortKeepsLines
  <2> SUFFICES ASSUME Inv PROVE SortKeepsLines
    OBVIOUS
  <2>1. TypeOK /\ Origin /\ AllThere /\ Output
    BY DEF Inv
  <2>2. CASE phase # "printed"
    BY <2>1, <2>2 DEF Output, SortKeepsLines
  <2>3. CASE phase = "printed"
    BY <2>1, <2>3 DEF Output, SortKeepsLines, Origin, AllThere, Begins
  <2> QED  BY <2>2, <2>3
<1> QED  BY <1>1, TableStaysSorted, PTL
=============================================================================
