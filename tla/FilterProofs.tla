---------------------------- MODULE FilterProofs ----------------------------
(***************************************************************************)
(* The filters of TextFilters print what their names promise, for every    *)
(* input and every size of buffers and memory.                             *)
(***************************************************************************)
EXTENDS TextFilters, SequenceTheorems, FiniteSetTheorems, TLAPS

NoNL(s)   == \A i \in 1 .. Len(s) : s[i] # NL
Text      == Seq(Bytes)
Fits(n)   == LinesBelow(read, n)

(* s is in the text from position n + 1 on.                                *)
StandsAt(s, text, n) == /\ n + Len(s) <= Len(text)
                        /\ \A i \in 1 .. Len(s) : text[n + i] = s[i]

(* A line begins behind position n.                                        *)
LineAfter(text, n) == n > 0 => text[n] = NL

HeadRec == [heap : Nat, buf : Text, lines : Nat, max : Nat]
HeadInv ==
  prog = "head" =>
    /\ st \in HeadRec /\ read \in Text /\ out \in Text
    /\ HeadPromise
    /\ Fits(HEAD_BUF) /\ status = "reading" =>
         /\ out \o st.buf = read /\ NoNL(st.buf) /\ EndsLine(out)
         /\ st.lines = Cardinality(Newlines(out))
         /\ st.lines = 0 \/ st.lines < st.max

WcRec == [lines : Nat, words : Nat, bytes : Nat, inWord : BOOLEAN, show : WcShows]
WcInv ==
  prog = "wc" =>
    /\ st \in WcRec /\ read \in Text
    /\ status = "reading" => out = <<>>
    /\ st.lines = Cardinality(Newlines(read))
    /\ st.words = Cardinality(WordStarts(read))
    /\ st.bytes = Len(read)
    /\ st.inWord <=> read # <<>> /\ read[Len(read)] \notin Blanks
    /\ WcPromise

FoldRec == [heap : Nat, buf : Text, width : Nat \ {0}]
Folded(n, printed) ==
  \E added \in SUBSET Newlines(out) : IsWithout(SubSeq(read, 1, n), printed, added)
FoldInv ==
  prog = "fold" =>
    /\ st \in FoldRec /\ read \in Text /\ out \in Text
    /\ LinesBelow(out, st.width + 1)
    /\ status = "reading" =>
         /\ Folded(Len(read), out \o st.buf)
         /\ NoNL(st.buf) /\ EndsLine(out) /\ Len(st.buf) < st.width
    /\ status # "reading" =>
         \E n \in 0 .. Len(read) : Folded(n, out) /\ (status = "done" => n = Len(read))

RevRec == [heap : Nat, buf : Text]
Turned(printed, text) ==
  \A e \in Newlines(text), a \in 1 .. Len(text) : IsLine(text, a, e) =>
    /\ e \in DOMAIN printed => printed[e] = NL
    /\ \A i \in a .. e - 1 : a + e - 1 - i \in DOMAIN printed =>
                               printed[a + e - 1 - i] = text[i]
RevInv ==
  prog = "rev" =>
    /\ st \in RevRec /\ read \in Text /\ out \in Text
    /\ Fits(REV_LINE) =>
         /\ Len(out) <= Len(Ended(read)) /\ Turned(out, Ended(read))
         /\ status = "done" => Len(out) = Len(Ended(read))
         /\ status = "reading" =>
              /\ Len(out) + Len(st.buf) = Len(read)
              /\ StandsAt(st.buf, read, Len(out)) /\ NoNL(st.buf)
              /\ LineAfter(read, Len(out))

TacLineRec == [off : Nat, len : Nat]
TacRec == [heap : Nat, lines : Seq(TacLineRec),
           buf : [0 .. MemSize["tac"] - 1 -> Bytes], pos : Nat, cur : Nat]
(* Lines are numbered by the newlines before them, which are not stored.   *)
Behind(lines, i) == IF i = 0 THEN 0 ELSE lines[i].off + lines[i].len
First(lines, i)  == lines[i].off + i
Final(lines, i)  == Behind(lines, i) + i
LineStored(lines, buf, i, text) ==
  /\ Final(lines, i) <= Len(text) /\ IsLine(text, First(lines, i), Final(lines, i))
  /\ lines[i].off = Behind(lines, i - 1)
  /\ \A k \in 0 .. lines[i].len - 1 : buf[lines[i].off + k] = text[First(lines, i) + k]
Backwards(printed, text) ==
  \A e \in Newlines(text), a \in 1 .. Len(text) : IsLine(text, a, e) =>
    \A i \in a .. e : LET p == Len(text) - e + i - a + 1
                      IN  p \in DOMAIN printed => printed[p] = text[i]
TacReading ==
  LET n == Len(st.lines)
  IN  /\ out = <<>>
      /\ n = Cardinality(Newlines(read))
      /\ \A i \in 1 .. n : /\ LineStored(st.lines, st.buf, i, read)
                           /\ Behind(st.lines, i) <= st.pos
      /\ st.pos = Behind(st.lines, n)
      /\ (st.pos + n) + st.cur = Len(read) /\ st.pos + st.cur <= MemSize["tac"]
      /\ \A k \in 0 .. st.cur - 1 : /\ st.buf[st.pos + k] = read[(st.pos + n + 1) + k]
                                    /\ read[(st.pos + n + 1) + k] # NL
TacPrinting ==
  LET n == Len(st.lines)
  IN  /\ \A i \in 1 .. n : LineStored(st.lines, st.buf, i, Ended(read))
      /\ Len(out) = Len(Ended(read)) - Final(st.lines, n)
TacInv ==
  prog = "tac" =>
    /\ st \in TacRec /\ read \in Text
    /\ TacFits =>
         /\ out \in Text
         /\ Len(out) <= Len(Ended(read)) /\ Backwards(out, Ended(read))
         /\ status = "done" => Len(out) = Len(Ended(read))
         /\ status = "reading"  => TacReading
         /\ status = "printing" => TacPrinting

UniqRec == [heap : Nat, prev : Text, curr : Text, count : Nat, hasPrev : BOOLEAN,
            flags : SUBSET {"c", "d", "u"}]
(* curr is what has come of one line, or the line before once more and     *)
(* what has come of the next.                                              *)
CurrHolds ==
  \/ NoNL(st.curr)
  \/ /\ IsLine(st.prev, 1, Len(st.prev)) /\ StandsAt(st.prev, st.curr, 0)
     /\ \A i \in Len(st.prev) + 1 .. Len(st.curr) : st.curr[i] # NL
UniqInv ==
  prog = "uniq" =>
    /\ st \in UniqRec /\ read \in Text
    /\ st.flags = {} /\ Fits(UNIQ_LINE \div 2) =>
         /\ UniqPromise
         /\ status = "reading" =>
              /\ out \in Text /\ (out \o st.prev) \o st.curr = read
              /\ EndsLine(out) /\ EndsLine(st.prev) /\ CurrHolds
              /\ ~st.hasPrev => st.prev = <<>>

FilterInv == HeadInv /\ WcInv /\ FoldInv /\ RevInv /\ TacInv /\ UniqInv
-----------------------------------------------------------------------------
(* Texts and their newlines.                                               *)
LEMMA NLIs == NL \in Bytes
BY FilterAssumption

(* alloc answers a number.                                                 *)
LEMMA AllocNat == ASSUME NEW h \in Nat, NEW n \in Nat PROVE Alloc(h, n) \in Nat
<1> DEFINE q == (h + n + ALIGN - 1) \div ALIGN
<1>1. ALIGN \in Nat /\ ALIGN > 0
  BY FilterAssumption
<1>2. q \in Nat
  BY <1>1
<1> HIDE DEF q
<1>3. q * ALIGN \in Nat
  BY <1>1, <1>2
<1> QED
  BY <1>3 DEF Alloc, q

(* What a text is after one more byte, or after another text.              *)
LEMMA Appended ==
  ASSUME NEW s \in Text, NEW c \in Bytes
  PROVE  /\ Append(s, c) \in Text /\ Len(Append(s, c)) = Len(s) + 1
         /\ Len(s) \in Nat /\ Append(s, c) # <<>>
         /\ DOMAIN s = 1 .. Len(s) /\ DOMAIN Append(s, c) = 1 .. Len(s) + 1
         /\ Append(s, c)[Len(s) + 1] = c
         /\ \A i \in 1 .. Len(s) : Append(s, c)[i] = s[i]
BY DEF Text

(* The bytes of two texts, one behind the other.                           *)
LEMMA Joined ==
  ASSUME NEW s \in Text, NEW t \in Text
  PROVE  /\ s \o t \in Text /\ Len(s \o t) = Len(s) + Len(t)
         /\ Len(s) \in Nat /\ Len(t) \in Nat
         /\ \A i \in 1 .. Len(s) : (s \o t)[i] = s[i]
         /\ \A i \in 1 .. Len(t) : (s \o t)[Len(s) + i] = t[i]
BY DEF Text

(* A text has finitely many newlines, on positions of its own.             *)
LEMMA NewlinesFinite ==
  ASSUME NEW s \in Text
  PROVE  IsFiniteSet(Newlines(s)) /\ Cardinality(Newlines(s)) \in Nat
<1>1. IsFiniteSet(1 .. Len(s)) /\ Newlines(s) \in SUBSET (1 .. Len(s))
  BY FS_Interval DEF Newlines, Text
<1> QED
  BY <1>1, FS_Subset, FS_CardinalityType

(* An empty text has none.                                                 *)
LEMMA NewlinesEmpty == Newlines(<<>>) = {} /\ Cardinality(Newlines(<<>>)) = 0
<1>1. Newlines(<<>>) = {}
  BY DEF Newlines
<1> QED
  BY <1>1, FS_EmptySet

(* Appending a byte adds its position if it is a newline.                  *)
LEMMA NewlinesAppend ==
  ASSUME NEW s \in Text, NEW c \in Bytes
  PROVE  /\ c # NL => Newlines(Append(s, c)) = Newlines(s)
         /\ c = NL => /\ Newlines(Append(s, c)) = Newlines(s) \cup {Len(s) + 1}
                      /\ Cardinality(Newlines(Append(s, c))) = Cardinality(Newlines(s)) + 1
<1>1. c # NL => Newlines(Append(s, c)) = Newlines(s)
  BY Appended DEF Newlines
<1>2. c = NL => Newlines(Append(s, c)) = Newlines(s) \cup {Len(s) + 1}
  BY Appended DEF Newlines
<1>3. Len(s) + 1 \notin Newlines(s)
  BY Appended DEF Newlines
<1> QED
  BY <1>1, <1>2, <1>3, NewlinesFinite, FS_AddElement

(* A text without newlines adds none.                                      *)
LEMMA NewlinesJoin ==
  ASSUME NEW s \in Text, NEW t \in Text, NoNL(t)
  PROVE  Newlines(s \o t) = Newlines(s)
<1>1. DOMAIN (s \o t) = 1 .. Len(s) + Len(t) /\ DOMAIN s = 1 .. Len(s)
  BY Joined DEF Text
<1>2. \A i \in Len(s) + 1 .. Len(s) + Len(t) : (s \o t)[i] # NL
  <2> SUFFICES ASSUME NEW i \in Len(s) + 1 .. Len(s) + Len(t) PROVE (s \o t)[i] # NL
    OBVIOUS
  <2>1. PICK m \in 1 .. Len(t) : i = Len(s) + m
    <3>1. Len(s) \in Nat /\ Len(t) \in Nat
      BY DEF Text
    <3>2. i - Len(s) \in 1 .. Len(t) /\ i = Len(s) + (i - Len(s))
      BY <3>1
    <3> QED
      BY <3>2
  <2>2. (s \o t)[Len(s) + m] = t[m]
    BY Joined
  <2> QED
    BY <2>1, <2>2 DEF NoNL
<1>3. \A i \in 1 .. Len(s) : (s \o t)[i] = s[i]
  BY Joined
<1>4. Len(s) \in Nat /\ Len(t) \in Nat
  BY DEF Text
<1> QED
  BY <1>1, <1>2, <1>3, <1>4 DEF Newlines

(* A text with short lines has short lines at its beginning, and a short   *)
(* one at its end.                                                         *)
LEMMA FitsBefore ==
  ASSUME NEW s \in Text, NEW c \in Bytes, NEW n \in Nat, LinesBelow(Append(s, c), n)
  PROVE  LinesBelow(s, n)
<1> SUFFICES ASSUME NEW i \in 0 .. Len(s) - n PROVE \E m \in 1 .. n : s[i + m] = NL
  BY DEF LinesBelow
<1>0. Len(Append(s, c)) = Len(s) + 1 /\ Len(s) \in Nat
  BY Appended
<1>1. PICK m \in 1 .. n : Append(s, c)[i + m] = NL
  <2>1. i \in 0 .. Len(Append(s, c)) - n
    BY <1>0
  <2> QED
    BY <2>1 DEF LinesBelow
<1>2. i + m \in 1 .. Len(s)
  BY Appended
<1> QED
  BY <1>1, <1>2, Appended

(* A text whose lines fit n bytes does not end in n bytes of one line.     *)
LEMMA TailShort ==
  ASSUME NEW s \in Text, NEW n \in Nat, LinesBelow(s, n),
         NEW m \in 0 .. Len(s), \A i \in 1 .. m : s[Len(s) - m + i] # NL
  PROVE  m < n
<1> SUFFICES ASSUME m >= n PROVE FALSE
  BY DEF Text
<1>1. Len(s) \in Nat /\ Len(s) - n \in 0 .. Len(s) - n
  BY DEF Text
<1>2. PICK k \in 1 .. n : s[Len(s) - n + k] = NL
  BY <1>1 DEF LinesBelow
<1>3. m - n + k \in 1 .. m /\ Len(s) - m + (m - n + k) = Len(s) - n + k
  BY <1>1
<1> QED
  BY <1>2, <1>3

(* A beginning of a text, by its positions.                                *)
LEMMA PrefixMeans ==
  ASSUME NEW s \in Text, NEW t \in Text
  PROVE  IsPrefix(s, t) <=> Len(s) <= Len(t) /\ \A i \in 1 .. Len(s) : s[i] = t[i]
<1>1. Len(s) \in Nat /\ Len(t) \in Nat
  BY DEF Text
<1>2. SubSeq(s, 1, Len(s)) = s
  BY SubSeqFull DEF Text
<1> SUFFICES ASSUME Len(s) <= Len(t)
             PROVE  s = SubSeq(t, 1, Len(s)) <=> \A i \in 1 .. Len(s) : s[i] = t[i]
  BY <1>2 DEF IsPrefix
<1>3. /\ SubSeq(t, 1, Len(s)) \in Text /\ Len(SubSeq(t, 1, Len(s))) = Len(s)
      /\ \A i \in 1 .. Len(s) : SubSeq(t, 1, Len(s))[i] = t[i]
  BY <1>1 DEF Text
<1>4. (\A i \in 1 .. Len(s) : s[i] = t[i]) => s = SubSeq(t, 1, Len(s))
  BY <1>3, SeqEqual DEF Text
<1> QED
  BY <1>3, <1>4

(* A text is a beginning of itself with more behind it.                    *)
LEMMA PrefixJoin ==
  ASSUME NEW s \in Text, NEW t \in Text
  PROVE  IsPrefix(s, s \o t)
<1>1. /\ s \o t \in Text /\ Len(s) <= Len(s \o t)
      /\ \A i \in 1 .. Len(s) : s[i] = (s \o t)[i]
  BY Joined
<1>2. \A a, b \in Text : IsPrefix(a, b) <=>
                           Len(a) <= Len(b) /\ \A i \in 1 .. Len(a) : a[i] = b[i]
  BY PrefixMeans
<1> QED
  BY <1>1, <1>2

(* A beginning stays one when a byte is read.                              *)
LEMMA PrefixAppend ==
  ASSUME NEW s \in Text, NEW t \in Text, NEW c \in Bytes, IsPrefix(s, t)
  PROVE  IsPrefix(s, Append(t, c))
<1>1. Len(s) <= Len(t) /\ \A i \in 1 .. Len(s) : s[i] = t[i]
  BY PrefixMeans
<1>2. /\ Append(t, c) \in Text /\ Len(Append(t, c)) = Len(t) + 1
      /\ Len(t) \in Nat /\ Len(s) \in Nat
      /\ \A i \in 1 .. Len(t) : Append(t, c)[i] = t[i]
  BY Appended
<1>3. \A a, b \in Text : IsPrefix(a, b) <=>
                           Len(a) <= Len(b) /\ \A i \in 1 .. Len(a) : a[i] = b[i]
  BY PrefixMeans
<1>4. Len(s) <= Len(Append(t, c)) /\ \A i \in 1 .. Len(s) : s[i] = Append(t, c)[i]
  BY <1>1, <1>2
<1> QED
  BY <1>2, <1>3, <1>4

(* A byte behind the second of two texts is behind both.                   *)
LEMMA JoinAppend ==
  ASSUME NEW s \in Text, NEW t \in Text, NEW c \in Bytes
  PROVE  s \o Append(t, c) = Append(s \o t, c)
<1>1. /\ s \o Append(t, c) \in Text /\ Append(s \o t, c) \in Text
      /\ Len(s \o Append(t, c)) = Len(s) + Len(t) + 1
      /\ Len(Append(s \o t, c)) = Len(s) + Len(t) + 1
  BY DEF Text
<1>2. \A i \in 1 .. Len(s \o Append(t, c)) : (s \o Append(t, c))[i] = Append(s \o t, c)[i]
  BY <1>1 DEF Text
<1> QED
  BY <1>1, <1>2, SeqEqual DEF Text
-----------------------------------------------------------------------------
(* head                                                                    *)
LEMMA HeadBegins == ASSUME NEW n \in Counts, HeadInit(n), read = <<>>, out = <<>>,
                           status = "reading"
                    PROVE  HeadInv
<1>1. /\ n \in Nat /\ HEAD_BUF \in Nat /\ MAX_ARGV \in Nat
  BY FilterAssumption
<1>2. Alloc(ArgvEnd, HEAD_BUF) \in Nat
  BY <1>1, AllocNat DEF ArgvEnd
<1>3. <<>> \in Text
  BY DEF Text
<1>4. st \in HeadRec /\ st.lines = 0 /\ st.buf = <<>> /\ st.max = n
  BY <1>1, <1>2, <1>3 DEF HeadInit, HeadRec
<1>5. out \o st.buf = read /\ NoNL(st.buf) /\ EndsLine(out)
  BY <1>4 DEF NoNL, EndsLine
<1>6. IsPrefix(out, read)
  BY <1>3, PrefixMeans
<1> QED
  BY <1>1, <1>3, <1>4, <1>5, <1>6, NewlinesEmpty DEF HeadInv, HeadPromise

(* A line fits the buffer.                                                 *)
LEMMA HeadHolds ==
  ASSUME HeadInv, prog = "head", NEW c \in Bytes, Getc(c), LinesBelow(read', HEAD_BUF)
  PROVE  /\ Fits(HEAD_BUF) /\ HeadKeeps(c) = Append(st.buf, c)
         /\ out \o st.buf = read /\ NoNL(st.buf) /\ EndsLine(out)
         /\ st.lines = Cardinality(Newlines(out))
         /\ st.lines = 0 \/ st.lines < st.max
         /\ read' = out \o Append(st.buf, c)
<1>1. /\ read \in Text /\ out \in Text /\ st.buf \in Text /\ HEAD_BUF \in Nat
      /\ read' = Append(read, c) /\ status = "reading"
  BY FilterAssumption DEF HeadInv, HeadRec, Getc
<1>2. Fits(HEAD_BUF)
  BY <1>1, FitsBefore DEF Fits
<1>3. out \o st.buf = read /\ NoNL(st.buf)
  BY <1>1, <1>2 DEF HeadInv
<1>4. /\ Len(st.buf) \in 0 .. Len(read)
      /\ \A i \in 1 .. Len(st.buf) : read[Len(read) - Len(st.buf) + i] # NL
  <2>1. /\ Len(read) = Len(out) + Len(st.buf) /\ Len(out) \in Nat /\ Len(st.buf) \in Nat
        /\ \A i \in 1 .. Len(st.buf) : read[Len(out) + i] = st.buf[i]
    BY <1>1, <1>3, Joined
  <2> QED
    BY <2>1, <1>3 DEF NoNL
<1>5. Len(st.buf) < HEAD_BUF
  BY <1>1, <1>2, <1>4, TailShort DEF Fits
<1> QED
  BY <1>1, <1>2, <1>3, <1>5, JoinAppend DEF HeadInv, HeadKeeps

(* A byte that is no newline.                                              *)
LEMMA HeadByteInv ==
  ASSUME HeadInv, prog = "head", prog' = prog, NEW c \in Bytes, Getc(c), HeadByte(c)
  PROVE  HeadInv'
<1>1. /\ read \in Text /\ out \in Text /\ st \in HeadRec
      /\ read' = Append(read, c) /\ status = "reading" /\ read' \in Text
      /\ out' = out /\ status' = status /\ c # NL
      /\ st' = [st EXCEPT !.buf = HeadKeeps(c)] /\ HEAD_BUF \in Nat
  BY FilterAssumption, Appended DEF HeadInv, HeadByte, GoOn, Getc
<1>2. HeadKeeps(c) \in Text
  BY <1>1, Appended DEF HeadKeeps, HeadRec
<1>3. /\ st' \in HeadRec /\ st'.buf = HeadKeeps(c) /\ st'.lines = st.lines
      /\ st'.max = st.max
  BY <1>1, <1>2 DEF HeadRec
<1>4. ASSUME LinesBelow(read', HEAD_BUF)
      PROVE  /\ IsPrefix(out, read')
             /\ Cardinality(Newlines(out)) <= st.max
             /\ Cardinality(Newlines(out)) = st.max => EndsLine(out)
             /\ out \o st'.buf = read' /\ NoNL(st'.buf) /\ EndsLine(out)
             /\ st.lines = Cardinality(Newlines(out))
             /\ st.lines = 0 \/ st.lines < st.max
  <2>1. /\ Fits(HEAD_BUF) /\ st'.buf = Append(st.buf, c) /\ NoNL(st.buf)
        /\ read' = out \o st'.buf /\ EndsLine(out)
        /\ st.lines = Cardinality(Newlines(out))
        /\ st.lines = 0 \/ st.lines < st.max
    BY <1>3, <1>4, HeadHolds
  <2>2. IsPrefix(out, read')
    BY <2>1, <1>1, <1>2, <1>3, PrefixJoin
  <2>3. NoNL(st'.buf)
    <3>1. st.buf \in Text
      BY <1>1 DEF HeadRec
    <3> QED
      BY <2>1, <3>1, <1>1, Appended DEF NoNL
  <2>4. Cardinality(Newlines(out)) <= st.max
    BY <2>1, <1>1 DEF HeadInv, HeadPromise, Fits
  <2> QED
    BY <2>1, <2>2, <2>3, <2>4
<1> QED
  BY <1>1, <1>3, <1>4 DEF HeadInv, HeadPromise, Fits

(* What head prints of a line, or at the end, is all it has read so far.   *)
LEMMA HeadPrints ==
  ASSUME HeadInv, prog = "head", NEW buf \in Text, NEW next \in HeadRec, NEW then,
         PrintBuf(buf, next, then), next.max = st.max
  PROVE  /\ st' \in HeadRec /\ out' \in Text /\ st'.max = st.max
         /\ \/ out' = out /\ status' = "trapped"
            \/ /\ out' = out \o buf /\ status' = then
               /\ st'.buf = next.buf /\ st'.lines = next.lines
<1>1. out \in Text /\ st \in HeadRec /\ Len(buf) \in Nat /\ next.heap \in Nat
  BY DEF HeadInv, HeadRec, Text
<1>2. Alloc(next.heap, Len(buf)) \in Nat
  BY <1>1, AllocNat
<1>3. CASE Room(Len(buf))
  <2>1. st' = [next EXCEPT !.heap = Alloc(next.heap, Len(buf))]
    BY <1>3 DEF PrintBuf
  <2>2. out' = out \o buf /\ status' = then
    BY <1>3 DEF PrintBuf, Prints
  <2>3. out' \in Text
    BY <1>1, <2>2, Joined
  <2> QED
    BY <1>2, <2>1, <2>2, <2>3 DEF HeadRec
<1>4. CASE ~Room(Len(buf))
  BY <1>1, <1>4 DEF PrintBuf, Trap
<1> QED
  BY <1>3, <1>4

(* A newline, the last one asked for or not.                               *)
LEMMA HeadLineInv ==
  ASSUME HeadInv, prog = "head", prog' = prog, NEW c \in Bytes, Getc(c), HeadLine(c)
  PROVE  HeadInv'
<1> DEFINE next == [st EXCEPT !.buf = <<>>, !.lines = @ + 1]
           then == IF next.lines >= st.max THEN "done" ELSE "reading"
<1>1. /\ read \in Text /\ out \in Text /\ st \in HeadRec
      /\ read' = Append(read, c) /\ status = "reading" /\ read' \in Text
      /\ c = NL /\ HEAD_BUF \in Nat
  BY FilterAssumption, Appended DEF HeadInv, HeadLine, Getc
<1>2. /\ next \in HeadRec /\ next.max = st.max /\ next.buf = <<>>
      /\ next.lines = st.lines + 1 /\ st.lines \in Nat /\ st.max \in Nat
  <2>1. <<>> \in Text
    BY DEF Text
  <2>2. st.lines \in Nat /\ st.max \in Nat /\ st.lines + 1 \in Nat
    BY <1>1 DEF HeadRec
  <2>3. \A e \in Text, m \in Nat :
          LET r == [st EXCEPT !.buf = e, !.lines = m]
          IN  r \in HeadRec /\ r.max = st.max /\ r.buf = e /\ r.lines = m
    BY <1>1 DEF HeadRec
  <2> QED
    BY <2>1, <2>2, <2>3
<1>3. HeadKeeps(c) \in Text
  BY <1>1, Appended DEF HeadKeeps, HeadRec
<1>4. \/ st.lines < st.max /\ PrintBuf(HeadKeeps(c), next, then)
      \/ ~(st.lines < st.max) /\ st' = next /\ status' = then /\ out' = out
  BY DEF HeadLine
<1> HIDE DEF next
<1>5. /\ st' \in HeadRec /\ out' \in Text /\ st'.max = st.max
      /\ \/ st.lines < st.max /\ out' = out /\ status' = "trapped"
         \/ /\ st.lines < st.max /\ out' = out \o HeadKeeps(c) /\ status' = then
            /\ st'.buf = <<>> /\ st'.lines = st.lines + 1
         \/ ~(st.lines < st.max) /\ out' = out /\ status' = then
  <2>1. CASE st.lines < st.max /\ PrintBuf(HeadKeeps(c), next, then)
    BY <1>2, <1>3, <2>1, HeadPrints
  <2>2. CASE ~(st.lines < st.max) /\ st' = next /\ status' = then /\ out' = out
    BY <1>1, <1>2, <2>2
  <2> QED
    BY <1>4, <2>1, <2>2
<1>6. then = IF st.lines + 1 >= st.max THEN "done" ELSE "reading"
  BY <1>2
<1> HIDE DEF then
<1>7. ASSUME LinesBelow(read', HEAD_BUF)
      PROVE  /\ IsPrefix(out', read')
             /\ Cardinality(Newlines(out')) <= st.max
             /\ Cardinality(Newlines(out')) = st.max => EndsLine(out')
             /\ status' = "done" => out' = read' \/ Cardinality(Newlines(out')) = st.max
             /\ status' = "reading" =>
                  /\ out' \o st'.buf = read' /\ NoNL(st'.buf) /\ EndsLine(out')
                  /\ st'.lines = Cardinality(Newlines(out'))
                  /\ st'.lines = 0 \/ st'.lines < st.max
  <2>1. /\ HeadKeeps(c) = Append(st.buf, c) /\ NoNL(st.buf) /\ EndsLine(out)
        /\ read' = out \o Append(st.buf, c) /\ out \o st.buf = read
        /\ st.lines = Cardinality(Newlines(out))
        /\ st.lines = 0 \/ st.lines < st.max
        /\ IsPrefix(out, read)
    BY <1>7, <1>1, HeadHolds DEF HeadInv, HeadPromise, Fits
  <2>2. IsPrefix(out, read')
    BY <2>1, <1>1, PrefixAppend
  <2>3. CASE out' = out /\ (status' = "trapped" \/ ~(st.lines < st.max))
    <3>1. Cardinality(Newlines(out)) <= st.max
      BY <2>1, <1>1, <1>2 DEF HeadInv, HeadPromise, Fits
    <3>2. status' # "reading"
      BY <1>2, <1>5, <1>6, <2>3
    <3>3. status' = "done" => Cardinality(Newlines(out)) = st.max
      BY <1>2, <2>1, <2>3
    <3> QED
      BY <2>1, <2>2, <2>3, <3>1, <3>2, <3>3
  <2>4. CASE /\ st.lines < st.max /\ out' = out \o HeadKeeps(c) /\ status' = then
             /\ st'.buf = <<>> /\ st'.lines = st.lines + 1
    <3>1. out' = read' /\ out' = Append(read, c)
      BY <2>1, <2>4, <1>1
    <3>2. IsPrefix(out', read')
      <4>1. \A i \in 1 .. Len(out') : out'[i] = read'[i]
        BY <3>1
      <4>2. Len(out') <= Len(read')
        BY <3>1, <1>1 DEF Text
      <4> QED
        BY <4>1, <4>2, <1>1, <1>5, PrefixMeans
    <3>3. EndsLine(out')
      BY <3>1, <1>1, Appended DEF EndsLine
    <3>4. Cardinality(Newlines(out')) = st.lines + 1
      <4>1. st.buf \in Text
        BY <1>1 DEF HeadRec
      <4>2. Newlines(read) = Newlines(out)
        BY <2>1, <1>1, <4>1, NewlinesJoin
      <4>3. Cardinality(Newlines(Append(read, c))) = Cardinality(Newlines(read)) + 1
        BY <1>1, NewlinesAppend
      <4> QED
        BY <4>2, <4>3, <3>1, <2>1
    <3>5. out' \o st'.buf = read' /\ NoNL(st'.buf)
      BY <2>4, <3>1, <1>5, ConcatEmptySeq DEF NoNL, Text
    <3> QED
      BY <2>4, <3>1, <3>2, <3>3, <3>4, <3>5, <1>2, <1>6
  <2> QED
    BY <1>5, <2>3, <2>4
<1> QED
  BY <1>1, <1>5, <1>7 DEF HeadInv, HeadPromise, Fits

(* The end of the input.                                                   *)
LEMMA HeadEofInv ==
  ASSUME HeadInv, prog = "head", prog' = prog, Eof, HeadEof
  PROVE  HeadInv'
<1>1. /\ read \in Text /\ out \in Text /\ st \in HeadRec
      /\ read' = read /\ status = "reading" /\ st.buf \in Text
      /\ st.lines \in Nat /\ st.max \in Nat
  BY DEF HeadInv, Eof, HeadRec
<1>2. /\ st' \in HeadRec /\ out' \in Text /\ st'.max = st.max /\ status' # "reading"
      /\ \/ st.lines < st.max /\ out' = out /\ status' = "trapped"
         \/ st.lines < st.max /\ out' = out \o st.buf
         \/ (st.buf = <<>> \/ ~(st.lines < st.max)) /\ out' = out
  <2>1. CASE st.buf # <<>> /\ st.lines < st.max
    <3>1. PrintBuf(st.buf, st, "done")
      BY <2>1 DEF HeadEof
    <3> QED
      BY <1>1, <2>1, <3>1, HeadPrints
  <2>2. CASE ~(st.buf # <<>> /\ st.lines < st.max)
    <3>1. status' = "done" /\ st' = st /\ out' = out
      BY <2>2 DEF HeadEof
    <3> QED
      BY <1>1, <2>2, <3>1
  <2> QED
    BY <2>1, <2>2
<1>3. ASSUME Fits(HEAD_BUF)
      PROVE  /\ IsPrefix(out', read)
             /\ Cardinality(Newlines(out')) <= st.max
             /\ Cardinality(Newlines(out')) = st.max => EndsLine(out')
             /\ status' = "done" => out' = read \/ Cardinality(Newlines(out')) = st.max
  <2>1. /\ NoNL(st.buf) /\ EndsLine(out) /\ out \o st.buf = read
        /\ st.lines = Cardinality(Newlines(out))
        /\ st.lines = 0 \/ st.lines < st.max
        /\ IsPrefix(out, read) /\ Cardinality(Newlines(out)) <= st.max
    BY <1>3, <1>1 DEF HeadInv, HeadPromise, Fits
  <2>2. CASE st.lines < st.max /\ out' = out \o st.buf
    <3>1. out' = read
      BY <2>1, <2>2
    <3>2. IsPrefix(out', read)
      <4>1. \A i \in 1 .. Len(read) : read[i] = read[i]
        OBVIOUS
      <4>2. Len(read) <= Len(read)
        BY <1>1 DEF Text
      <4> QED
        BY <4>1, <4>2, <3>1, <1>1, PrefixMeans
    <3>3. Newlines(out') = Newlines(out)
      BY <2>1, <2>2, <1>1, NewlinesJoin
    <3> QED
      BY <2>1, <2>2, <3>1, <3>2, <3>3, <1>1
  <2>3. CASE out' = out /\ (status' = "trapped" \/ ~(st.lines < st.max))
    BY <2>1, <2>3, <1>1
  <2>4. CASE st.buf = <<>> /\ out' = out
    <3>1. out = read
      BY <2>1, <2>4, <1>1, ConcatEmptySeq DEF Text
    <3> QED
      BY <2>1, <2>4, <3>1
  <2> QED
    BY <1>2, <2>2, <2>3, <2>4
<1> QED
  BY <1>1, <1>2, <1>3 DEF HeadInv, HeadPromise, Fits

(* Every step of head.                                                     *)
LEMMA HeadStep == HeadInv /\ HeadNext /\ prog' = prog => HeadInv'
BY HeadByteInv, HeadLineInv, HeadEofInv DEF HeadNext

-----------------------------------------------------------------------------
(* wc                                                                      *)
LEMMA WordStartsFinite ==
  ASSUME NEW s \in Text
  PROVE  IsFiniteSet(WordStarts(s)) /\ Cardinality(WordStarts(s)) \in Nat
<1>1. DOMAIN s = 1 .. Len(s) /\ Len(s) \in Nat
  BY DEF Text
<1>2. IsFiniteSet(1 .. Len(s)) /\ WordStarts(s) \in SUBSET (1 .. Len(s))
  BY <1>1, FS_Interval DEF WordStarts
<1> QED
  BY <1>2, FS_Subset, FS_CardinalityType

(* A character that is not blank begins a word unless one goes on.         *)
LEMMA WordStartsAppend ==
  ASSUME NEW s \in Text, NEW c \in Bytes
  PROVE  LET goesOn == s # <<>> /\ s[Len(s)] \notin Blanks
         IN  Cardinality(WordStarts(Append(s, c))) =
               Cardinality(WordStarts(s)) + (IF c \notin Blanks /\ ~goesOn THEN 1 ELSE 0)
<1> DEFINE goesOn == s # <<>> /\ s[Len(s)] \notin Blanks
           t == Append(s, c)
<1>1. /\ Len(s) \in Nat /\ DOMAIN s = 1 .. Len(s) /\ DOMAIN t = 1 .. Len(s) + 1
      /\ t[Len(s) + 1] = c /\ \A i \in 1 .. Len(s) : t[i] = s[i]
      /\ s = <<>> <=> Len(s) = 0
  BY Appended, EmptySeq DEF Text
<1> HIDE DEF t
<1>2. \A i \in 1 .. Len(s) : i \in WordStarts(t) <=> i \in WordStarts(s)
  BY <1>1 DEF WordStarts
<1>3. Len(s) + 1 \in WordStarts(t) <=> c \notin Blanks /\ ~goesOn
  BY <1>1 DEF WordStarts
<1>4. WordStarts(s) \subseteq 1 .. Len(s) /\ WordStarts(t) \subseteq 1 .. Len(s) + 1
  BY <1>1 DEF WordStarts
<1>5. CASE c \notin Blanks /\ ~goesOn
  <2>1. WordStarts(t) = WordStarts(s) \cup {Len(s) + 1}
    BY <1>1, <1>2, <1>3, <1>4, <1>5
  <2>2. Len(s) + 1 \notin WordStarts(s)
    BY <1>1, <1>4
  <2>3. Cardinality(WordStarts(t)) = Cardinality(WordStarts(s)) + 1
    BY <2>1, <2>2, WordStartsFinite, FS_AddElement
  <2> QED
    BY <1>5, <2>3 DEF t
<1>6. CASE ~(c \notin Blanks /\ ~goesOn)
  <2>4. Len(s) + 1 \notin WordStarts(t)
    BY <1>3, <1>6
  <2>5. ASSUME NEW i \in 1 .. Len(s) + 1 PROVE i \in WordStarts(t) <=> i \in WordStarts(s)
    <3>1. i \in 1 .. Len(s) \/ i = Len(s) + 1
      BY <1>1
    <3>2. Len(s) + 1 \notin WordStarts(s)
      BY <1>1, <1>4
    <3> QED
      BY <3>1, <3>2, <2>4, <1>2
  <2>6. WordStarts(s) \subseteq 1 .. Len(s) + 1
    BY <1>1, <1>4
  <2>1. WordStarts(t) = WordStarts(s)
    BY <2>5, <2>6, <1>4
  <2>2. Cardinality(WordStarts(s)) \in Nat
    BY WordStartsFinite
  <2>3. Cardinality(WordStarts(t)) = Cardinality(WordStarts(s)) + 0
    BY <2>1, <2>2
  <2> QED
    BY <1>6, <2>3 DEF t
<1> QED
  BY <1>5, <1>6

(* The counters start at nothing read.                                     *)
LEMMA WcBegins == ASSUME NEW show \in WcShows, WcInit(show), read = <<>>, out = <<>>,
                         status = "reading"
                  PROVE  WcInv
<1>1. WordStarts(<<>>) = {}
  BY DEF WordStarts
<1>2. <<>> \in Text /\ Len(<<>>) = 0
  BY DEF Text
<1>3. /\ st \in WcRec /\ st.lines = 0 /\ st.words = 0 /\ st.bytes = 0 /\ st.inWord = FALSE
  BY DEF WcInit, WcRec
<1> QED
  BY <1>1, <1>2, <1>3, NewlinesEmpty, FS_EmptySet DEF WcInv, WcPromise

(* Every step of wc: a byte or the end of the input.                       *)
LEMMA WcStep == WcInv /\ WcNext /\ prog' = prog => WcInv'
<1> SUFFICES ASSUME WcInv, WcNext, prog' = prog PROVE WcInv'
  OBVIOUS
<1>1. /\ prog = "wc" /\ st \in WcRec /\ read \in Text
      /\ status = "reading" => out = <<>>
      /\ st.lines = Cardinality(Newlines(read)) /\ st.words = Cardinality(WordStarts(read))
      /\ st.bytes = Len(read)
      /\ st.inWord <=> read # <<>> /\ read[Len(read)] \notin Blanks
  BY DEF WcInv, WcNext
<1>2. ASSUME NEW c \in Bytes, Getc(c), st' = WcCount(c), GoOn
      PROVE  WcInv'
  <2>1. /\ read' = Append(read, c) /\ status' = "reading" /\ out' = <<>>
    BY <1>1, <1>2 DEF Getc, GoOn
  <2>2. /\ read' \in Text /\ Len(read') = Len(read) + 1 /\ read' # <<>>
        /\ read'[Len(read')] = c /\ Len(read) \in Nat
    BY <1>1, <2>1, Appended
  <2>3. /\ st' \in WcRec /\ st'.bytes = st.bytes + 1 /\ st'.inWord = (c \notin Blanks)
        /\ st'.lines = IF c = NL THEN st.lines + 1 ELSE st.lines
        /\ st'.words = IF c \notin Blanks /\ ~st.inWord THEN st.words + 1 ELSE st.words
    <3> DEFINE l == IF c = NL THEN st.lines + 1 ELSE st.lines
               w == IF c \notin Blanks /\ ~st.inWord THEN st.words + 1 ELSE st.words
               g == c \notin Blanks
    <3>1. l \in Nat /\ w \in Nat /\ st.bytes + 1 \in Nat
      BY <1>1 DEF WcRec
    <3>2. g \in BOOLEAN
      OBVIOUS
    <3>3. st' = [st EXCEPT !.bytes = st.bytes + 1, !.lines = l, !.words = w, !.inWord = g]
      BY <1>2 DEF WcCount
    <3> HIDE DEF l, w, g
    <3>4. /\ st' \in WcRec /\ st'.bytes = st.bytes + 1 /\ st'.inWord = g
          /\ st'.lines = l /\ st'.words = w
      BY <1>1, <3>1, <3>2, <3>3 DEF WcRec
    <3> QED
      BY <3>4 DEF l, w, g
  <2>4. st'.lines = Cardinality(Newlines(read'))
    BY <1>1, <2>1, <2>3, NewlinesAppend
  <2>5. st'.words = Cardinality(WordStarts(read'))
    <3>1. Cardinality(WordStarts(read)) \in Nat
      BY <1>1, WordStartsFinite
    <3>2. Cardinality(WordStarts(read')) =
            Cardinality(WordStarts(read))
              + (IF c \notin Blanks /\ ~(read # <<>> /\ read[Len(read)] \notin Blanks)
                 THEN 1 ELSE 0)
      BY <1>1, <2>1, WordStartsAppend
    <3> QED
      BY <1>1, <2>3, <3>1, <3>2
  <2> QED
    BY <1>1, <2>1, <2>2, <2>3, <2>4, <2>5 DEF WcInv, WcPromise
<1>3. CASE Eof /\ Prints(WcShown(st.lines, st.words, st.bytes))
               /\ status' = "done" /\ UNCHANGED st
  <2>1. /\ read' = read /\ st' = st /\ status = "reading"
        /\ status' = "done" /\ out = <<>>
        /\ out' = out \o WcShown(st.lines, st.words, st.bytes)
    BY <1>1, <1>3 DEF Eof, Prints
  <2>2. WcShown(st.lines, st.words, st.bytes) \in Seq({"l", "w", "c"} \X Nat)
    <3>1. st.lines \in Nat /\ st.words \in Nat /\ st.bytes \in Nat
      BY <1>1 DEF WcRec
    <3> QED
      BY <3>1 DEF WcShown
  <2>3. out' = WcShown(st.lines, st.words, st.bytes)
    BY <2>1, <2>2, ConcatEmptySeq
  <2>4. WcShown(st.lines, st.words, st.bytes)' = WcShown(st.lines, st.words, st.bytes)
    BY <2>1 DEF WcShown
  <2> QED
    BY <1>1, <2>1, <2>3, <2>4 DEF WcInv, WcPromise
<1> QED
  BY <1>2, <1>3 DEF WcNext

-----------------------------------------------------------------------------
(* What is left of a text without some of its positions.                   *)
LEMMA PartFinite ==
  ASSUME NEW n \in Nat, NEW S \in SUBSET (1 .. n)
  PROVE  IsFiniteSet(S) /\ Cardinality(S) \in 0 .. n
<1>1. IsFiniteSet(1 .. n) /\ Cardinality(1 .. n) = n
  BY FS_Interval
<1>2. IsFiniteSet(S) /\ Cardinality(S) <= n
  BY <1>1, FS_Subset
<1> QED
  BY <1>2, FS_CardinalityType

(* A set of positions and the position behind them.                        *)
LEMMA PartSets ==
  ASSUME NEW n \in Nat, NEW S \in SUBSET (1 .. n)
  PROVE  /\ n + 1 \notin S /\ S \cap (1 .. n) = S /\ S \cap (1 .. n + 1) = S
         /\ \A i \in 1 .. n : (S \cup {n + 1}) \cap (1 .. i) = S \cap (1 .. i)
<1>1. \A i \in S : i \in Int /\ 1 <= i /\ i <= n
  OBVIOUS
<1>2. n + 1 \notin S
  BY <1>1
<1>3. S \cap (1 .. n) = S
  OBVIOUS
<1>4. S \cap (1 .. n + 1) = S
  <2>1. \A i \in S : i \in 1 .. n + 1
    BY <1>1
  <2> QED
    BY <2>1
<1>5. ASSUME NEW i \in 1 .. n PROVE (S \cup {n + 1}) \cap (1 .. i) = S \cap (1 .. i)
  <2>1. n + 1 \notin 1 .. i
    OBVIOUS
  <2> QED
    BY <2>1
<1> QED
  BY <1>2, <1>3, <1>4, <1>5

(* How many positions of a set are at most i.                              *)
LEMMA PartBelow ==
  ASSUME NEW n \in Nat, NEW S \in SUBSET (1 .. n), NEW i \in 0 .. n
  PROVE  IsFiniteSet(S \cap (1 .. i)) /\ Cardinality(S \cap (1 .. i)) \in 0 .. i
<1>1. i \in Nat /\ S \cap (1 .. i) \in SUBSET (1 .. i)
  OBVIOUS
<1> QED
  BY <1>1, PartFinite

(* The place of a position that stays.                                     *)
LEMMA Place ==
  ASSUME NEW n \in Nat, NEW S \in SUBSET (1 .. n), NEW i \in (1 .. n) \ S
  PROVE  i - Cardinality(S \cap (1 .. i)) \in 1 .. n - Cardinality(S)
<1> DEFINE A == S \cap (1 .. i)
           B == S \cap (i + 1 .. n)
<1>1. IsFiniteSet(A) /\ Cardinality(A) \in Nat
  BY PartBelow
<1>2. Cardinality(A) <= i - 1
  <2>1. A = S \cap (1 .. i - 1) /\ i - 1 \in 0 .. n
    OBVIOUS
  <2>2. Cardinality(S \cap (1 .. i - 1)) \in 0 .. i - 1
    BY <2>1, PartBelow
  <2> QED
    BY <2>1, <2>2
<1>3. IsFiniteSet(B) /\ Cardinality(B) \in Nat /\ Cardinality(B) <= n - i
  <2>1. IsFiniteSet(i + 1 .. n) /\ Cardinality(i + 1 .. n) = n - i
    <3>1. i + 1 \in Int /\ n \in Int
      OBVIOUS
    <3>2. IsFiniteSet(i + 1 .. n) /\ Cardinality(i + 1 .. n) = IF i + 1 > n THEN 0 ELSE n - (i + 1) + 1
      BY <3>1, FS_Interval
    <3> QED
      BY <3>2
  <2>2. B \in SUBSET (i + 1 .. n)
    OBVIOUS
  <2>3. IsFiniteSet(B) /\ Cardinality(B) <= n - i
    BY <2>1, <2>2, FS_Subset
  <2> QED
    BY <2>3, FS_CardinalityType
<1>4. S = A \cup B /\ A \cap B = {}
  <2>1. \A j \in S : (j \in 1 .. i \/ j \in i + 1 .. n) /\ ~(j \in 1 .. i /\ j \in i + 1 .. n)
    OBVIOUS
  <2> QED
    BY <2>1
<1>5. Cardinality(S) = Cardinality(A) + Cardinality(B)
  <2>1. Cardinality(A \cup B) = Cardinality(A) + Cardinality(B) - Cardinality(A \cap B)
    BY <1>1, <1>3, FS_Union
  <2> QED
    BY <2>1, <1>1, <1>3, <1>4, FS_EmptySet
<1> HIDE DEF A, B
<1>6. i - Cardinality(A) \in 1 .. n - Cardinality(S)
  BY <1>1, <1>2, <1>3, <1>5
<1> QED
  BY <1>6 DEF A

(* A byte that comes to both stays.                                        *)
LEMMA WithoutAppend ==
  ASSUME NEW t \in Text, NEW s \in Text, NEW c \in Bytes, NEW S \in SUBSET (1 .. Len(s)),
         IsWithout(t, s, S)
  PROVE  IsWithout(Append(t, c), Append(s, c), S)
<1>1. /\ Len(s) \in Nat /\ Len(t) \in Nat /\ Len(t) = Len(s) - Cardinality(S)
      /\ Len(Append(s, c)) = Len(s) + 1 /\ Len(Append(t, c)) = Len(t) + 1
      /\ DOMAIN s = 1 .. Len(s) /\ DOMAIN Append(s, c) = 1 .. Len(s) + 1
      /\ Append(s, c)[Len(s) + 1] = c /\ \A i \in 1 .. Len(s) : Append(s, c)[i] = s[i]
      /\ Append(t, c)[Len(t) + 1] = c /\ \A i \in 1 .. Len(t) : Append(t, c)[i] = t[i]
  BY Appended DEF IsWithout
<1>2. Cardinality(S) \in Nat
  <2>1. Cardinality(S) \in 0 .. Len(s)
    BY <1>1, PartFinite
  <2> QED
    BY <2>1, <1>1
<1>3. Len(Append(t, c)) = Len(Append(s, c)) - Cardinality(S)
  BY <1>1, <1>2
<1>4. ASSUME NEW i \in (1 .. Len(s)) \ S
      PROVE  Append(t, c)[i - Cardinality(S \cap (1 .. i))] = Append(s, c)[i]
  <2>1. i - Cardinality(S \cap (1 .. i)) \in 1 .. Len(t)
    BY <1>1, Place
  <2>2. t[i - Cardinality(S \cap (1 .. i))] = s[i]
    BY <1>1 DEF IsWithout
  <2> QED
    BY <1>1, <2>1, <2>2
<1>5. Append(t, c)[(Len(s) + 1) - Cardinality(S \cap (1 .. Len(s) + 1))] = Append(s, c)[Len(s) + 1]
  <2>1. S \cap (1 .. Len(s) + 1) = S
    BY <1>1, PartSets
  <2>2. (Len(s) + 1) - Cardinality(S) = Len(t) + 1
    BY <1>1, <1>2
  <2> QED
    BY <1>1, <2>1, <2>2
<1>6. ASSUME NEW i \in DOMAIN Append(s, c) \ S
      PROVE  Append(t, c)[i - Cardinality(S \cap (1 .. i))] = Append(s, c)[i]
  <2>1. i \in (1 .. Len(s)) \ S \/ i = Len(s) + 1
    BY <1>1
  <2>2. CASE i \in (1 .. Len(s)) \ S
    BY <2>2, <1>4
  <2>3. CASE i = Len(s) + 1
    BY <2>3, <1>5
  <2> QED
    BY <2>1, <2>2, <2>3
<1> QED
  BY <1>3, <1>6 DEF IsWithout

(* A byte that comes to the second goes.                                   *)
LEMMA WithoutMore ==
  ASSUME NEW t \in Text, NEW s \in Text, NEW c \in Bytes, NEW S \in SUBSET (1 .. Len(s)),
         IsWithout(t, s, S)
  PROVE  IsWithout(t, Append(s, c), S \cup {Len(s) + 1})
<1>1. /\ Len(s) \in Nat /\ Len(t) \in Nat /\ Len(t) = Len(s) - Cardinality(S)
      /\ Len(Append(s, c)) = Len(s) + 1
      /\ DOMAIN s = 1 .. Len(s) /\ DOMAIN Append(s, c) = 1 .. Len(s) + 1
      /\ \A i \in 1 .. Len(s) : Append(s, c)[i] = s[i]
  BY Appended DEF IsWithout
<1>2. IsFiniteSet(S) /\ Cardinality(S) \in 0 .. Len(s) /\ Len(s) + 1 \notin S
  BY <1>1, PartFinite, PartSets
<1>3. Cardinality(S \cup {Len(s) + 1}) = Cardinality(S) + 1
  BY <1>2, FS_AddElement
<1>4. \A i \in 1 .. Len(s) : (S \cup {Len(s) + 1}) \cap (1 .. i) = S \cap (1 .. i)
  BY <1>1, PartSets
<1>5. DOMAIN Append(s, c) \ (S \cup {Len(s) + 1}) = (1 .. Len(s)) \ S
  BY <1>1
<1>6. \A i \in (1 .. Len(s)) \ S : t[i - Cardinality(S \cap (1 .. i))] = s[i]
  BY <1>1 DEF IsWithout
<1>7. Len(t) = Len(Append(s, c)) - Cardinality(S \cup {Len(s) + 1})
  BY <1>1, <1>2, <1>3
<1>8. ASSUME NEW i \in (1 .. Len(s)) \ S
      PROVE  t[i - Cardinality((S \cup {Len(s) + 1}) \cap (1 .. i))] = Append(s, c)[i]
  <2>1. (S \cup {Len(s) + 1}) \cap (1 .. i) = S \cap (1 .. i)
    BY <1>4
  <2> QED
    BY <2>1, <1>1, <1>6
<1> QED
  BY <1>5, <1>7, <1>8 DEF IsWithout

(* The beginning of a text without positions in it.                        *)
LEMMA WithoutBefore ==
  ASSUME NEW t \in Text, NEW s \in Text, NEW b \in Text, NEW S \in SUBSET (1 .. Len(s)),
         IsWithout(t, s \o b, S)
  PROVE  /\ Len(s) - Cardinality(S) \in 0 .. Len(t)
         /\ IsWithout(SubSeq(t, 1, Len(s) - Cardinality(S)), s, S)
<1> DEFINE n == Len(s) - Cardinality(S)
<1>1. /\ Len(s) \in Nat /\ Len(t) \in Nat /\ Len(b) \in Nat
      /\ Len(t) = (Len(s) + Len(b)) - Cardinality(S)
      /\ DOMAIN s = 1 .. Len(s) /\ DOMAIN (s \o b) = 1 .. Len(s) + Len(b)
      /\ \A i \in 1 .. Len(s) : (s \o b)[i] = s[i]
  <2>1. /\ s \o b \in Text /\ Len(s \o b) = Len(s) + Len(b)
        /\ \A i \in 1 .. Len(s) : (s \o b)[i] = s[i]
    BY Joined
  <2>2. DOMAIN (s \o b) = 1 .. Len(s \o b) /\ DOMAIN s = 1 .. Len(s)
    BY <2>1 DEF Text
  <2>3. Len(s) \in Nat /\ Len(t) \in Nat /\ Len(b) \in Nat
    BY DEF Text
  <2>4. Len(t) = Len(s \o b) - Cardinality(S)
    BY DEF IsWithout
  <2>5. Len(t) = (Len(s) + Len(b)) - Cardinality(S) /\ DOMAIN (s \o b) = 1 .. Len(s) + Len(b)
    BY <2>1, <2>2, <2>4
  <2> QED
    BY <2>1, <2>2, <2>3, <2>5
<1>2. Cardinality(S) \in 0 .. Len(s)
  <2>1. S \cap (1 .. Len(s)) = S
    OBVIOUS
  <2> QED
    BY <1>1, <2>1, PartFinite
<1>3. n \in 0 .. Len(t)
  BY <1>1, <1>2
<1>4. /\ Len(SubSeq(t, 1, n)) = n /\ \A i \in 1 .. n : SubSeq(t, 1, n)[i] = t[i]
  BY <1>1, <1>3 DEF Text
<1>5. \A i \in (1 .. Len(s)) \ S : i - Cardinality(S \cap (1 .. i)) \in 1 .. n
  BY <1>1, Place
<1>6. \A i \in (1 .. Len(s)) \ S : t[i - Cardinality(S \cap (1 .. i))] = (s \o b)[i]
  BY <1>1 DEF IsWithout
<1> HIDE DEF n
<1>7. IsWithout(SubSeq(t, 1, n), s, S)
  <2>1. Len(SubSeq(t, 1, n)) = Len(s) - Cardinality(S)
    BY <1>4 DEF n
  <2> QED
    BY <2>1, <1>1, <1>4, <1>5, <1>6 DEF IsWithout
<1> QED
  BY <1>3, <1>7 DEF n

(* Lines stay short when a short piece comes behind a newline, or another  *)
(* newline behind that.                                                    *)
LEMMA LinesJoin ==
  ASSUME NEW s \in Text, NEW b \in Text, NEW n \in Nat, LinesBelow(s, n), EndsLine(s),
         Len(b) < n
  PROVE  LinesBelow(s \o b, n)
<1> SUFFICES ASSUME NEW i \in 0 .. Len(s \o b) - n PROVE \E k \in 1 .. n : (s \o b)[i + k] = NL
  BY DEF LinesBelow
<1>1. /\ Len(s) \in Nat /\ Len(b) \in Nat /\ Len(s \o b) = Len(s) + Len(b)
      /\ \A j \in 1 .. Len(s) : (s \o b)[j] = s[j]
  BY Joined
<1>2. CASE i <= Len(s) - n
  <2>1. i \in 0 .. Len(s) - n
    BY <1>1, <1>2
  <2>2. PICK k \in 1 .. n : s[i + k] = NL
    BY <2>1 DEF LinesBelow
  <2>3. i + k \in 1 .. Len(s)
    BY <1>1, <2>1
  <2> QED
    BY <1>1, <2>2, <2>3
<1>3. CASE ~(i <= Len(s) - n)
  <2>1. Len(s) - i \in 1 .. n /\ i + (Len(s) - i) = Len(s) /\ Len(s) \in 1 .. Len(s)
    BY <1>1, <1>3
  <2>2. s[Len(s)] = NL
    BY <2>1, <1>1 DEF EndsLine, Text
  <2> QED
    BY <1>1, <2>1, <2>2
<1> QED
  BY <1>2, <1>3

(* Lines that fit still do with a newline behind them.                     *)
LEMMA LinesEnd ==
  ASSUME NEW s \in Text, NEW n \in Nat \ {0}, LinesBelow(s, n)
  PROVE  LinesBelow(Append(s, NL), n)
<1> SUFFICES ASSUME NEW i \in 0 .. Len(Append(s, NL)) - n
             PROVE  \E k \in 1 .. n : Append(s, NL)[i + k] = NL
  BY DEF LinesBelow
<1>1. /\ Len(s) \in Nat /\ Len(Append(s, NL)) = Len(s) + 1
      /\ Append(s, NL)[Len(s) + 1] = NL
      /\ \A j \in 1 .. Len(s) : Append(s, NL)[j] = s[j]
  BY NLIs, Appended
<1>2. CASE i <= Len(s) - n
  <2>1. i \in 0 .. Len(s) - n
    BY <1>1, <1>2
  <2>2. PICK k \in 1 .. n : s[i + k] = NL
    BY <2>1 DEF LinesBelow
  <2>3. i + k \in 1 .. Len(s)
    BY <1>1, <2>1
  <2> QED
    BY <1>1, <2>2, <2>3
<1>3. CASE ~(i <= Len(s) - n)
  <2>1. i + n = Len(s) + 1 /\ n \in 1 .. n
    BY <1>1, <1>3
  <2> QED
    BY <1>1, <2>1
<1> QED
  BY <1>2, <1>3

-----------------------------------------------------------------------------
(* fold                                                                    *)
LEMMA NewlinesStay ==
  ASSUME NEW s \in Text, NEW b \in Text, NEW c \in Bytes
  PROVE  /\ Newlines(s) \subseteq Newlines(s \o b)
         /\ Newlines(s) \subseteq Newlines(Append(s, c))
         /\ Newlines(s) \in SUBSET (1 .. Len(s))
<1>1. DOMAIN s = 1 .. Len(s) /\ Len(s) \in Nat
  BY DEF Text
<1>2. /\ DOMAIN (s \o b) = 1 .. Len(s) + Len(b) /\ Len(b) \in Nat
      /\ \A i \in 1 .. Len(s) : (s \o b)[i] = s[i]
  <2>1. s \o b \in Text /\ Len(s \o b) = Len(s) + Len(b)
    BY Joined
  <2>2. DOMAIN (s \o b) = 1 .. Len(s \o b)
    BY <2>1 DEF Text
  <2> QED
    BY <2>1, <2>2, Joined
<1>3. 1 .. Len(s) \subseteq 1 .. Len(s) + Len(b)
  BY <1>1, <1>2
<1>4. Newlines(s) \subseteq Newlines(s \o b)
  BY <1>1, <1>2, <1>3 DEF Newlines
<1>5. Newlines(s) \subseteq Newlines(Append(s, c))
  BY <1>1, Appended DEF Newlines
<1>6. Newlines(s) \in SUBSET (1 .. Len(s))
  BY <1>1 DEF Newlines
<1> QED
  BY <1>4, <1>5, <1>6

(* The line that is printed is there, with its newline or without it.      *)
LEMMA LinePrinted ==
  ASSUME out \in Text, NEW text \in Text, NEW next, NEW then, PrintLine(text, next, then)
  PROVE  /\ st' = [next EXCEPT !.heap = Alloc(@, 1)] /\ out' \in Text
         /\ \/ out' = out \o text /\ status' = "trapped"
            \/ out' = Append(out \o text, NL) /\ status' = then
<1>1. out \o text \in Text
  BY Joined
<1>2. st' = [next EXCEPT !.heap = Alloc(@, 1)]
  BY DEF PrintLine
<1>3. CASE Room(1)
  <2>1. out' = out \o Append(text, NL) /\ status' = then
    BY <1>3 DEF PrintLine, Prints
  <2>2. out' = Append(out \o text, NL)
    BY <2>1, NLIs, JoinAppend
  <2>3. out' \in Text
    BY <2>2, <1>1, NLIs, Appended
  <2> QED
    BY <1>2, <2>1, <2>2, <2>3
<1>4. CASE ~Room(1)
  <2>1. out' = out \o text /\ status' = "trapped"
    BY <1>4 DEF PrintLine, Prints
  <2> QED
    BY <1>1, <1>2, <2>1
<1> QED
  BY <1>3, <1>4

(* Nothing is printed and the buffer is empty.                             *)
LEMMA FoldBegins == ASSUME NEW w \in Widths, FoldInit(w), read = <<>>, out = <<>>,
                           status = "reading"
                    PROVE  FoldInv
<1>1. w \in Nat \ {0} /\ MAX_ARGV \in Nat
  BY FilterAssumption
<1>2. Alloc(ArgvEnd, w) \in Nat
  BY <1>1, AllocNat DEF ArgvEnd
<1>3. <<>> \in Text /\ Len(<<>>) = 0 /\ DOMAIN <<>> = {} /\ <<>> \o <<>> = <<>>
  BY DEF Text
<1>4. st \in FoldRec /\ st.buf = <<>> /\ st.width = w
  BY <1>1, <1>2, <1>3 DEF FoldInit, FoldRec
<1>5. LinesBelow(out, st.width + 1)
  BY <1>1, <1>3, <1>4 DEF LinesBelow
<1>6. Folded(Len(read), out \o st.buf)
  <2>1. IsWithout(SubSeq(<<>>, 1, 0), <<>>, {})
    <3>1. SubSeq(<<>>, 1, 0) = <<>>
      BY SubSeqFull, <1>3 DEF Text
    <3> QED
      BY <3>1, <1>3, FS_EmptySet DEF IsWithout
  <2> QED
    BY <2>1, <1>3, <1>4 DEF Folded
<1> QED
  BY <1>1, <1>3, <1>4, <1>5, <1>6 DEF FoldInv, NoNL, EndsLine

(* What has been read is what has been printed and waits, without the      *)
(* newlines that were added.                                               *)
LEMMA FoldHolds ==
  ASSUME FoldInv, prog = "fold", status = "reading"
  PROVE  /\ st \in FoldRec /\ read \in Text /\ out \in Text /\ st.buf \in Text
         /\ st.width \in Nat \ {0}
         /\ LinesBelow(out, st.width + 1)
         /\ NoNL(st.buf) /\ EndsLine(out) /\ Len(st.buf) < st.width
         /\ LinesBelow(out \o st.buf, st.width + 1)
         /\ out \o st.buf \in Text
         /\ \E added \in SUBSET Newlines(out) : IsWithout(read, out \o st.buf, added)
         /\ Newlines(out) \subseteq 1 .. Len(out \o st.buf)
<1>1. /\ st \in FoldRec /\ read \in Text /\ out \in Text /\ st.buf \in Text
      /\ st.width \in Nat \ {0} /\ LinesBelow(out, st.width + 1)
      /\ NoNL(st.buf) /\ EndsLine(out) /\ Len(st.buf) < st.width
      /\ Folded(Len(read), out \o st.buf)
  BY DEF FoldInv, FoldRec
<1>2. SubSeq(read, 1, Len(read)) = read
  BY <1>1, SubSeqFull DEF Text
<1>3. out \o st.buf \in Text
  BY <1>1, Joined
<1>4. LinesBelow(out \o st.buf, st.width + 1)
  <2>1. st.width + 1 \in Nat /\ Len(st.buf) < st.width + 1
    BY <1>1 DEF Text
  <2> QED
    BY <1>1, <2>1, LinesJoin
<1>5. Newlines(out) \subseteq 1 .. Len(out \o st.buf)
  <2>1. Newlines(out) \in SUBSET (1 .. Len(out)) /\ Len(out \o st.buf) = Len(out) + Len(st.buf)
        /\ Len(out) \in Nat /\ Len(st.buf) \in Nat
    BY <1>1, NewlinesStay, NLIs, Joined
  <2>2. 1 .. Len(out) \subseteq 1 .. Len(out) + Len(st.buf)
    BY <2>1
  <2> QED
    BY <2>1, <2>2
<1> QED
  BY <1>1, <1>2, <1>3, <1>4, <1>5 DEF Folded

(* The promise follows from what is waiting to be printed.                 *)
LEMMA FoldKeepsPromise == FoldInv => FoldPromise
<1> SUFFICES ASSUME FoldInv, prog = "fold"
             PROVE  \E added \in SUBSET Newlines(out) :
                      LET n == Len(out) - Cardinality(added)
                      IN  /\ n <= Len(read)
                          /\ IsWithout(SubSeq(read, 1, n), out, added)
                          /\ status = "done" => n = Len(read)
  BY DEF FoldInv, FoldPromise
<1>1. read \in Text /\ out \in Text /\ Len(out) \in Nat /\ Len(read) \in Nat
  BY DEF FoldInv, Text
<1>2. Newlines(out) \in SUBSET (1 .. Len(out))
  BY <1>1, NLIs, NewlinesStay
<1>3. CASE status = "reading"
  <2>1. st.buf \in Text
    BY <1>3, FoldHolds
  <2>2. PICK added \in SUBSET Newlines(out) : IsWithout(read, out \o st.buf, added)
    BY <1>3, FoldHolds
  <2>3. added \in SUBSET (1 .. Len(out))
    BY <1>2
  <2>4. /\ Len(out) - Cardinality(added) \in 0 .. Len(read)
        /\ IsWithout(SubSeq(read, 1, Len(out) - Cardinality(added)), out, added)
    BY <1>1, <2>1, <2>2, <2>3, WithoutBefore
  <2> QED
    BY <1>1, <1>3, <2>4
<1>4. CASE status # "reading"
  <2>1. PICK n \in 0 .. Len(read) : Folded(n, out) /\ (status = "done" => n = Len(read))
    BY <1>4 DEF FoldInv
  <2>2. PICK added \in SUBSET Newlines(out) : IsWithout(SubSeq(read, 1, n), out, added)
    BY <2>1 DEF Folded
  <2>3. Len(SubSeq(read, 1, n)) = n
    BY <1>1, <2>1 DEF Text
  <2>4. n = Len(out) - Cardinality(added)
    BY <2>2, <2>3 DEF IsWithout
  <2>5. Len(out) - Cardinality(added) <= Len(read)
    BY <2>1, <2>4, <1>1
  <2> QED
    BY <2>1, <2>2, <2>4, <2>5
<1> QED
  BY <1>3, <1>4

(* A byte that fits the line.                                              *)
LEMMA FoldByteInv ==
  ASSUME FoldInv, prog = "fold", prog' = prog, NEW c \in Bytes, Getc(c), FoldByte(c)
  PROVE  FoldInv'
<1>1. /\ status = "reading" /\ status' = status /\ out' = out /\ read' = Append(read, c)
      /\ c # NL /\ ~FoldFull /\ st' = [st EXCEPT !.buf = Append(@, c)]
  BY DEF Getc, FoldByte, GoOn
<1>2. /\ st \in FoldRec /\ read \in Text /\ out \in Text /\ st.buf \in Text
      /\ st.width \in Nat \ {0} /\ NoNL(st.buf) /\ EndsLine(out)
      /\ LinesBelow(out, st.width + 1) /\ out \o st.buf \in Text
  BY <1>1, FoldHolds
<1>3. /\ read' \in Text /\ Append(st.buf, c) \in Text /\ Len(Append(st.buf, c)) = Len(st.buf) + 1
      /\ NoNL(Append(st.buf, c))
  <2>1. \A b \in Text : /\ Append(b, c) \in Text /\ Len(Append(b, c)) = Len(b) + 1
                        /\ NoNL(b) => NoNL(Append(b, c))
    BY <1>1, Appended DEF NoNL
  <2> QED
    BY <1>1, <1>2, <2>1
<1>4. /\ st' \in FoldRec /\ st'.buf = Append(st.buf, c) /\ st'.width = st.width
      /\ Len(st'.buf) < st'.width
  <2>1. Len(st.buf) \in Nat /\ Len(st.buf) + 1 < st.width
    BY <1>1, <1>2 DEF FoldFull, Text
  <2> QED
    BY <2>1, <1>1, <1>2, <1>3 DEF FoldRec
<1>5. Folded(Len(read), out \o st.buf)'
  <2>1. PICK added \in SUBSET Newlines(out) : IsWithout(read, out \o st.buf, added)
    BY <1>1, FoldHolds
  <2>2. added \in SUBSET (1 .. Len(out \o st.buf))
    BY <1>1, FoldHolds
  <2>3. IsWithout(Append(read, c), Append(out \o st.buf, c), added)
    BY <1>2, <2>1, <2>2, WithoutAppend
  <2>4. Append(out \o st.buf, c) = out' \o st'.buf
    <3>1. \A a, b \in Text : a \o Append(b, c) = Append(a \o b, c)
      BY JoinAppend
    <3> QED
      BY <1>1, <1>2, <1>4, <3>1
  <2>5. SubSeq(read', 1, Len(read')) = Append(read, c)
    BY <1>1, <1>3, SubSeqFull DEF Text
  <2> QED
    BY <1>1, <2>3, <2>4, <2>5 DEF Folded
<1> QED
  BY <1>1, <1>2, <1>3, <1>4, <1>5 DEF FoldInv

(* The end of the input prints what the buffer holds.                      *)
LEMMA FoldEofInv ==
  ASSUME FoldInv, prog = "fold", prog' = prog, Eof, FoldEof
  PROVE  FoldInv'
<1>1. /\ status = "reading" /\ status' = "done" /\ read' = read
      /\ out' = out \o st.buf /\ st' = st
  BY DEF Eof, FoldEof, Prints
<1>2. /\ st \in FoldRec /\ read \in Text /\ out \in Text /\ st.buf \in Text
      /\ LinesBelow(out \o st.buf, st.width + 1) /\ out \o st.buf \in Text
  BY <1>1, FoldHolds
<1>3. Folded(Len(read), out)'
  <2>1. PICK added \in SUBSET Newlines(out) : IsWithout(read, out \o st.buf, added)
    BY <1>1, FoldHolds
  <2>2. Newlines(out) \subseteq Newlines(out')
    BY <1>1, <1>2, NLIs, NewlinesStay
  <2>3. SubSeq(read', 1, Len(read')) = read
    BY <1>1, <1>2, SubSeqFull DEF Text
  <2> QED
    BY <1>1, <2>1, <2>2, <2>3 DEF Folded
<1>4. Len(read') \in 0 .. Len(read')
  BY <1>1, <1>2 DEF Text
<1> QED
  BY <1>1, <1>2, <1>3, <1>4 DEF FoldInv

(* The buffer is empty after it was printed.                               *)
LEMMA FoldEmptied ==
  ASSUME st \in FoldRec, st' = [[st EXCEPT !.buf = <<>>] EXCEPT !.heap = Alloc(@, 1)]
  PROVE  st' \in FoldRec /\ st'.width = st.width /\ st'.buf = <<>>
<1>1. st.heap \in Nat /\ <<>> \in Text
  BY DEF FoldRec, Text
<1>2. Alloc(st.heap, 1) \in Nat
  BY <1>1, AllocNat
<1>3. st' = [st EXCEPT !.buf = <<>>, !.heap = Alloc(st.heap, 1)]
  BY DEF FoldRec
<1>4. \A h \in Nat, b \in Text : LET r == [st EXCEPT !.buf = b, !.heap = h]
                                 IN  r \in FoldRec /\ r.width = st.width /\ r.buf = b
  BY DEF FoldRec
<1>5. LET r == [st EXCEPT !.buf = <<>>, !.heap = Alloc(st.heap, 1)]
      IN  r \in FoldRec /\ r.width = st.width /\ r.buf = <<>>
  BY <1>1, <1>2, <1>4
<1> QED
  BY <1>3, <1>5

(* The line is full: a newline is added.                                   *)
LEMMA FoldBreakInv ==
  ASSUME FoldInv, prog = "fold", prog' = prog, NEW c \in Bytes, Getc(c), FoldBreak(c)
  PROVE  FoldInv'
<1> DEFINE next == [st EXCEPT !.buf = <<>>]
           q == out \o Append(st.buf, c)
<1>1. /\ status = "reading" /\ read' = Append(read, c) /\ c # NL
      /\ PrintLine(Append(st.buf, c), next, "reading")
  BY DEF Getc, FoldBreak
<1>2. /\ st \in FoldRec /\ read \in Text /\ out \in Text /\ st.buf \in Text
      /\ st.width \in Nat \ {0} /\ EndsLine(out) /\ Len(st.buf) < st.width
      /\ LinesBelow(out, st.width + 1) /\ out \o st.buf \in Text
  BY <1>1, FoldHolds
<1>3. /\ read' \in Text /\ Append(st.buf, c) \in Text /\ Len(Append(st.buf, c)) = Len(st.buf) + 1
      /\ Len(st.buf) \in Nat
  BY <1>1, <1>2, Appended
<1>4. /\ st' = [next EXCEPT !.heap = Alloc(@, 1)] /\ out' \in Text
      /\ \/ out' = q /\ status' = "trapped"
         \/ out' = Append(q, NL) /\ status' = "reading"
  BY <1>1, <1>2, <1>3, LinePrinted
<1>5. st' \in FoldRec /\ st'.width = st.width /\ st'.buf = <<>>
  BY <1>2, <1>4, FoldEmptied
<1>6. q \in Text /\ LinesBelow(q, st.width + 1) /\ q = Append(out \o st.buf, c)
  <2>1. st.width + 1 \in Nat /\ Len(Append(st.buf, c)) < st.width + 1
    BY <1>2, <1>3
  <2>2. q \in Text
    BY <1>2, <1>3, Joined
  <2>3. LinesBelow(q, st.width + 1)
    BY <2>1, <1>2, <1>3, LinesJoin
  <2>4. \A a, b \in Text : a \o Append(b, c) = Append(a \o b, c)
    BY JoinAppend
  <2> QED
    BY <1>2, <2>2, <2>3, <2>4
<1>7. PICK added \in SUBSET Newlines(out) : IsWithout(read, out \o st.buf, added)
  BY <1>1, FoldHolds
<1>8. added \in SUBSET (1 .. Len(out \o st.buf)) /\ added \subseteq Newlines(q)
  <2>1. added \in SUBSET (1 .. Len(out \o st.buf))
    BY <1>1, FoldHolds
  <2>2. Newlines(out) \subseteq Newlines(q)
    BY <1>2, <1>3, NLIs, NewlinesStay
  <2> QED
    BY <2>1, <2>2
<1> HIDE DEF q, next
<1>9. IsWithout(read', q, added) /\ SubSeq(read', 1, Len(read')) = read'
  BY <1>1, <1>2, <1>3, <1>6, <1>7, <1>8, WithoutAppend, SubSeqFull DEF Text
<1>10. CASE out' = q /\ status' = "trapped"
  <2>1. Folded(Len(read), out)'
    BY <1>8, <1>9, <1>10 DEF Folded
  <2>2. Len(read') \in 0 .. Len(read')
    BY <1>3 DEF Text
  <2> QED
    BY <1>3, <1>4, <1>5, <1>6, <1>10, <2>1, <2>2 DEF FoldInv
<1>11. CASE out' = Append(q, NL) /\ status' = "reading"
  <2>1. added \in SUBSET (1 .. Len(q))
    BY <1>6, <1>8, NLIs, NewlinesStay
  <2>2. IsWithout(read', out', added \cup {Len(q) + 1})
    BY <1>3, <1>6, <1>9, <1>11, <2>1, NLIs, WithoutMore
  <2>3. Newlines(out') = Newlines(q) \cup {Len(q) + 1}
    BY <1>6, <1>11, NLIs, NewlinesAppend
  <2>4. out' \o st'.buf = out'
    BY <1>4, <1>5, ConcatEmptySeq DEF Text
  <2>5. Folded(Len(read), out \o st.buf)'
    <3>1. added \cup {Len(q) + 1} \in SUBSET Newlines(out')
      BY <1>8, <2>3
    <3> QED
      BY <1>9, <2>2, <2>4, <3>1 DEF Folded
  <2>6. LinesBelow(out', st'.width + 1)
    BY <1>2, <1>5, <1>6, <1>11, LinesEnd
  <2>7. EndsLine(out') /\ NoNL(st'.buf) /\ Len(st'.buf) < st'.width
    <3>1. EndsLine(out')
      BY <1>6, <1>11, NLIs, Appended DEF EndsLine
    <3>2. Len(<<>>) = 0 /\ st.width > 0
      BY <1>2
    <3> QED
      BY <3>1, <3>2, <1>5 DEF NoNL
  <2> QED
    BY <1>3, <1>4, <1>5, <1>11, <2>5, <2>6, <2>7 DEF FoldInv
<1> QED
  BY <1>4, <1>10, <1>11

(* The newline of the input.                                               *)
LEMMA FoldLineInv ==
  ASSUME FoldInv, prog = "fold", prog' = prog, NEW c \in Bytes, Getc(c), FoldLine(c)
  PROVE  FoldInv'
<1> DEFINE next == [st EXCEPT !.buf = <<>>]
           q == out \o st.buf
<1>1. /\ status = "reading" /\ read' = Append(read, c) /\ c = NL
      /\ PrintLine(st.buf, next, "reading")
  BY DEF Getc, FoldLine
<1>2. /\ st \in FoldRec /\ read \in Text /\ out \in Text /\ st.buf \in Text
      /\ st.width \in Nat \ {0} /\ LinesBelow(q, st.width + 1) /\ q \in Text
  BY <1>1, FoldHolds
<1>3. /\ read' \in Text /\ Len(read') = Len(read) + 1 /\ Len(read) \in Nat
      /\ \A i \in 1 .. Len(read) : read'[i] = read[i]
  BY <1>1, <1>2, Appended
<1>4. /\ st' = [next EXCEPT !.heap = Alloc(@, 1)] /\ out' \in Text
      /\ \/ out' = q /\ status' = "trapped"
         \/ out' = Append(q, NL) /\ status' = "reading"
  BY <1>1, <1>2, LinePrinted
<1>5. st' \in FoldRec /\ st'.width = st.width /\ st'.buf = <<>>
  BY <1>2, <1>4, FoldEmptied
<1>6. PICK added \in SUBSET Newlines(out) : IsWithout(read, q, added)
  BY <1>1, FoldHolds
<1>7. added \in SUBSET (1 .. Len(q)) /\ added \subseteq Newlines(q)
  BY <1>1, <1>2, NLIs, FoldHolds, NewlinesStay
<1> HIDE DEF q, next
<1>8. CASE out' = q /\ status' = "trapped"
  <2>1. SubSeq(read', 1, Len(read)) = read
    <3>1. /\ SubSeq(read', 1, Len(read)) \in Text
          /\ Len(SubSeq(read', 1, Len(read))) = Len(read)
          /\ \A i \in 1 .. Len(read) : SubSeq(read', 1, Len(read))[i] = read[i]
      BY <1>3 DEF Text
    <3> QED
      BY <1>2, <3>1, SeqEqual DEF Text
  <2>2. (\E n \in 0 .. Len(read) : Folded(n, out) /\ (status = "done" => n = Len(read)))'
    <3>1. \E S \in SUBSET Newlines(out') : IsWithout(SubSeq(read', 1, Len(read)), out', S)
      BY <1>6, <1>7, <1>8, <2>1
    <3>2. Len(read) \in 0 .. Len(read')
      BY <1>3
    <3> QED
      BY <1>8, <3>1, <3>2 DEF Folded
  <2> QED
    BY <1>2, <1>3, <1>4, <1>5, <1>8, <2>2 DEF FoldInv
<1>9. CASE out' = Append(q, NL) /\ status' = "reading"
  <2>1. IsWithout(read', out', added)
    BY <1>1, <1>2, <1>6, <1>7, <1>9, NLIs, WithoutAppend
  <2>2. Newlines(q) \subseteq Newlines(out')
    BY <1>2, <1>9, NLIs, NewlinesAppend
  <2>3. out' \o st'.buf = out' /\ SubSeq(read', 1, Len(read')) = read'
    BY <1>3, <1>4, <1>5, ConcatEmptySeq, SubSeqFull DEF Text
  <2>4. Folded(Len(read), out \o st.buf)'
    BY <1>7, <2>1, <2>2, <2>3 DEF Folded
  <2>5. LinesBelow(out', st'.width + 1)
    BY <1>2, <1>5, <1>9, LinesEnd
  <2>6. EndsLine(out') /\ NoNL(st'.buf) /\ Len(st'.buf) < st'.width
    <3>1. EndsLine(out')
      BY <1>2, <1>9, NLIs, Appended DEF EndsLine
    <3>2. Len(<<>>) = 0 /\ st.width > 0
      BY <1>2
    <3> QED
      BY <3>1, <3>2, <1>5 DEF NoNL
  <2> QED
    BY <1>3, <1>4, <1>5, <1>9, <2>4, <2>5, <2>6 DEF FoldInv
<1> QED
  BY <1>4, <1>8, <1>9

(* Every step of fold.                                                     *)
LEMMA FoldStep == FoldInv /\ FoldNext /\ prog' = prog => FoldInv'
BY FoldByteInv, FoldBreakInv, FoldLineInv, FoldEofInv DEF FoldNext

-----------------------------------------------------------------------------
(* rev                                                                     *)
LEMMA EndedMeans ==
  ASSUME NEW s \in Text
  PROVE  /\ Ended(s) \in Text /\ Len(s) \in Nat /\ Len(Ended(s)) \in Len(s) .. Len(s) + 1
         /\ \A i \in 1 .. Len(s) : Ended(s)[i] = s[i]
         /\ EndsLine(s) => Ended(s) = s
         /\ ~EndsLine(s) => Ended(s) = Append(s, NL)
         /\ s # <<>> => Ended(s)[Len(Ended(s))] = NL
<1>1. /\ Append(s, NL) \in Text /\ Len(Append(s, NL)) = Len(s) + 1 /\ Len(s) \in Nat
      /\ Append(s, NL)[Len(s) + 1] = NL
      /\ \A i \in 1 .. Len(s) : Append(s, NL)[i] = s[i]
  BY NLIs, Appended
<1>2. CASE EndsLine(s)
  <2>1. Ended(s) = s
    BY <1>2 DEF Ended
  <2>2. s # <<>> => s[Len(s)] = NL
    BY <1>2 DEF EndsLine
  <2> QED
    BY <1>1, <1>2, <2>1, <2>2
<1>3. CASE ~EndsLine(s)
  <2>1. Ended(s) = Append(s, NL)
    BY <1>3 DEF Ended
  <2> QED
    BY <1>1, <1>3, <2>1
<1> QED
  BY <1>2, <1>3

(* A text that ends as that one did: with c after it, or with the same end.*)
LEMMA EndedAppend ==
  ASSUME NEW s \in Text, NEW c \in Bytes
  PROVE  /\ \A i \in 1 .. Len(s) : Ended(Append(s, c))[i] = Ended(s)[i]
         /\ c = NL => Ended(Append(s, c)) = Append(s, NL)
         /\ Len(Ended(Append(s, c))) >= Len(s) + 1
<1>1. /\ Append(s, c) \in Text /\ Len(Append(s, c)) = Len(s) + 1 /\ Len(s) \in Nat
      /\ Append(s, c)[Len(s) + 1] = c /\ \A i \in 1 .. Len(s) : Append(s, c)[i] = s[i]
  BY Appended
<1>2. \A t \in Text : /\ Len(Ended(t)) \in Len(t) .. Len(t) + 1
                      /\ \A i \in 1 .. Len(t) : Ended(t)[i] = t[i]
                      /\ EndsLine(t) => Ended(t) = t
  BY EndedMeans
<1>3. c = NL => EndsLine(Append(s, c))
  BY <1>1 DEF EndsLine
<1>4. \A i \in 1 .. Len(s) : Ended(Append(s, c))[i] = Ended(s)[i]
  <2>1. \A i \in 1 .. Len(s) : i \in 1 .. Len(Append(s, c))
    BY <1>1
  <2> QED
    BY <1>1, <1>2, <2>1
<1>5. Len(Ended(Append(s, c))) >= Len(s) + 1
  <2>1. Len(Ended(Append(s, c))) \in Len(s) + 1 .. (Len(s) + 1) + 1
    BY <1>1, <1>2
  <2> QED
    BY <2>1, <1>1
<1> QED
  BY <1>1, <1>2, <1>3, <1>4, <1>5

(* What is printed stays right while the text goes on behind it.           *)
LEMMA RevGrows ==
  ASSUME NEW printed \in Text, NEW s \in Text, NEW t \in Text, Turned(printed, s),
         Len(printed) <= Len(s), LineAfter(s, Len(printed)),
         Len(printed) <= Len(t), \A i \in 1 .. Len(printed) : t[i] = s[i]
  PROVE  Turned(printed, t)
<1> SUFFICES ASSUME NEW e \in Newlines(t), NEW a \in 1 .. Len(t), IsLine(t, a, e)
             PROVE  /\ e \in DOMAIN printed => printed[e] = NL
                    /\ \A i \in a .. e - 1 : a + e - 1 - i \in DOMAIN printed =>
                                               printed[a + e - 1 - i] = t[i]
  BY DEF Turned
<1>1. /\ Len(printed) \in Nat /\ Len(s) \in Nat /\ Len(t) \in Nat
      /\ DOMAIN printed = 1 .. Len(printed) /\ DOMAIN s = 1 .. Len(s)
      /\ DOMAIN t = 1 .. Len(t)
  BY DEF Text
<1>2. e \in 1 .. Len(t) /\ t[e] = NL /\ a <= e /\ a \in Nat
  BY <1>1 DEF Newlines, IsLine
<1>3. CASE e <= Len(printed)
  <2>1. \A i \in a .. e : i \in 1 .. Len(printed) /\ t[i] = s[i]
    BY <1>1, <1>2, <1>3
  <2>2. s[e] = NL /\ e \in Newlines(s) /\ a \in 1 .. Len(s)
    BY <1>1, <1>2, <1>3, <2>1 DEF Newlines
  <2>3. IsLine(s, a, e)
    <3>1. \A k \in a .. e - 1 : s[k] # NL
      <4>1. \A k \in a .. e - 1 : k \in a .. e
        BY <1>2
      <4> QED
        BY <2>1, <4>1 DEF IsLine
    <3>2. a > 1 => s[a - 1] = NL
      <4>1. a > 1 => a - 1 \in 1 .. Len(printed) /\ t[a - 1] = NL
        BY <1>1, <1>2, <1>3 DEF IsLine
      <4> QED
        BY <4>1
    <3> QED
      BY <1>2, <2>2, <3>1, <3>2 DEF IsLine
  <2>4. /\ e \in DOMAIN printed => printed[e] = NL
        /\ \A i \in a .. e - 1 : a + e - 1 - i \in DOMAIN printed =>
                                   printed[a + e - 1 - i] = s[i]
    BY <2>2, <2>3 DEF Turned
  <2>5. \A i \in a .. e - 1 : i \in a .. e
    BY <1>2
  <2> QED
    BY <2>1, <2>4, <2>5
<1>4. CASE e > Len(printed)
  <2>1. a > Len(printed)
    <3> SUFFICES ASSUME a <= Len(printed) PROVE FALSE
      BY <1>1, <1>2
    <3>1. Len(printed) \in a .. e - 1 /\ Len(printed) > 0 /\ Len(printed) \in 1 .. Len(printed)
      BY <1>1, <1>2, <1>4
    <3>2. t[Len(printed)] = NL
      BY <3>1 DEF LineAfter
    <3> QED
      BY <3>1, <3>2 DEF IsLine
  <2>2. \A i \in a .. e - 1 : a + e - 1 - i \notin 1 .. Len(printed)
    BY <1>1, <1>2, <2>1
  <2> QED
    BY <1>1, <1>4, <2>2
<1> QED
  BY <1>1, <1>2, <1>3, <1>4

(* A line is printed backwards behind the lines before it.                 *)
LEMMA RevPrints ==
  ASSUME NEW printed \in Text, NEW buf \in Text, NEW t \in Text, Turned(printed, t),
         LineAfter(t, Len(printed)), StandsAt(buf, t, Len(printed)), NoNL(buf),
         Len(t) = Len(printed) + Len(buf) + 1, t[Len(t)] = NL
  PROVE  /\ printed \o Reverse(buf) \in Text
         /\ Len(printed \o Reverse(buf)) = Len(t) - 1
         /\ Turned(printed \o Reverse(buf), t)
         /\ Turned(Append(printed \o Reverse(buf), NL), t)
<1> DEFINE P == Len(printed)
           B == Len(buf)
           q == printed \o Reverse(buf)
<1>1. /\ P \in Nat /\ B \in Nat /\ Len(t) = P + B + 1 /\ DOMAIN t = 1 .. Len(t)
      /\ DOMAIN printed = 1 .. P
  BY DEF Text
<1>2. /\ Reverse(buf) \in Text /\ Len(Reverse(buf)) = B
      /\ \A j \in 1 .. B : Reverse(buf)[j] = buf[(B - j) + 1]
  BY DEF Reverse, Text
<1>3. /\ q \in Text /\ Len(q) = P + B
      /\ \A j \in 1 .. P : q[j] = printed[j]
      /\ \A j \in 1 .. B : q[P + j] = buf[(B - j) + 1]
  <2>1. /\ q \in Text /\ Len(q) = P + Len(Reverse(buf))
        /\ \A j \in 1 .. P : q[j] = printed[j]
        /\ \A j \in 1 .. Len(Reverse(buf)) : q[P + j] = Reverse(buf)[j]
    BY <1>2, Joined
  <2> QED
    BY <1>2, <2>1
<1> HIDE DEF q
<1>4. /\ Append(q, NL) \in Text /\ Len(Append(q, NL)) = P + B + 1
      /\ DOMAIN q = 1 .. P + B /\ DOMAIN Append(q, NL) = 1 .. P + B + 1
      /\ Append(q, NL)[P + B + 1] = NL
      /\ \A j \in 1 .. P + B : Append(q, NL)[j] = q[j]
  <2>1. /\ Append(q, NL) \in Text /\ Len(Append(q, NL)) = Len(q) + 1
        /\ DOMAIN q = 1 .. Len(q) /\ DOMAIN Append(q, NL) = 1 .. Len(q) + 1
        /\ Append(q, NL)[Len(q) + 1] = NL
        /\ \A j \in 1 .. Len(q) : Append(q, NL)[j] = q[j]
    BY <1>3, NLIs, Appended
  <2> QED
    BY <2>1, <1>3
<1>5. \A j \in 1 .. B : t[P + j] = buf[j] /\ t[P + j] # NL
  BY DEF StandsAt, NoNL
<1>6. ASSUME NEW e \in Newlines(t), NEW a \in 1 .. Len(t), IsLine(t, a, e)
      PROVE  \/ /\ e <= P
             \/ /\ e = P + B + 1 /\ a = P + 1
  <2>1. e \in 1 .. P + B + 1 /\ t[e] = NL /\ a <= e /\ a \in Nat
    BY <1>1, <1>6 DEF Newlines, IsLine
  <2>2. CASE e > P
    <3>1. e = P + B + 1
      <4>1. e # P + B + 1 => e - P \in 1 .. B /\ P + (e - P) = e
        BY <1>1, <2>1, <2>2
      <4> QED
        BY <4>1, <1>5, <2>1
    <3>2. a > P
      <4> SUFFICES ASSUME a <= P PROVE FALSE
        BY <1>1, <2>1
      <4>1. P \in a .. e - 1 /\ P > 0
        BY <1>1, <2>1, <2>2
      <4> QED
        BY <4>1, <1>6 DEF LineAfter, IsLine
    <3>3. ~(a > P + 1)
      <4> SUFFICES ASSUME a > P + 1 PROVE FALSE
        OBVIOUS
      <4>1. a - 1 - P \in 1 .. B /\ P + (a - 1 - P) = a - 1 /\ a > 1
        BY <1>1, <2>1, <3>1
      <4> QED
        BY <4>1, <1>5, <1>6 DEF IsLine
    <3> QED
      BY <1>1, <2>1, <3>1, <3>2, <3>3
  <2> QED
    BY <1>1, <2>1, <2>2
<1>7. ASSUME NEW e \in Newlines(t), NEW a \in 1 .. Len(t), IsLine(t, a, e), NEW i \in a .. e - 1
      PROVE  (a + e - 1 - i) \in 1 .. P + B /\ q[a + e - 1 - i] = t[i]
  <2>1. CASE e <= P
    <3>1. a + e - 1 - i \in 1 .. P
      BY <1>1, <1>7, <2>1 DEF IsLine, Newlines
    <3>2. printed[a + e - 1 - i] = t[i]
      BY <1>1, <1>7, <3>1 DEF Turned
    <3> QED
      BY <1>1, <1>3, <3>1, <3>2
  <2>2. CASE e = P + B + 1 /\ a = P + 1
    <3> DEFINE j == P + B + 1 - i
    <3>1. j \in 1 .. B /\ a + e - 1 - i = P + j /\ (B - j) + 1 = i - P /\ i - P \in 1 .. B
          /\ i = P + (i - P)
      BY <1>1, <2>2
    <3> HIDE DEF j
    <3>2. q[P + j] = buf[i - P] /\ t[P + (i - P)] = buf[i - P]
      BY <3>1, <1>3, <1>5
    <3>3. P + j \in 1 .. P + B
      BY <1>1, <3>1
    <3> QED
      BY <3>1, <3>2, <3>3
  <2> QED
    BY <1>6, <1>7, <2>1, <2>2
<1>8. ASSUME NEW e \in Newlines(t), NEW a \in 1 .. Len(t), IsLine(t, a, e)
      PROVE  e <= P => e \in 1 .. P /\ q[e] = NL /\ Append(q, NL)[e] = NL
  <2>1. e \in 1 .. P + B + 1
    BY <1>1 DEF Newlines
  <2>2. e <= P => e \in 1 .. P /\ e \in 1 .. P + B
    BY <1>1, <2>1
  <2>3. e <= P => printed[e] = NL
    BY <1>1, <1>8, <2>2 DEF Turned
  <2> QED
    BY <1>3, <1>4, <2>2, <2>3
<1>9. Turned(q, t)
  <2>1. P + B + 1 \notin 1 .. P + B
    BY <1>1
  <2> QED
    BY <1>4, <1>6, <1>7, <1>8, <2>1 DEF Turned
<1>10. Turned(Append(q, NL), t)
  BY <1>4, <1>6, <1>7, <1>8 DEF Turned
<1> QED
  BY <1>1, <1>3, <1>9, <1>10 DEF q

(* Nothing is printed and the buffer is empty.                             *)
LEMMA RevBegins == ASSUME RevInit, read = <<>>, out = <<>>, status = "reading"
                   PROVE  RevInv
<1>1. REV_LINE \in Nat /\ Alloc(0, REV_LINE) \in Nat
  BY FilterAssumption, AllocNat
<1>2. <<>> \in Text /\ Len(<<>>) = 0
  BY DEF Text
<1>3. st \in RevRec /\ st.buf = <<>>
  BY <1>1, <1>2 DEF RevInit, RevRec
<1>4. Ended(read) = <<>>
  BY DEF Ended, EndsLine
<1>5. Turned(<<>>, <<>>)
  BY DEF Turned, Newlines
<1> QED
  BY <1>2, <1>3, <1>4, <1>5 DEF RevInv, StandsAt, NoNL, LineAfter

(* What waits to be printed is what was read behind the printed lines.     *)
LEMMA RevHolds ==
  ASSUME RevInv, prog = "rev", status = "reading"
  PROVE  /\ st \in RevRec /\ read \in Text /\ out \in Text /\ st.buf \in Text
         /\ Len(out) \in Nat /\ Len(st.buf) \in Nat /\ Len(read) \in Nat
         /\ Fits(REV_LINE) =>
              /\ Len(out) + Len(st.buf) = Len(read)
              /\ StandsAt(st.buf, read, Len(out)) /\ NoNL(st.buf)
              /\ LineAfter(read, Len(out)) /\ Turned(out, Ended(read))
BY DEF RevInv, RevRec, Text

(* A byte that is no newline.                                              *)
LEMMA RevByteInv ==
  ASSUME RevInv, prog = "rev", prog' = prog, NEW c \in Bytes, Getc(c), RevByte(c)
  PROVE  RevInv'
<1>1. /\ status = "reading" /\ status' = status /\ out' = out /\ read' = Append(read, c)
      /\ c # NL /\ REV_LINE \in Nat
      /\ st' = [st EXCEPT !.buf = IF Len(@) < REV_LINE - 1 THEN Append(@, c) ELSE @]
  BY FilterAssumption DEF Getc, RevByte, GoOn
<1>2. /\ st \in RevRec /\ read \in Text /\ out \in Text /\ st.buf \in Text
      /\ Len(out) \in Nat /\ Len(st.buf) \in Nat /\ Len(read) \in Nat
  BY <1>1, RevHolds
<1>3. /\ \A s \in Text : /\ Append(s, c) \in Text /\ Len(Append(s, c)) = Len(s) + 1
                         /\ Append(s, c)[Len(s) + 1] = c
                         /\ \A i \in 1 .. Len(s) : Append(s, c)[i] = s[i]
  BY Appended
<1>4. /\ st' \in RevRec
      /\ st'.buf = IF Len(st.buf) < REV_LINE - 1 THEN Append(st.buf, c) ELSE st.buf
  <2> DEFINE b == IF Len(st.buf) < REV_LINE - 1 THEN Append(st.buf, c) ELSE st.buf
  <2>1. b \in Text
    BY <1>2, <1>3
  <2>2. st' = [st EXCEPT !.buf = b]
    BY <1>1
  <2> HIDE DEF b
  <2>3. st' \in RevRec /\ st'.buf = b
    BY <1>2, <2>1, <2>2 DEF RevRec
  <2> QED
    BY <2>3 DEF b
<1>5. read' \in Text
  BY <1>1, <1>2, <1>3
<1>6. ASSUME LinesBelow(read', REV_LINE)
      PROVE  /\ Len(out) <= Len(Ended(read')) /\ Turned(out, Ended(read'))
             /\ Len(out) + Len(st'.buf) = Len(read')
             /\ StandsAt(st'.buf, read', Len(out)) /\ NoNL(st'.buf)
             /\ LineAfter(read', Len(out))
  <2>1. /\ Len(out) + Len(st.buf) = Len(read)
        /\ StandsAt(st.buf, read, Len(out)) /\ NoNL(st.buf)
        /\ LineAfter(read, Len(out)) /\ Turned(out, Ended(read))
    BY <1>1, <1>2, <1>6, FitsBefore, RevHolds DEF Fits
  <2>2. /\ \A i \in 1 .. Len(st.buf) + 1 : read'[Len(out) + i] # NL
        /\ \A i \in 1 .. Len(st.buf) : read'[Len(out) + i] = st.buf[i]
        /\ Len(read') = Len(out) + Len(st.buf) + 1 /\ read'[Len(read')] = c
    <3>1. Len(read') = Len(read) + 1 /\ read'[Len(read) + 1] = c
      BY <1>1, <1>2, <1>3
    <3>2. ASSUME NEW i \in 1 .. Len(st.buf)
          PROVE  read'[Len(out) + i] = st.buf[i] /\ st.buf[i] # NL
      <4>1. Len(out) + i \in 1 .. Len(read)
        BY <1>2, <2>1
      <4> QED
        BY <4>1, <1>1, <1>2, <1>3, <2>1 DEF StandsAt, NoNL
    <3>3. \A i \in 1 .. Len(st.buf) + 1 : i \in 1 .. Len(st.buf) \/ Len(out) + i = Len(read) + 1
      BY <1>2, <2>1
    <3>4. Len(read') = Len(out) + Len(st.buf) + 1
      BY <1>2, <2>1, <3>1
    <3> QED
      BY <1>1, <3>1, <3>2, <3>3, <3>4
  <2>3. Len(st.buf) + 1 < REV_LINE
    <3>1. Len(st.buf) + 1 \in 0 .. Len(read') /\ Len(read') - (Len(st.buf) + 1) = Len(out)
      <4>1. Len(read') = Len(out) + Len(st.buf) + 1
        BY <2>2
      <4>2. \A n, m \in Nat : m + 1 \in 0 .. n + m + 1 /\ (n + m + 1) - (m + 1) = n
        OBVIOUS
      <4> QED
        BY <1>2, <4>1, <4>2
    <3>2. \A i \in 1 .. Len(st.buf) + 1 : read'[Len(read') - (Len(st.buf) + 1) + i] # NL
      BY <2>2, <3>1
    <3> QED
      BY <1>1, <1>5, <1>6, <3>1, <3>2, TailShort
  <2>4. st'.buf = Append(st.buf, c)
    BY <1>1, <1>2, <1>4, <2>3
  <2>5. /\ Len(st'.buf) = Len(st.buf) + 1 /\ st'.buf[Len(st.buf) + 1] = c
        /\ \A i \in 1 .. Len(st.buf) : st'.buf[i] = st.buf[i]
    BY <1>2, <1>3, <2>4
  <2>6. Len(out) + Len(st'.buf) = Len(read') /\ Len(read') = Len(out) + (Len(st.buf) + 1)
    BY <1>2, <2>2, <2>5
  <2>7. /\ StandsAt(st'.buf, read', Len(out)) /\ NoNL(st'.buf)
    <3>1. ASSUME NEW i \in 1 .. Len(st.buf) + 1
          PROVE  read'[Len(out) + i] = st'.buf[i]
      <4>1. i \in 1 .. Len(st.buf) \/ i = Len(st.buf) + 1
        BY <1>2
      <4> QED
        BY <4>1, <2>2, <2>5, <2>6
    <3>2. Len(out) + Len(st'.buf) <= Len(read')
      BY <2>6, <1>2, <2>5
    <3> QED
      BY <2>2, <2>5, <3>1, <3>2 DEF StandsAt, NoNL
  <2>8. LineAfter(read', Len(out))
    <3>1. Len(out) > 0 => Len(out) \in 1 .. Len(read)
      BY <1>2, <2>1
    <3> QED
      BY <1>1, <1>2, <1>3, <2>1, <3>1 DEF LineAfter
  <2>9. Len(out) <= Len(Ended(read')) /\ Turned(out, Ended(read'))
    <3>1. /\ Ended(read) \in Text /\ Ended(read') \in Text
          /\ Len(Ended(read)) \in Len(read) .. Len(read) + 1
          /\ \A i \in 1 .. Len(read) : Ended(read)[i] = read[i]
      BY <1>2, <1>5, EndedMeans
    <3>2. /\ \A i \in 1 .. Len(read) : Ended(read')[i] = Ended(read)[i]
          /\ Len(Ended(read')) >= Len(read) + 1
      BY <1>1, <1>2, EndedAppend
    <3>3. Len(Ended(read')) \in Nat /\ Len(Ended(read)) \in Nat
      BY <3>1 DEF Text
    <3>4. /\ Len(out) <= Len(Ended(read)) /\ Len(out) <= Len(Ended(read'))
          /\ \A i \in 1 .. Len(out) : i \in 1 .. Len(read)
      BY <1>2, <2>1, <3>1, <3>2, <3>3
    <3>5. LineAfter(Ended(read), Len(out))
      <4>1. Len(out) > 0 => Len(out) \in 1 .. Len(read)
        BY <1>2, <2>1
      <4> QED
        BY <4>1, <3>1, <2>1 DEF LineAfter
    <3>6. \A i \in 1 .. Len(out) : Ended(read')[i] = Ended(read)[i]
      BY <3>2, <3>4
    <3> QED
      BY <1>2, <2>1, <3>1, <3>4, <3>5, <3>6, RevGrows
  <2> QED
    BY <2>6, <2>7, <2>8, <2>9
<1> QED
  BY <1>1, <1>2, <1>4, <1>5, <1>6 DEF RevInv, Fits

(* A line that is printed, or is not because memory has run out.           *)
LEMMA RevPrintsLine ==
  ASSUME RevInv, prog = "rev", status = "reading", Fits(REV_LINE), st.buf # <<>>,
         NEW next, NEW then, PrintLine(Reverse(st.buf), next, then)
  PROVE  LET text == Append(read, NL)
         IN  /\ out' \in Text /\ Turned(out', text)
             /\ \/ status' = "trapped" /\ Len(out') <= Len(text)
                \/ status' = then /\ Len(out') = Len(text) /\ out'[Len(text)] = NL
<1> DEFINE t == Append(read, NL)
           q == out \o Reverse(st.buf)
<1>1. /\ read \in Text /\ out \in Text /\ st.buf \in Text
      /\ Len(out) \in Nat /\ Len(st.buf) \in Nat /\ Len(read) \in Nat
      /\ Len(out) + Len(st.buf) = Len(read)
      /\ StandsAt(st.buf, read, Len(out)) /\ NoNL(st.buf)
      /\ LineAfter(read, Len(out)) /\ Turned(out, Ended(read))
  BY RevHolds
<1>2. /\ t \in Text /\ Len(t) = Len(read) + 1 /\ t[Len(t)] = NL
      /\ \A i \in 1 .. Len(read) : t[i] = read[i]
  BY <1>1, NLIs, Appended
<1> HIDE DEF t
<1>3. Turned(out, t)
  <2>1. /\ Ended(read) \in Text /\ Len(Ended(read)) \in Len(read) .. Len(read) + 1
        /\ \A i \in 1 .. Len(read) : Ended(read)[i] = read[i]
    BY <1>1, EndedMeans
  <2>2. /\ Len(out) <= Len(Ended(read)) /\ Len(out) <= Len(t)
        /\ \A i \in 1 .. Len(out) : i \in 1 .. Len(read)
    BY <1>1, <1>2, <2>1
  <2>3. \A i \in 1 .. Len(out) : t[i] = Ended(read)[i]
    BY <1>2, <2>1, <2>2
  <2>4. LineAfter(Ended(read), Len(out))
    <3>1. Len(out) > 0 => Len(out) \in 1 .. Len(read)
      BY <1>1
    <3> QED
      BY <3>1, <2>1, <1>1 DEF LineAfter
  <2> QED
    BY <1>1, <1>2, <2>1, <2>2, <2>3, <2>4, RevGrows
<1>4. LineAfter(t, Len(out)) /\ StandsAt(st.buf, t, Len(out))
  <2>1. Len(out) > 0 => Len(out) \in 1 .. Len(read)
    BY <1>1
  <2>2. \A i \in 1 .. Len(st.buf) : Len(out) + i \in 1 .. Len(read)
    BY <1>1
  <2>3. Len(out) + Len(st.buf) <= Len(t)
    BY <1>1, <1>2
  <2> QED
    BY <1>1, <1>2, <2>1, <2>2, <2>3 DEF LineAfter, StandsAt
<1>5. Len(t) = Len(out) + Len(st.buf) + 1
  BY <1>1, <1>2
<1>6. q \in Text /\ Len(q) = Len(t) - 1 /\ Turned(q, t) /\ Turned(Append(q, NL), t)
  BY <1>1, <1>2, <1>3, <1>4, <1>5, RevPrints
<1>7. Reverse(st.buf) \in Text
  BY <1>1 DEF Reverse, Text
<1>8. /\ out' \in Text
      /\ \/ out' = q /\ status' = "trapped"
         \/ out' = Append(q, NL) /\ status' = then
  BY <1>1, <1>7, LinePrinted
<1> HIDE DEF q
<1>9. Len(Append(q, NL)) = Len(t) /\ Append(q, NL)[Len(t)] = NL /\ Len(q) <= Len(t)
  <2>1. Len(Append(q, NL)) = Len(q) + 1 /\ Append(q, NL)[Len(q) + 1] = NL
    BY <1>6, NLIs, Appended
  <2>2. Len(q) + 1 = Len(t) /\ Len(q) <= Len(t)
    BY <1>1, <1>2, <1>6
  <2> QED
    BY <2>1, <2>2
<1> QED
  BY <1>6, <1>8, <1>9 DEF t

(* Printing a line leaves the buffer that is to come next.                 *)
LEMMA RevEmptied ==
  ASSUME st \in RevRec, NEW b \in Text, NEW next,
         next = [st EXCEPT !.buf = b], st' = [next EXCEPT !.heap = Alloc(@, 1)]
  PROVE  st' \in RevRec /\ st'.buf = b
<1>1. st.heap \in Nat
  BY DEF RevRec
<1>2. Alloc(st.heap, 1) \in Nat
  BY <1>1, AllocNat
<1>3. next \in RevRec /\ next.buf = b /\ next.heap = st.heap
  BY DEF RevRec
<1> QED
  BY <1>2, <1>3 DEF RevRec

(* A newline prints the line, backwards.                                   *)
LEMMA RevLineInv ==
  ASSUME RevInv, prog = "rev", prog' = prog, NEW c \in Bytes, Getc(c), RevLine(c)
  PROVE  RevInv'
<1>1. /\ status = "reading" /\ read' = Append(read, NL) /\ c = NL /\ REV_LINE \in Nat
  BY FilterAssumption DEF Getc, RevLine
<1>2. /\ st \in RevRec /\ read \in Text /\ out \in Text /\ st.buf \in Text
      /\ Len(out) \in Nat /\ Len(st.buf) \in Nat /\ Len(read) \in Nat
  BY <1>1, RevHolds
<1>3. /\ read' \in Text /\ Len(read') = Len(read) + 1 /\ read'[Len(read) + 1] = NL
      /\ \A i \in 1 .. Len(read) : read'[i] = read[i]
      /\ Ended(read') = read'
  <2>1. /\ read' \in Text /\ Len(read') = Len(read) + 1 /\ read'[Len(read) + 1] = NL
        /\ \A i \in 1 .. Len(read) : read'[i] = read[i]
    BY <1>1, <1>2, NLIs, Appended
  <2> QED
    BY <1>1, <1>2, <2>1, NLIs, EndedAppend
<1>4. LinesBelow(read', REV_LINE) => Fits(REV_LINE)
  BY <1>1, <1>2, NLIs, FitsBefore DEF Fits
<1>5. CASE st.buf = <<>>
  <2>1. status' = "trapped" /\ st' = st /\ out' = out
    BY <1>1, <1>5 DEF RevLine, Trap
  <2>2. ASSUME LinesBelow(read', REV_LINE)
        PROVE  Len(out) <= Len(read') /\ Turned(out, read')
    <3>1. /\ Len(out) = Len(read) /\ LineAfter(read, Len(out)) /\ Turned(out, Ended(read))
      <4>1. /\ Len(out) + Len(st.buf) = Len(read)
            /\ LineAfter(read, Len(out)) /\ Turned(out, Ended(read))
        BY <1>1, <1>4, <2>2, RevHolds
      <4> QED
        BY <1>2, <1>5, <4>1
    <3>2. Ended(read) = read
      <4>1. EndsLine(read)
        BY <1>2, <3>1 DEF EndsLine, LineAfter, Text
      <4> QED
        BY <1>2, <4>1, EndedMeans
    <3>3. Len(out) <= Len(read) /\ Len(out) <= Len(read')
      BY <1>2, <1>3, <3>1
    <3> QED
      BY <1>2, <1>3, <3>1, <3>2, <3>3, RevGrows
  <2> QED
    BY <1>2, <1>3, <2>1, <2>2 DEF RevInv, Fits
<1>6. CASE st.buf # <<>>
  <2> DEFINE next == [st EXCEPT !.buf = <<>>]
  <2>1. PrintLine(Reverse(st.buf), next, "reading")
    BY <1>6 DEF RevLine
  <2>2. Reverse(st.buf) \in Text
    BY <1>2 DEF Reverse, Text
  <2>3. /\ st' = [next EXCEPT !.heap = Alloc(@, 1)] /\ out' \in Text
        /\ status' \in {"trapped", "reading"}
    BY <1>2, <2>1, <2>2, LinePrinted
  <2>4. st' \in RevRec /\ st'.buf = <<>>
    <3>1. <<>> \in Text
      BY DEF Text
    <3> QED
      BY <1>2, <2>3, <3>1, RevEmptied
  <2>5. ASSUME LinesBelow(read', REV_LINE)
        PROVE  /\ Turned(out', read')
               /\ \/ status' = "trapped" /\ Len(out') <= Len(read')
                  \/ status' = "reading" /\ Len(out') = Len(read') /\ out'[Len(read')] = NL
    BY <1>1, <1>4, <1>6, <2>1, <2>5, RevPrintsLine
  <2>6. ASSUME LinesBelow(read', REV_LINE)
        PROVE  /\ Len(out') <= Len(read') /\ Turned(out', read')
               /\ status' = "reading" =>
                    /\ Len(out') + Len(st'.buf) = Len(read')
                    /\ StandsAt(st'.buf, read', Len(out')) /\ NoNL(st'.buf)
                    /\ LineAfter(read', Len(out'))
    <3>1. Len(st'.buf) = 0
      BY <2>4
    <3>2. Len(out') <= Len(read') /\ Turned(out', read')
          /\ (status' = "reading" => Len(out') = Len(read'))
      BY <1>2, <1>3, <2>5, <2>6
    <3>3. Len(out') \in Nat /\ Len(read') \in Nat
      BY <1>3, <2>3 DEF Text
    <3>4. StandsAt(st'.buf, read', Len(out')) /\ NoNL(st'.buf)
      BY <3>1, <3>2, <3>3 DEF StandsAt, NoNL
    <3>5. LineAfter(read', Len(read'))
      BY <1>3 DEF LineAfter
    <3> QED
      BY <3>1, <3>2, <3>3, <3>4, <3>5
  <2> QED
    BY <1>3, <2>3, <2>4, <2>6 DEF RevInv, Fits
<1> QED
  BY <1>5, <1>6

(* The end of the input prints a line that has begun.                      *)
LEMMA RevEofInv ==
  ASSUME RevInv, prog = "rev", prog' = prog, Eof, RevEof
  PROVE  RevInv'
<1>1. status = "reading" /\ read' = read
  BY DEF Eof
<1>2. /\ st \in RevRec /\ read \in Text /\ out \in Text /\ st.buf \in Text
      /\ Len(out) \in Nat /\ Len(st.buf) \in Nat /\ Len(read) \in Nat
  BY <1>1, RevHolds
<1>3. CASE st.buf = <<>>
  <2>1. status' = "done" /\ st' = st /\ out' = out
    BY <1>3 DEF RevEof
  <2>2. Fits(REV_LINE) => Len(out) = Len(Ended(read)) /\ Turned(out, Ended(read))
    <3> SUFFICES ASSUME Fits(REV_LINE)
                 PROVE  Len(out) = Len(Ended(read)) /\ Turned(out, Ended(read))
      OBVIOUS
    <3>1. /\ Len(out) + Len(st.buf) = Len(read)
          /\ LineAfter(read, Len(out)) /\ Turned(out, Ended(read))
      BY <1>1, RevHolds
    <3>2. Len(out) = Len(read)
      BY <1>2, <1>3, <3>1
    <3>3. EndsLine(read)
      BY <1>2, <3>1, <3>2 DEF EndsLine, LineAfter, Text
    <3> QED
      BY <1>2, <3>1, <3>2, <3>3, EndedMeans
  <2>3. Len(out) <= Len(out)
    BY <1>2
  <2> QED
    BY <1>1, <1>2, <2>1, <2>2, <2>3 DEF RevInv, Fits
<1>4. CASE st.buf # <<>>
  <2>1. PrintLine(Reverse(st.buf), st, "done")
    BY <1>4 DEF RevEof
  <2>2. Reverse(st.buf) \in Text
    BY <1>2 DEF Reverse, Text
  <2>3. /\ st' = [st EXCEPT !.heap = Alloc(@, 1)] /\ out' \in Text
        /\ status' \in {"trapped", "done"}
    BY <1>2, <2>1, <2>2, LinePrinted
  <2>4. st' \in RevRec
    <3>1. st.heap \in Nat
      BY <1>2 DEF RevRec
    <3>2. Alloc(st.heap, 1) \in Nat
      BY <3>1, AllocNat
    <3> QED
      BY <1>2, <2>3, <3>2 DEF RevRec
  <2>5. ASSUME Fits(REV_LINE)
        PROVE  /\ Len(out') <= Len(Ended(read)) /\ Turned(out', Ended(read))
               /\ status' = "done" => Len(out') = Len(Ended(read))
    <3>1. /\ Len(out) + Len(st.buf) = Len(read)
          /\ StandsAt(st.buf, read, Len(out)) /\ NoNL(st.buf)
      BY <1>1, <2>5, RevHolds
    <3>2. read # <<>> /\ read[Len(read)] # NL
      <4>1. Len(st.buf) \in 1 .. Len(st.buf) /\ Len(read) # 0
        BY <1>2, <1>4, <3>1 DEF Text
      <4> QED
        BY <3>1, <4>1 DEF StandsAt, NoNL
    <3>3. Ended(read) = Append(read, NL)
      BY <1>2, <3>2, EndedMeans DEF EndsLine
    <3>4. /\ Turned(out', Append(read, NL))
          /\ \/ status' = "trapped" /\ Len(out') <= Len(Append(read, NL))
             \/ status' = "done" /\ Len(out') = Len(Append(read, NL))
      BY <1>1, <1>4, <2>1, <2>5, RevPrintsLine
    <3>5. Len(out') \in Nat
      BY <2>3 DEF Text
    <3> QED
      BY <3>3, <3>4, <3>5
  <2> QED
    BY <1>1, <1>2, <2>3, <2>4, <2>5 DEF RevInv, Fits
<1> QED
  BY <1>3, <1>4

(* Every step of rev.                                                      *)
LEMMA RevStep == RevInv /\ RevNext /\ prog' = prog => RevInv'
BY RevByteInv, RevLineInv, RevEofInv DEF RevNext

-----------------------------------------------------------------------------
(* tac                                                                     *)
(* Two lines of a text are the same or have no position in common.         *)
LEMMA LineUnique ==
  ASSUME NEW s, NEW a \in Nat \ {0}, NEW e \in Nat, NEW b \in Nat \ {0}, NEW f \in Nat,
         IsLine(s, a, e), IsLine(s, b, f), NEW p \in Nat, p \in a .. e, p \in b .. f
  PROVE  a = b /\ e = f
<1>1. /\ s[e] = NL /\ s[f] = NL
      /\ \A k \in a .. e - 1 : s[k] # NL
      /\ \A k \in b .. f - 1 : s[k] # NL
      /\ a > 1 => s[a - 1] = NL
      /\ b > 1 => s[b - 1] = NL
  BY DEF IsLine
<1>2. ~(e < f)
  <2>1. e < f => e \in b .. f - 1
    OBVIOUS
  <2> QED
    BY <1>1, <2>1
<1>3. ~(f < e)
  <2>1. f < e => f \in a .. e - 1
    OBVIOUS
  <2> QED
    BY <1>1, <2>1
<1>4. ~(a < b)
  <2>1. a < b => b > 1 /\ b - 1 \in a .. e - 1
    OBVIOUS
  <2> QED
    BY <1>1, <2>1
<1>5. ~(b < a)
  <2>1. b < a => a > 1 /\ a - 1 \in b .. f - 1
    OBVIOUS
  <2> QED
    BY <1>1, <2>1
<1> QED
  BY <1>2, <1>3, <1>4, <1>5

(* How many lines a text has, and that it has no fewer when it goes on.    *)
LEMMA EndedLines ==
  ASSUME NEW s \in Text
  PROVE  Cardinality(Newlines(Ended(s))) =
           Cardinality(Newlines(s)) + (IF EndsLine(s) THEN 0 ELSE 1)
<1>1. Cardinality(Newlines(s)) \in Nat
  BY NewlinesFinite
<1>2. CASE EndsLine(s)
  BY <1>1, <1>2, EndedMeans
<1>3. CASE ~EndsLine(s)
  <2>1. Cardinality(Newlines(Append(s, NL))) = Cardinality(Newlines(s)) + 1
    BY NLIs, NewlinesAppend
  <2> QED
    BY <1>3, <2>1, EndedMeans
<1> QED
  BY <1>2, <1>3

(* A text has no fewer lines when a byte is read.                          *)
LEMMA MoreLines ==
  ASSUME NEW s \in Text, NEW c \in Bytes
  PROVE  /\ Cardinality(Newlines(Ended(s))) <= Cardinality(Newlines(Ended(Append(s, c))))
         /\ Cardinality(Newlines(Ended(s))) \in Nat
         /\ Cardinality(Newlines(Ended(Append(s, c)))) \in Nat
         /\ c = NL => Cardinality(Newlines(s)) < Cardinality(Newlines(Ended(Append(s, c))))
<1>1. Append(s, c) \in Text /\ Append(s, c) # <<>> /\ Append(s, c)[Len(Append(s, c))] = c
  BY Appended
<1>2. EndsLine(Append(s, c)) <=> c = NL
  BY <1>1 DEF EndsLine
<1>3. Cardinality(Newlines(s)) \in Nat
  BY NewlinesFinite
<1>4. /\ c # NL => Newlines(Append(s, c)) = Newlines(s)
      /\ c = NL => Cardinality(Newlines(Append(s, c))) = Cardinality(Newlines(s)) + 1
  BY NewlinesAppend
<1>5. /\ Cardinality(Newlines(Ended(s))) =
           Cardinality(Newlines(s)) + (IF EndsLine(s) THEN 0 ELSE 1)
      /\ Cardinality(Newlines(Ended(Append(s, c)))) =
           Cardinality(Newlines(Append(s, c))) + (IF EndsLine(Append(s, c)) THEN 0 ELSE 1)
  BY <1>1, EndedLines
<1>6. Cardinality(Newlines(Ended(Append(s, c)))) = Cardinality(Newlines(s)) + 1
  BY <1>2, <1>3, <1>4, <1>5
<1> QED
  BY <1>3, <1>5, <1>6

(* A line stays stored while lines, text and buffer go on behind it.       *)
LEMMA StoredStays ==
  ASSUME NEW lines \in Seq(TacLineRec), NEW more \in Seq(TacLineRec),
         NEW i \in 1 .. Len(lines), \A j \in 1 .. Len(lines) : more[j] = lines[j],
         NEW s \in Text, NEW t \in Text, Len(s) <= Len(t),
         \A j \in 1 .. Len(s) : t[j] = s[j],
         NEW buf, NEW buf2, \A k \in 0 .. Behind(lines, i) - 1 : buf2[k] = buf[k],
         LineStored(lines, buf, i, s)
  PROVE  LineStored(more, buf2, i, t) /\ Behind(more, i) = Behind(lines, i)
<1> DEFINE F == First(lines, i)
           L == Final(lines, i)
<1>1. /\ i \in Nat /\ i # 0 /\ Len(lines) \in Nat /\ Len(s) \in Nat /\ Len(t) \in Nat
      /\ lines[i] \in TacLineRec /\ i - 1 \in 0 .. Len(lines)
  BY DEF Text
<1>2. lines[i].off \in Nat /\ lines[i].len \in Nat
  BY <1>1 DEF TacLineRec
<1>3. Behind(more, i) = Behind(lines, i) /\ Behind(more, i - 1) = Behind(lines, i - 1)
  <2>1. i - 1 # 0 => i - 1 \in 1 .. Len(lines)
    BY <1>1
  <2> QED
    BY <2>1 DEF Behind
<1>4. First(more, i) = F /\ Final(more, i) = L
  BY <1>3 DEF First, Final
<1>5. /\ F = lines[i].off + i /\ L = F + lines[i].len
      /\ Behind(lines, i) = lines[i].off + lines[i].len
  BY <1>1, <1>2 DEF First, Final, Behind
<1>6. /\ L <= Len(s) /\ IsLine(s, F, L) /\ lines[i].off = Behind(lines, i - 1)
      /\ \A k \in 0 .. lines[i].len - 1 : buf[lines[i].off + k] = s[F + k]
  BY DEF LineStored
<1> HIDE DEF F, L
<1>7. \A j \in F - 1 .. L : j # 0 => j \in 1 .. Len(s) /\ t[j] = s[j]
  <2>1. \A j \in F - 1 .. L : j # 0 => j \in 1 .. Len(s)
    BY <1>1, <1>2, <1>5, <1>6
  <2> QED
    BY <2>1
<1>8. IsLine(t, F, L)
  <2>1. F \in Nat /\ L \in Nat /\ F > 0 /\ F <= L
    <3>1. \A n, m, k \in Nat : k # 0 => /\ n + k \in Nat /\ (n + k) + m \in Nat
                                        /\ n + k > 0 /\ n + k <= (n + k) + m
      OBVIOUS
    <3> QED
      BY <1>1, <1>2, <1>5, <3>1
  <2>2. /\ L \in F - 1 .. L /\ L # 0
        /\ \A k \in F .. L - 1 : k \in F - 1 .. L /\ k # 0
        /\ F > 1 => F - 1 \in F - 1 .. L /\ F - 1 # 0
    BY <2>1
  <2> QED
    BY <1>6, <1>7, <2>2 DEF IsLine
<1>9. ASSUME NEW k \in 0 .. lines[i].len - 1
      PROVE  buf2[lines[i].off + k] = t[F + k]
  <2>1. lines[i].off + k \in 0 .. Behind(lines, i) - 1
    BY <1>2, <1>5
  <2>2. F + k \in F - 1 .. L /\ F + k # 0
    <3>1. \A n, m, j \in Nat : \A d \in 0 .. m - 1 :
            j # 0 => /\ (n + j) + d \in (n + j) - 1 .. (n + j) + m
                     /\ (n + j) + d # 0
      OBVIOUS
    <3> QED
      BY <1>1, <1>2, <1>5, <3>1
  <2> QED
    BY <1>6, <1>7, <2>1, <2>2
<1>10. L <= Len(t)
  <2>1. L \in Nat
    BY <1>1, <1>2, <1>5
  <2> QED
    BY <1>1, <1>6, <2>1
<1> QED
  BY <1>1, <1>3, <1>4, <1>6, <1>8, <1>9, <1>10 DEF LineStored, F, L

(* Nothing is stored and nothing printed.                                  *)
LEMMA TacBegins == ASSUME TacInit, read = <<>>, out = <<>>, status = "reading"
                   PROVE  TacInv
<1>1. MemSize["tac"] \in Nat /\ Alloc(0, TAC_LINES * TAC_LEN) \in Nat
  <2>1. TAC_LINES \in Nat /\ TAC_LEN \in Nat /\ MemSize["tac"] \in Nat
    BY FilterAssumption DEF Programs
  <2>2. TAC_LINES * TAC_LEN \in Nat
    BY <2>1
  <2> QED
    BY <2>1, <2>2, AllocNat
<1>2. <<>> \in Text /\ Len(<<>>) = 0 /\ <<>> \in Seq(TacLineRec)
  BY DEF Text
<1>3. [a \in 0 .. MemSize["tac"] - 1 |-> NL] \in [0 .. MemSize["tac"] - 1 -> Bytes]
  BY NLIs
<1>4. /\ st \in TacRec /\ st.lines = <<>> /\ st.pos = 0 /\ st.cur = 0
  BY <1>1, <1>2, <1>3 DEF TacInit, TacRec
<1>5. Ended(read) = <<>>
  BY DEF Ended, EndsLine
<1>6. TacReading
  BY <1>1, <1>2, <1>4, NewlinesEmpty DEF TacReading, Behind
<1>7. Backwards(<<>>, <<>>)
  BY DEF Backwards
<1> QED
  BY <1>2, <1>4, <1>5, <1>6, <1>7 DEF TacInv

(* What fits so far when it fits with one more byte.                       *)
LEMMA TacHolds ==
  ASSUME TacInv, prog = "tac", NEW c \in Bytes, Getc(c),
         LinesBelow(read', TAC_LEN), Cardinality(Newlines(Ended(read'))) <= TAC_LINES
  PROVE  TacFits /\ TacReading /\ out = <<>> /\ (c = NL => Len(st.lines) < TAC_LINES)
<1>1. /\ read \in Text /\ read' = Append(read, c) /\ status = "reading"
      /\ TAC_LEN \in Nat /\ TAC_LINES \in Nat
  BY FilterAssumption DEF TacInv, Getc
<1>2. LinesBelow(read, TAC_LEN)
  BY <1>1, FitsBefore
<1>3. /\ Cardinality(Newlines(Ended(read))) <= TAC_LINES
      /\ c = NL => Cardinality(Newlines(read)) < TAC_LINES
  <2>1. /\ Cardinality(Newlines(Ended(read))) <= Cardinality(Newlines(Ended(read')))
        /\ Cardinality(Newlines(Ended(read))) \in Nat
        /\ Cardinality(Newlines(Ended(read'))) \in Nat
        /\ c = NL => Cardinality(Newlines(read)) < Cardinality(Newlines(Ended(read')))
    BY <1>1, MoreLines
  <2>2. Cardinality(Newlines(read)) \in Nat
    BY <1>1, NewlinesFinite
  <2> QED
    BY <1>1, <2>1, <2>2
<1>4. TacFits
  BY <1>2, <1>3 DEF TacFits
<1>5. TacReading
  BY <1>1, <1>4 DEF TacInv
<1> QED
  BY <1>3, <1>4, <1>5 DEF TacReading

(* The numbers among the variables of tac.                                 *)
LEMMA TacNumbers ==
  ASSUME st \in TacRec
  PROVE  /\ st.heap \in Nat /\ st.pos \in Nat /\ st.cur \in Nat /\ Len(st.lines) \in Nat
         /\ st.lines \in Seq(TacLineRec) /\ MemSize["tac"] \in Nat
         /\ \A i \in 1 .. Len(st.lines) : st.lines[i].off \in Nat /\ st.lines[i].len \in Nat
         /\ \A i \in 0 .. Len(st.lines) : Behind(st.lines, i) \in Nat
<1>1. /\ st.heap \in Nat /\ st.pos \in Nat /\ st.cur \in Nat
      /\ st.lines \in Seq(TacLineRec) /\ Len(st.lines) \in Nat
  BY DEF TacRec
<1>2. MemSize["tac"] \in Nat
  BY FilterAssumption DEF Programs
<1>3. \A i \in 1 .. Len(st.lines) : st.lines[i].off \in Nat /\ st.lines[i].len \in Nat
  <2>1. \A i \in 1 .. Len(st.lines) : st.lines[i] \in TacLineRec
    BY <1>1
  <2> QED
    BY <2>1 DEF TacLineRec
<1>4. \A i \in 0 .. Len(st.lines) : i = 0 \/ i \in 1 .. Len(st.lines)
  BY <1>1
<1> QED
  BY <1>1, <1>2, <1>3, <1>4 DEF Behind

(* The end of a line stores it, be it a newline or the end of the input.   *)
LEMMA TacStores ==
  ASSUME st \in TacRec, read \in Text, TacReading
  PROVE  LET n    == Len(st.lines)
             text == Append(read, NL)
             more == Append(st.lines, [off |-> st.pos, len |-> st.cur])
         IN  /\ more \in Seq(TacLineRec) /\ Len(more) = n + 1
             /\ \A i \in 1 .. n + 1 : /\ LineStored(more, st.buf, i, text)
                                      /\ Behind(more, i) <= st.pos + st.cur
             /\ Behind(more, n + 1) = st.pos + st.cur
             /\ (st.pos + st.cur) + (n + 1) = Len(text)
<1> DEFINE n    == Len(st.lines)
           rec  == [off |-> st.pos, len |-> st.cur]
           t    == Append(read, NL)
           more == Append(st.lines, rec)
<1>1. /\ st.pos \in Nat /\ st.cur \in Nat /\ n \in Nat /\ st.lines \in Seq(TacLineRec)
      /\ \A i \in 0 .. n : Behind(st.lines, i) \in Nat
  BY TacNumbers
<1>2. /\ \A i \in 1 .. n : LineStored(st.lines, st.buf, i, read) /\ Behind(st.lines, i) <= st.pos
      /\ st.pos = Behind(st.lines, n) /\ (st.pos + n) + st.cur = Len(read)
      /\ \A k \in 0 .. st.cur - 1 : /\ st.buf[st.pos + k] = read[(st.pos + n + 1) + k]
                                    /\ read[(st.pos + n + 1) + k] # NL
  BY DEF TacReading
<1>3. /\ t \in Text /\ Len(t) = Len(read) + 1 /\ t[Len(t)] = NL /\ Len(read) \in Nat
      /\ \A i \in 1 .. Len(read) : t[i] = read[i]
  BY NLIs, Appended
<1>4. rec \in TacLineRec /\ rec.off = st.pos /\ rec.len = st.cur
  BY <1>1 DEF TacLineRec
<1>5. /\ more \in Seq(TacLineRec) /\ Len(more) = n + 1 /\ more[n + 1] = rec
      /\ \A i \in 1 .. n : more[i] = st.lines[i]
  BY <1>1, <1>4
<1> HIDE DEF t, rec, more, n
<1>6. ASSUME NEW i \in 1 .. n
      PROVE  LineStored(more, st.buf, i, t) /\ Behind(more, i) = Behind(st.lines, i)
  <2>1. /\ i \in 1 .. Len(st.lines) /\ Len(read) <= Len(t)
        /\ \A j \in 1 .. Len(st.lines) : more[j] = st.lines[j]
        /\ \A k \in 0 .. Behind(st.lines, i) - 1 : st.buf[k] = st.buf[k]
    BY <1>3, <1>5 DEF n
  <2> QED
    BY <2>1, <1>1, <1>2, <1>3, <1>5, StoredStays
<1>7. Behind(more, n + 1) = st.pos + st.cur
  BY <1>1, <1>4, <1>5 DEF Behind
<1>8. Behind(more, n) = st.pos
  <2>1. n # 0 => n \in 1 .. n
    BY <1>1
  <2> QED
    BY <1>2, <1>5, <2>1 DEF Behind
<1>9. LineStored(more, st.buf, n + 1, t)
  <2> DEFINE F == First(more, n + 1)
             L == Final(more, n + 1)
  <2>1. F = (st.pos + n) + 1 /\ L = (st.pos + n) + st.cur + 1
    <3>1. more[n + 1].off = st.pos
      BY <1>4, <1>5
    <3>2. F = st.pos + (n + 1) /\ L = (st.pos + st.cur) + (n + 1)
      BY <3>1, <1>7 DEF First, Final
    <3> HIDE DEF F, L
    <3>3. \A p, c, m \in Nat : p + (m + 1) = (p + m) + 1 /\ (p + c) + (m + 1) = (p + m) + c + 1
      OBVIOUS
    <3>4. st.pos \in Nat /\ st.cur \in Nat /\ n \in Nat
      BY <1>1
    <3> QED
      BY <3>2, <3>3, <3>4
  <2> HIDE DEF F, L
  <2>2. L = Len(t) /\ F <= L /\ F \in Nat /\ L \in Nat
    BY <1>1, <1>2, <1>3, <2>1
  <2>3. \A k \in 0 .. st.cur - 1 : F + k \in 1 .. Len(read) /\ F + k = (st.pos + n + 1) + k
    BY <1>1, <1>2, <2>1
  <2>4. \A k \in 0 .. st.cur - 1 : t[F + k] = st.buf[st.pos + k] /\ t[F + k] # NL
    BY <1>2, <1>3, <2>3
  <2>5. \A k \in F .. L - 1 : k - F \in 0 .. st.cur - 1 /\ F + (k - F) = k
    <3>1. \A m, d \in Nat : \A k \in m + 1 .. (m + d + 1) - 1 :
            k - (m + 1) \in 0 .. d - 1 /\ (m + 1) + (k - (m + 1)) = k
      OBVIOUS
    <3>2. st.pos + n \in Nat /\ st.cur \in Nat
      BY <1>1
    <3>3. \A k \in ((st.pos + n) + 1) .. ((st.pos + n) + st.cur + 1) - 1 :
            k - ((st.pos + n) + 1) \in 0 .. st.cur - 1
            /\ ((st.pos + n) + 1) + (k - ((st.pos + n) + 1)) = k
      BY <3>1, <3>2
    <3> QED
      BY <2>1, <3>3
  <2>6. F > 1 => t[F - 1] = NL
    <3> SUFFICES ASSUME F > 1 PROVE t[F - 1] = NL
      OBVIOUS
    <3>1. n # 0
      BY <1>1, <1>2, <2>1 DEF Behind
    <3>2. n \in 1 .. n /\ F - 1 = st.pos + n
      BY <1>1, <2>1, <3>1
    <3>3. IsLine(read, First(st.lines, n), Final(st.lines, n)) /\ Final(st.lines, n) = F - 1
      BY <1>2, <3>2 DEF LineStored, Final
    <3>4. read[F - 1] = NL
      BY <3>3 DEF IsLine
    <3>5. F - 1 \in 1 .. Len(read)
      BY <1>1, <1>2, <3>1, <3>2
    <3> QED
      BY <1>3, <3>4, <3>5
  <2>7. IsLine(t, F, L)
    BY <1>3, <2>2, <2>4, <2>5, <2>6 DEF IsLine
  <2>8. more[n + 1].off = Behind(more, (n + 1) - 1)
    <3>1. (n + 1) - 1 = n
      BY <1>1
    <3> QED
      BY <3>1, <1>4, <1>5, <1>8
  <2> QED
    BY <1>4, <1>5, <2>2, <2>4, <2>7, <2>8 DEF LineStored, F, L
<1>10. ASSUME NEW i \in 1 .. n + 1
       PROVE  LineStored(more, st.buf, i, t) /\ Behind(more, i) <= st.pos + st.cur
  <2>1. CASE i \in 1 .. n
    <3>1. i \in 0 .. n
      BY <2>1, <1>1
    <3>2. Behind(st.lines, i) <= st.pos + st.cur
      BY <1>1, <1>2, <2>1, <3>1
    <3> QED
      BY <1>6, <2>1, <3>2
  <2>2. CASE i = n + 1
    <3>1. st.pos + st.cur <= st.pos + st.cur
      BY <1>1
    <3> QED
      BY <1>7, <1>9, <2>2, <3>1
  <2>3. i \in 1 .. n \/ i = n + 1
    BY <1>1
  <2> QED
    BY <2>1, <2>2, <2>3
<1>11. (st.pos + st.cur) + (n + 1) = Len(t)
  BY <1>1, <1>2, <1>3
<1> QED
  BY <1>5, <1>7, <1>10, <1>11 DEF t, more, n, rec

(* Nothing is printed before the end of the input.                         *)
LEMMA TacNothingYet ==
  ASSUME NEW text \in Text
  PROVE  <<>> \in Text /\ Len(<<>>) = 0 /\ Len(<<>>) <= Len(text) /\ Backwards(<<>>, text)
BY DEF Backwards, Text

(* A byte that is no newline goes behind the text stored.                  *)
LEMMA TacByteInv ==
  ASSUME TacInv, prog = "tac", prog' = prog, NEW c \in Bytes, Getc(c), TacByte(c)
  PROVE  TacInv'
<1> DEFINE stores == /\ st.pos + st.cur < MemSize["tac"] /\ status' = "reading"
                     /\ st' = [st EXCEPT !.buf = [st.buf EXCEPT ![st.pos + st.cur] = c],
                                         !.cur = st.cur + 1]
<1>1. /\ st \in TacRec /\ read \in Text /\ status = "reading" /\ c # NL
      /\ read' = Append(read, c) /\ TAC_LEN \in Nat
  BY FilterAssumption DEF TacInv, Getc, TacByte
<1>2. /\ st.pos \in Nat /\ st.cur \in Nat /\ Len(st.lines) \in Nat /\ MemSize["tac"] \in Nat
      /\ st.lines \in Seq(TacLineRec)
      /\ \A i \in 0 .. Len(st.lines) : Behind(st.lines, i) \in Nat
  BY <1>1, TacNumbers
<1>3. /\ out' = out
      /\ \/ st' = st /\ st.cur >= TAC_LEN - 1
         \/ st' = st /\ status' = "trapped"
         \/ stores
  <2>1. CASE st.cur >= TAC_LEN - 1
    BY <2>1 DEF TacByte, GoOn
  <2>2. CASE ~(st.cur >= TAC_LEN - 1) /\ st.pos + st.cur >= MemSize[prog]
    BY <2>2 DEF TacByte, Trap
  <2>3. CASE ~(st.cur >= TAC_LEN - 1) /\ ~(st.pos + st.cur >= MemSize[prog])
    <3>1. /\ st' = [st EXCEPT !.buf = [st.buf EXCEPT ![st.pos + st.cur] = c],
                              !.cur = st.cur + 1]
          /\ out' = out /\ status' = "reading"
      BY <1>1, <2>3 DEF TacByte, GoOn
    <3>2. st.pos + st.cur < MemSize["tac"]
      BY <1>2, <2>3
    <3> QED
      BY <3>1, <3>2
  <2> QED
    BY <2>1, <2>2, <2>3
<1>4. ASSUME stores
      PROVE  /\ st' \in TacRec /\ st'.lines = st.lines /\ st'.pos = st.pos
             /\ st'.cur = st.cur + 1
             /\ st'.buf[st.pos + st.cur] = c
             /\ \A k \in 0 .. st.pos + st.cur - 1 : st'.buf[k] = st.buf[k]
  <2> DEFINE b == [st.buf EXCEPT ![st.pos + st.cur] = c]
  <2>1. st.buf \in [0 .. MemSize["tac"] - 1 -> Bytes]
    BY <1>1 DEF TacRec
  <2>2. st.pos + st.cur \in 0 .. MemSize["tac"] - 1
    BY <1>2, <1>4
  <2>3. /\ b \in [0 .. MemSize["tac"] - 1 -> Bytes] /\ b[st.pos + st.cur] = c
        /\ \A k \in 0 .. MemSize["tac"] - 1 : k # st.pos + st.cur => b[k] = st.buf[k]
    BY <2>1, <2>2
  <2>4. st' = [st EXCEPT !.buf = b, !.cur = st.cur + 1] /\ st.cur + 1 \in Nat
    BY <1>2, <1>4
  <2> HIDE DEF b
  <2>5. /\ st' \in TacRec /\ st'.lines = st.lines /\ st'.pos = st.pos
        /\ st'.cur = st.cur + 1 /\ st'.buf = b
    BY <1>1, <2>3, <2>4 DEF TacRec
  <2>6. \A k \in 0 .. st.pos + st.cur - 1 : k \in 0 .. MemSize["tac"] - 1 /\ k # st.pos + st.cur
    BY <1>2, <2>2
  <2> QED
    BY <2>3, <2>5, <2>6
<1> HIDE DEF stores
<1>5. st' \in TacRec
  BY <1>1, <1>3, <1>4
<1>6. read' \in Text /\ Len(read') = Len(read) + 1 /\ Len(read) \in Nat
      /\ read'[Len(read) + 1] = c /\ \A i \in 1 .. Len(read) : read'[i] = read[i]
  BY <1>1, Appended
<1>7. ASSUME LinesBelow(read', TAC_LEN), Cardinality(Newlines(Ended(read'))) <= TAC_LINES
      PROVE  /\ out' = <<>> /\ status' # "printing" /\ status' # "done"
             /\ status' = "reading" => TacReading'
  <2>1. TacFits /\ TacReading /\ out = <<>>
    BY <1>1, <1>7, TacHolds
  <2>2. /\ Len(st.lines) = Cardinality(Newlines(read))
        /\ \A i \in 1 .. Len(st.lines) : /\ LineStored(st.lines, st.buf, i, read)
                                         /\ Behind(st.lines, i) <= st.pos
        /\ st.pos = Behind(st.lines, Len(st.lines))
        /\ (st.pos + Len(st.lines)) + st.cur = Len(read)
        /\ \A k \in 0 .. st.cur - 1 :
             /\ st.buf[st.pos + k] = read[(st.pos + Len(st.lines) + 1) + k]
             /\ read[(st.pos + Len(st.lines) + 1) + k] # NL
    BY <2>1 DEF TacReading
  <2> DEFINE F == (st.pos + Len(st.lines)) + 1
  <2>3. /\ F \in Nat \ {0} /\ F + st.cur = Len(read) + 1
        /\ \A k \in 0 .. st.cur - 1 : F + k \in 1 .. Len(read)
    <3>1. \A p, m, q, r \in Nat : (p + m) + q = r =>
            /\ (p + m) + 1 \in Nat \ {0} /\ ((p + m) + 1) + q = r + 1
            /\ \A k \in 0 .. q - 1 : ((p + m) + 1) + k \in 1 .. r
      OBVIOUS
    <3> QED
      BY <1>2, <1>6, <2>2, <3>1
  <2>4. \A k \in 0 .. st.cur - 1 : read'[F + k] = st.buf[st.pos + k] /\ read'[F + k] # NL
    <3>1. \A k \in 0 .. st.cur - 1 : read[F + k] = st.buf[st.pos + k] /\ read[F + k] # NL
      <4>1. F = st.pos + Len(st.lines) + 1
        BY <1>2
      <4> QED
        BY <2>2, <4>1
    <3> QED
      BY <1>6, <2>3, <3>1
  <2> HIDE DEF F
  <2>5. st.cur + 1 < TAC_LEN
    <3>1. /\ st.cur + 1 \in 0 .. Len(read') /\ Len(read') - (st.cur + 1) = F - 1
      <4>1. \A f, q, r \in Nat : f # 0 /\ f + q = r + 1 =>
              q + 1 \in 0 .. r + 1 /\ (r + 1) - (q + 1) = f - 1
        OBVIOUS
      <4> QED
        BY <1>2, <1>6, <2>3, <4>1
    <3>2. \A i \in 1 .. st.cur + 1 : read'[(F - 1) + i] # NL
      <4> SUFFICES ASSUME NEW i \in 1 .. st.cur + 1 PROVE read'[(F - 1) + i] # NL
        OBVIOUS
      <4>1. /\ (F - 1) + i = F + (i - 1) /\ i - 1 \in 0 .. st.cur
            /\ i - 1 = st.cur \/ i - 1 \in 0 .. st.cur - 1
        <5>1. \A f, q \in Nat : \A k \in 1 .. q + 1 :
                /\ (f - 1) + k = f + (k - 1) /\ k - 1 \in 0 .. q
                /\ k - 1 = q \/ k - 1 \in 0 .. q - 1
          OBVIOUS
        <5>2. F \in Nat
          BY <2>3
        <5> QED
          BY <1>2, <5>1, <5>2
      <4> QED
        BY <1>1, <1>6, <2>3, <2>4, <4>1
    <3> QED
      BY <1>1, <1>6, <1>7, <3>1, <3>2, TailShort
  <2>6. \/ st' = st /\ status' = "trapped"
        \/ stores
    BY <1>1, <1>2, <1>3, <2>5
  <2>7. ASSUME stores
        PROVE  TacReading' /\ status' = "reading"
    <3>1. /\ st'.lines = st.lines /\ st'.pos = st.pos /\ st'.cur = st.cur + 1
          /\ st'.buf[st.pos + st.cur] = c
          /\ \A k \in 0 .. st.pos + st.cur - 1 : st'.buf[k] = st.buf[k]
          /\ st'.lines \in Seq(TacLineRec)
      BY <1>2, <1>4, <2>7
    <3>2. ASSUME NEW i \in 1 .. Len(st.lines)
          PROVE  LineStored(st'.lines, st'.buf, i, read')
      <4>1. i \in 0 .. Len(st.lines)
        BY <1>2
      <4>2. \A k \in 0 .. Behind(st.lines, i) - 1 : k \in 0 .. st.pos + st.cur - 1
        BY <1>2, <2>2, <4>1
      <4>3. /\ \A k \in 0 .. Behind(st.lines, i) - 1 : st'.buf[k] = st.buf[k]
            /\ \A j \in 1 .. Len(st.lines) : st'.lines[j] = st.lines[j]
            /\ Len(read) <= Len(read')
        BY <3>1, <4>2, <1>6
      <4> QED
        BY <1>1, <1>2, <1>6, <2>2, <3>1, <4>3, StoredStays
    <3>3. Len(st.lines) = Cardinality(Newlines(read'))
      BY <1>1, <2>2, NewlinesAppend
    <3>4. (st.pos + Len(st.lines)) + (st.cur + 1) = Len(read')
      BY <1>2, <1>6, <2>2
    <3>5. st.pos + (st.cur + 1) <= MemSize["tac"]
      BY <1>2, <2>7 DEF stores
    <3>6. ASSUME NEW k \in 0 .. (st.cur + 1) - 1
          PROVE  /\ st'.buf[st.pos + k] = read'[(st.pos + Len(st.lines) + 1) + k]
                 /\ read'[(st.pos + Len(st.lines) + 1) + k] # NL
      <4>1. F = st.pos + Len(st.lines) + 1
        BY <1>2 DEF F
      <4>2. k = st.cur \/ (k \in 0 .. st.cur - 1 /\ st.pos + k \in 0 .. st.pos + st.cur - 1)
        BY <1>2
      <4>3. st'.buf[st.pos + k] = read'[F + k] /\ read'[F + k] # NL
        <5>1. CASE k = st.cur
          BY <1>1, <1>6, <2>3, <3>1, <5>1
        <5>2. CASE k \in 0 .. st.cur - 1 /\ st.pos + k \in 0 .. st.pos + st.cur - 1
          BY <2>4, <3>1, <5>2
        <5> QED
          BY <4>2, <5>1, <5>2
      <4> QED
        BY <4>1, <4>3
    <3> QED
      BY <1>3, <2>1, <2>2, <2>7, <3>1, <3>2, <3>3, <3>4, <3>5, <3>6 DEF TacReading, stores
  <2> QED
    BY <1>3, <2>1, <2>6, <2>7
<1>8. /\ Ended(read') \in Text
  BY <1>6, EndedMeans
<1> QED
  BY <1>5, <1>6, <1>7, <1>8, TacNothingYet DEF TacInv, TacFits

(* A newline ends the line that is stored.                                 *)
LEMMA TacLineInv ==
  ASSUME TacInv, prog = "tac", prog' = prog, NEW c \in Bytes, Getc(c), TacLine(c)
  PROVE  TacInv'
<1> DEFINE rec  == [off |-> st.pos, len |-> st.cur]
           more == Append(st.lines, rec)
<1>1. /\ st \in TacRec /\ read \in Text /\ status = "reading" /\ c = NL
      /\ read' = Append(read, NL) /\ TAC_LINES \in Nat
      /\ st' = [st EXCEPT !.lines = TacLines, !.pos = @ + st.cur, !.cur = 0]
      /\ out' = out /\ status' = status
  BY FilterAssumption DEF TacInv, Getc, TacLine, GoOn
<1>2. /\ st.pos \in Nat /\ st.cur \in Nat /\ Len(st.lines) \in Nat
      /\ st.lines \in Seq(TacLineRec)
  BY <1>1, TacNumbers
<1>3. rec \in TacLineRec
  BY <1>2 DEF TacLineRec
<1>4. /\ st' \in TacRec /\ st'.lines = TacLines /\ st'.pos = st.pos + st.cur
      /\ st'.cur = 0 /\ st'.buf = st.buf
  <2>1. TacLines \in Seq(TacLineRec)
    BY <1>2, <1>3 DEF TacLines
  <2>2. st.pos + st.cur \in Nat
    BY <1>2
  <2> QED
    BY <1>1, <2>1, <2>2 DEF TacRec
<1>5. read' \in Text /\ Ended(read') \in Text
  BY <1>1, NLIs, Appended, EndedMeans
<1>6. ASSUME LinesBelow(read', TAC_LEN), Cardinality(Newlines(Ended(read'))) <= TAC_LINES
      PROVE  out' = <<>> /\ TacReading'
  <2>1. TacReading /\ out = <<>> /\ Len(st.lines) < TAC_LINES
    BY <1>1, <1>6, TacHolds
  <2>2. TacLines = more
    BY <2>1 DEF TacLines
  <2>3. /\ Len(more) = Len(st.lines) + 1
        /\ \A i \in 1 .. Len(st.lines) + 1 : /\ LineStored(more, st.buf, i, read')
                                             /\ Behind(more, i) <= st.pos + st.cur
        /\ Behind(more, Len(st.lines) + 1) = st.pos + st.cur
        /\ (st.pos + st.cur) + (Len(st.lines) + 1) = Len(read')
    BY <1>1, <2>1, TacStores
  <2>4. Len(st.lines) + 1 = Cardinality(Newlines(read'))
    BY <1>1, <2>1, NLIs, NewlinesAppend DEF TacReading
  <2>5. /\ ((st.pos + st.cur) + (Len(st.lines) + 1)) + 0 = Len(read')
        /\ (st.pos + st.cur) + 0 <= MemSize["tac"] /\ 0 .. 0 - 1 = {}
    BY <1>2, <2>1, <2>3 DEF TacReading
  <2> HIDE DEF more
  <2> QED
    BY <1>1, <1>4, <2>1, <2>2, <2>3, <2>4, <2>5 DEF TacReading
<1> QED
  BY <1>1, <1>4, <1>5, <1>6, TacNothingYet DEF TacInv, TacFits

(* The end of the input ends a line that has begun.                        *)
LEMMA TacEofInv ==
  ASSUME TacInv, prog = "tac", prog' = prog, Eof, TacEof
  PROVE  TacInv'
<1> DEFINE rec  == [off |-> st.pos, len |-> st.cur]
           more == Append(st.lines, rec)
<1>1. /\ st \in TacRec /\ read \in Text /\ status = "reading" /\ read' = read
      /\ st' = [st EXCEPT !.lines = IF st.cur > 0 THEN TacLines ELSE @]
      /\ out' = out /\ status' = "printing" /\ TAC_LINES \in Nat
  BY FilterAssumption DEF TacInv, Eof, TacEof
<1>2. /\ st.pos \in Nat /\ st.cur \in Nat /\ Len(st.lines) \in Nat
      /\ st.lines \in Seq(TacLineRec)
  BY <1>1, TacNumbers
<1>3. rec \in TacLineRec
  BY <1>2 DEF TacLineRec
<1>4. /\ st' \in TacRec /\ st'.lines = IF st.cur > 0 THEN TacLines ELSE st.lines
      /\ st'.buf = st.buf
  <2> DEFINE lines == IF st.cur > 0 THEN TacLines ELSE st.lines
  <2>1. lines \in Seq(TacLineRec)
    BY <1>2, <1>3 DEF TacLines
  <2>2. st' = [st EXCEPT !.lines = lines]
    BY <1>1
  <2> HIDE DEF lines
  <2>3. st' \in TacRec /\ st'.lines = lines /\ st'.buf = st.buf
    BY <1>1, <2>1, <2>2 DEF TacRec
  <2> QED
    BY <2>3 DEF lines
<1>5. Ended(read) \in Text /\ Len(read) \in Nat
  BY <1>1, EndedMeans
<1>6. ASSUME TacFits
      PROVE  out' = <<>> /\ TacPrinting'
  <2>1. /\ TacReading /\ out = <<>> /\ Cardinality(Newlines(Ended(read))) <= TAC_LINES
    BY <1>1, <1>6 DEF TacInv, TacReading, TacFits
  <2>2. /\ Len(st.lines) = Cardinality(Newlines(read))
        /\ \A i \in 1 .. Len(st.lines) : LineStored(st.lines, st.buf, i, read)
        /\ st.pos = Behind(st.lines, Len(st.lines))
        /\ (st.pos + Len(st.lines)) + st.cur = Len(read)
    BY <2>1 DEF TacReading
  <2>3. CASE st.cur = 0
    <3>1. Final(st.lines, Len(st.lines)) = Len(read)
      BY <1>2, <2>2, <2>3 DEF Final
    <3>2. EndsLine(read)
      <4>1. Len(st.lines) = 0 => read = <<>>
        BY <1>1, <1>2, <2>2, <2>3 DEF Behind, Text
      <4>2. Len(st.lines) # 0 => Len(st.lines) \in 1 .. Len(st.lines)
        BY <1>2
      <4>3. Len(st.lines) # 0 => read[Len(read)] = NL
        BY <2>2, <3>1, <4>2 DEF LineStored, IsLine
      <4> QED
        BY <4>1, <4>3 DEF EndsLine
    <3>3. Ended(read) = read
      BY <1>1, <3>2, EndedMeans
    <3>4. st'.lines = st.lines
      BY <1>4, <2>3
    <3>5. Len(<<>>) = Len(read) - Len(read)
      BY <1>5
    <3> QED
      BY <1>1, <1>4, <2>1, <2>2, <3>1, <3>3, <3>4, <3>5 DEF TacPrinting
  <2>4. CASE st.cur > 0
    <3>1. ~EndsLine(read) /\ Ended(read) = Append(read, NL)
      <4>1. /\ st.cur - 1 \in 0 .. st.cur - 1
            /\ (st.pos + Len(st.lines) + 1) + (st.cur - 1) = Len(read) /\ Len(read) # 0
        BY <1>2, <2>2, <2>4
      <4>2. read[Len(read)] # NL /\ read # <<>>
        BY <2>1, <4>1 DEF TacReading
      <4> QED
        BY <1>1, <4>2, EndedMeans DEF EndsLine
    <3>2. Len(st.lines) < TAC_LINES
      <4>1. Cardinality(Newlines(Ended(read))) = Cardinality(Newlines(read)) + 1
        BY <1>1, <3>1, EndedLines
      <4> QED
        BY <1>1, <1>2, <2>1, <2>2, <4>1
    <3>3. st'.lines = more
      BY <1>4, <2>4, <3>2 DEF TacLines
    <3>4. /\ Len(more) = Len(st.lines) + 1
          /\ \A i \in 1 .. Len(st.lines) + 1 : LineStored(more, st.buf, i, Ended(read))
          /\ Behind(more, Len(st.lines) + 1) = st.pos + st.cur
          /\ (st.pos + st.cur) + (Len(st.lines) + 1) = Len(Ended(read))
      BY <1>1, <2>1, <3>1, TacStores
    <3> HIDE DEF more
    <3>5. /\ Final(more, Len(more)) = Len(Ended(read))
          /\ Len(<<>>) = Len(Ended(read)) - Len(Ended(read))
      <4>1. Len(Ended(read)) \in Nat
        BY <1>5 DEF Text
      <4> QED
        BY <3>4, <4>1 DEF Final
    <3> QED
      BY <1>1, <1>4, <2>1, <3>3, <3>4, <3>5 DEF TacPrinting
  <2> QED
    BY <1>2, <2>3, <2>4
<1> QED
  BY <1>1, <1>4, <1>5, <1>6, TacNothingYet DEF TacInv, TacFits

(* A line comes behind those that stood behind it.                         *)
LEMMA TacPrints ==
  ASSUME NEW printed \in Text, NEW text \in Text, NEW line \in Text, Backwards(printed, text),
         NEW F \in Nat \ {0}, NEW L \in Nat, L <= Len(text), IsLine(text, F, L),
         Len(printed) = Len(text) - L, Len(line) = L - F,
         \A k \in 1 .. Len(line) : line[k] = text[(F + k) - 1]
  PROVE  /\ Backwards(printed \o line, text)
         /\ Backwards(Append(printed \o line, NL), text)
         /\ Len(printed \o line) = Len(text) - F
         /\ Len(Append(printed \o line, NL)) = (Len(text) - F) + 1
<1> DEFINE q == printed \o line
           r == Append(q, NL)
           N == Len(text)
<1>1. /\ N \in Nat /\ Len(printed) \in Nat /\ F <= L /\ text[L] = NL
      /\ DOMAIN printed = 1 .. N - L
  BY DEF Text, IsLine
<1>2. /\ q \in Text /\ Len(q) = N - F
      /\ \A j \in 1 .. N - L : q[j] = printed[j]
      /\ \A j \in 1 .. L - F : q[(N - L) + j] = line[j]
  <2>1. /\ q \in Text /\ Len(q) = Len(printed) + Len(line)
        /\ \A j \in 1 .. Len(printed) : q[j] = printed[j]
        /\ \A j \in 1 .. Len(line) : q[Len(printed) + j] = line[j]
    BY Joined
  <2> HIDE DEF q
  <2>2. (N - L) + (L - F) = N - F
    BY <1>1
  <2> QED
    BY <2>1, <2>2
<1> HIDE DEF q
<1>3. /\ r \in Text /\ Len(r) = (N - F) + 1 /\ DOMAIN q = 1 .. N - F
      /\ DOMAIN r = 1 .. (N - F) + 1 /\ r[(N - F) + 1] = NL
      /\ \A j \in 1 .. N - F : r[j] = q[j]
  <2>1. /\ r \in Text /\ Len(r) = Len(q) + 1 /\ DOMAIN q = 1 .. Len(q)
        /\ DOMAIN r = 1 .. Len(q) + 1 /\ r[Len(q) + 1] = NL
        /\ \A j \in 1 .. Len(q) : r[j] = q[j]
    BY <1>2, NLIs, Appended
  <2> QED
    BY <1>2, <2>1
<1> HIDE DEF r
(* The last position of the line is the newline, the others are in line.   *)
<1>4. /\ \A i \in F .. L : r[(N - L + i - F) + 1] = text[i]
      /\ \A j \in 1 .. N - L : r[j] = printed[j]
  <2>1. ASSUME NEW i \in F .. L PROVE r[(N - L + i - F) + 1] = text[i]
    <3>1. CASE i = L
      <4>1. (N - L + i - F) + 1 = (N - F) + 1
        BY <1>1, <3>1
      <4> QED
        BY <1>1, <1>3, <3>1, <4>1
    <3>2. CASE i # L
      <4> DEFINE j == (i - F) + 1
      <4>1. /\ j \in 1 .. L - F /\ (N - L + i - F) + 1 = (N - L) + j
            /\ (N - L) + j \in 1 .. N - F /\ (F + j) - 1 = i
        BY <1>1, <3>2
      <4> HIDE DEF j
      <4>2. line[j] = text[(F + j) - 1]
        BY <4>1
      <4> QED
        BY <1>2, <1>3, <4>1, <4>2
    <3> QED
      BY <3>1, <3>2
  <2>2. \A j \in 1 .. N - L : j \in 1 .. N - F
    BY <1>1
  <2> QED
    BY <1>2, <1>3, <2>1, <2>2
<1>5. Backwards(r, text)
  <2> SUFFICES ASSUME NEW e \in Newlines(text), NEW a \in 1 .. N, IsLine(text, a, e),
                      NEW i \in a .. e, N - e + i - a + 1 \in 1 .. (N - F) + 1
               PROVE  r[N - e + i - a + 1] = text[i]
    BY <1>3 DEF Backwards
  <2>1. e \in Nat /\ a \in Nat \ {0} /\ a <= e /\ e <= N /\ i \in Nat
    <3>1. DOMAIN text = 1 .. N
      BY DEF Text
    <3>2. e \in 1 .. N
      BY <3>1 DEF Newlines
    <3>3. a <= e
      BY DEF IsLine
    <3> QED
      BY <1>1, <3>2, <3>3
  <2>2. CASE N - e + i - a + 1 \in 1 .. N - L
    <3>1. printed[N - e + i - a + 1] = text[i]
      BY <1>1, <2>2 DEF Backwards
    <3> QED
      BY <1>4, <2>2, <3>1
  <2>3. CASE N - e + i - a + 1 \notin 1 .. N - L
    <3> DEFINE p == (e + a) - i
    <3>1. p \in Nat /\ p \in a .. e /\ p \in F .. L
      BY <1>1, <2>1, <2>3
    <3> HIDE DEF p
    <3>2. a = F /\ e = L
      BY <1>1, <2>1, <3>1, LineUnique
    <3>3. N - e + i - a + 1 = (N - L + i - F) + 1
      BY <1>1, <2>1, <3>2
    <3> QED
      BY <1>4, <3>2, <3>3
  <2> QED
    BY <2>2, <2>3
<1>6. Backwards(q, text)
  <2>1. \A p \in 1 .. N - F : p \in 1 .. (N - F) + 1 /\ q[p] = r[p]
    BY <1>1, <1>3
  <2> SUFFICES ASSUME NEW e \in Newlines(text), NEW a \in 1 .. N, IsLine(text, a, e),
                      NEW i \in a .. e, N - e + i - a + 1 \in 1 .. N - F
               PROVE  q[N - e + i - a + 1] = text[i]
    BY <1>3 DEF Backwards
  <2>2. N - e + i - a + 1 \in DOMAIN r
    BY <1>3, <2>1
  <2>3. r[N - e + i - a + 1] = text[i]
    BY <1>5, <2>2 DEF Backwards
  <2> QED
    BY <2>1, <2>3
<1> QED
  BY <1>2, <1>3, <1>5, <1>6 DEF q, r

(* The loop prints the last line there is, or traps.                       *)
LEMMA TacPrintInv ==
  ASSUME TacInv, prog = "tac", prog' = prog, status = "printing", read' = read, TacPrint
  PROVE  TacInv'
<1> DEFINE n    == Len(st.lines)
           text == TacText(Last(st.lines))
           next == [st EXCEPT !.lines = Front(@)]
           E    == Ended(read)
           F    == First(st.lines, n)
           L    == Final(st.lines, n)
<1>1. st \in TacRec /\ read \in Text /\ st.lines # <<>> /\ PrintLine(text, next, "printing")
  BY DEF TacInv, TacPrint
<1>2. /\ st.lines \in Seq(TacLineRec) /\ n \in Nat \ {0} /\ st.heap \in Nat
      /\ \A i \in 1 .. n : st.lines[i].off \in Nat /\ st.lines[i].len \in Nat
      /\ \A i \in 0 .. n : Behind(st.lines, i) \in Nat
  <2>1. /\ st.lines \in Seq(TacLineRec) /\ n \in Nat /\ st.heap \in Nat
        /\ \A i \in 1 .. n : st.lines[i].off \in Nat /\ st.lines[i].len \in Nat
        /\ \A i \in 0 .. n : Behind(st.lines, i) \in Nat
    BY <1>1, TacNumbers
  <2>2. n # 0
    BY <1>1, <2>1
  <2> QED
    BY <2>1, <2>2
<1>3. /\ Front(st.lines) \in Seq(TacLineRec) /\ Len(Front(st.lines)) = n - 1
      /\ \A i \in 1 .. n - 1 : Front(st.lines)[i] = st.lines[i]
      /\ Last(st.lines) = st.lines[n]
  BY <1>2 DEF Front, Last
<1>4. Alloc(st.heap, 1) \in Nat
  BY <1>2, AllocNat
<1>5. /\ st' = [next EXCEPT !.heap = Alloc(@, 1)]
      /\ status' \in {"printing", "trapped"}
  BY <1>1 DEF PrintLine
<1>6. /\ st' \in TacRec /\ st'.lines = Front(st.lines) /\ st'.buf = st.buf
  <2>1. next \in TacRec /\ next.lines = Front(st.lines) /\ next.buf = st.buf
        /\ next.heap = st.heap
    BY <1>1, <1>3 DEF TacRec
  <2> HIDE DEF next
  <2> QED
    BY <1>4, <1>5, <2>1 DEF TacRec
<1>7. ASSUME TacFits
      PROVE  /\ out' \in Text /\ Len(out') <= Len(E) /\ Backwards(out', E)
             /\ status' # "done" /\ status' # "reading"
             /\ status' = "printing" => TacPrinting'
  <2>1. out \in Text /\ Backwards(out, E) /\ TacPrinting
    BY <1>7 DEF TacInv
  <2>2. /\ \A i \in 1 .. n : LineStored(st.lines, st.buf, i, E)
        /\ Len(out) = Len(E) - L
    BY <2>1 DEF TacPrinting
  <2>3. E \in Text /\ Len(E) \in Nat
    BY <1>1, EndedMeans DEF Text
  <2>4. /\ F = st.lines[n].off + n /\ L = F + st.lines[n].len
        /\ F \in Nat \ {0} /\ L \in Nat /\ st.lines[n].off \in Nat /\ st.lines[n].len \in Nat
    <3>1. st.lines[n].off \in Nat /\ st.lines[n].len \in Nat
      BY <1>2
    <3>2. Behind(st.lines, n) = st.lines[n].off + st.lines[n].len
      BY <1>2 DEF Behind
    <3>3. F = st.lines[n].off + n /\ L = (st.lines[n].off + st.lines[n].len) + n
      BY <3>2 DEF First, Final
    <3> HIDE DEF n, F, L
    <3>4. \A o, m \in Nat : \A k \in Nat \ {0} :
            /\ o + k \in Nat \ {0} /\ (o + m) + k \in Nat /\ (o + m) + k = (o + k) + m
      OBVIOUS
    <3>5. n \in Nat \ {0}
      BY <1>2
    <3> QED
      BY <3>1, <3>3, <3>4, <3>5
  <2>5. /\ L <= Len(E) /\ IsLine(E, F, L)
        /\ st.lines[n].off = Behind(st.lines, n - 1)
        /\ \A k \in 0 .. st.lines[n].len - 1 : st.buf[st.lines[n].off + k] = E[F + k]
    <3>1. n \in 1 .. n
      BY <1>2
    <3> QED
      BY <2>2, <3>1 DEF LineStored
  <2> HIDE DEF F, L, E, n
  <2>6. /\ text \in Text /\ Len(text) = L - F
        /\ \A k \in 1 .. Len(text) : text[k] = E[(F + k) - 1]
    <3> DEFINE len == st.lines[n].len
               off == st.lines[n].off
    <3>1. text = [k \in 1 .. len |-> st.buf[off + k - 1]]
      BY <1>3 DEF TacText
    <3>2. ASSUME NEW k \in 1 .. len
          PROVE  st.buf[off + k - 1] = E[(F + k) - 1] /\ E[(F + k) - 1] \in Bytes
      <4>1. /\ k - 1 \in 0 .. len - 1 /\ off + (k - 1) = off + k - 1
            /\ F + (k - 1) = (F + k) - 1 /\ F + (k - 1) \in 1 .. L
        BY <2>4
      <4>2. st.buf[off + k - 1] = E[(F + k) - 1]
        BY <2>5, <4>1
      <4>3. (F + k) - 1 \in 1 .. Len(E)
        BY <2>3, <2>4, <2>5, <4>1
      <4> QED
        BY <2>3, <4>2, <4>3 DEF Text
    <3>3. len \in Nat /\ L - F = len
      BY <2>4
    <3> HIDE DEF len, off, text
    <3>4. text \in [1 .. len -> Bytes] /\ \A k \in 1 .. len : text[k] = E[(F + k) - 1]
      BY <3>1, <3>2
    <3>5. text \in Seq(Bytes) /\ Len(text) = len
      BY <3>3, <3>4
    <3> QED
      BY <3>3, <3>4, <3>5 DEF Text
  <2> HIDE DEF text
  <2>7. /\ out' \in Text
        /\ \/ out' = out \o text /\ status' = "trapped"
           \/ out' = Append(out \o text, NL) /\ status' = "printing"
    BY <1>1, <2>1, <2>6, LinePrinted
  <2>8. /\ Backwards(out \o text, E) /\ Backwards(Append(out \o text, NL), E)
        /\ Len(out \o text) = Len(E) - F
        /\ Len(Append(out \o text, NL)) = (Len(E) - F) + 1
    <3>1. /\ out \in Text /\ E \in Text /\ text \in Text /\ Backwards(out, E)
          /\ F \in Nat \ {0} /\ L \in Nat /\ L <= Len(E) /\ IsLine(E, F, L)
          /\ Len(out) = Len(E) - L /\ Len(text) = L - F
      BY <2>1, <2>2, <2>3, <2>4, <2>5, <2>6
    <3>2. \A k \in 1 .. Len(text) : text[k] = E[(F + k) - 1]
      BY <2>6
    <3> QED
      BY <3>1, <3>2, TacPrints, ZenonT(60)
  <2>9. Len(out') <= Len(E) /\ Backwards(out', E)
    <3>1. Len(E) - F <= Len(E) /\ (Len(E) - F) + 1 <= Len(E)
      BY <2>3, <2>4
    <3> QED
      BY <2>7, <2>8, <3>1
  <2>10. ASSUME status' = "printing"
         PROVE  TacPrinting'
    <3>1. E = Ended(read')
      BY <1>7 DEF E
    <3>2. Len(out') = (Len(E) - F) + 1
      BY <2>7, <2>8, <2>10
    <3>3. ASSUME NEW i \in 1 .. n - 1
          PROVE  LineStored(Front(st.lines), st.buf, i, E)
      <4>1. /\ i \in 1 .. n /\ i # 0
            /\ i - 1 # 0 => i - 1 \in 1 .. n - 1
        BY <1>2
      <4>2. /\ Front(st.lines)[i] = st.lines[i]
            /\ i - 1 # 0 => Front(st.lines)[i - 1] = st.lines[i - 1]
        BY <1>3, <4>1
      <4>3. /\ Behind(Front(st.lines), i) = Behind(st.lines, i)
            /\ Behind(Front(st.lines), i - 1) = Behind(st.lines, i - 1)
        BY <4>2 DEF Behind
      <4>4. /\ First(Front(st.lines), i) = First(st.lines, i)
            /\ Final(Front(st.lines), i) = Final(st.lines, i)
        BY <4>2, <4>3 DEF First, Final
      <4>5. LineStored(st.lines, st.buf, i, E)
        BY <2>2, <4>1
      <4> QED
        BY <4>2, <4>3, <4>4, <4>5 DEF LineStored
    <3>4. Final(Front(st.lines), n - 1) = F - 1
      <4>1. n - 1 # 0 => n - 1 \in 1 .. n - 1
        BY <1>2
      <4>2. Behind(Front(st.lines), n - 1) = Behind(st.lines, n - 1)
        BY <1>3, <4>1 DEF Behind
      <4>3. Final(Front(st.lines), n - 1) = st.lines[n].off + (n - 1)
        BY <2>5, <4>2 DEF Final
      <4>4. \A o \in Nat : \A k \in Nat \ {0} : o + (k - 1) = (o + k) - 1
        OBVIOUS
      <4> QED
        BY <1>2, <2>4, <4>3, <4>4
    <3>5. (Len(E) - F) + 1 = Len(E) - (F - 1)
      BY <2>3, <2>4
    <3> QED
      BY <1>3, <1>6, <3>1, <3>2, <3>3, <3>4, <3>5 DEF TacPrinting
  <2> QED
    BY <2>7, <2>9, <2>10
<1> QED
  BY <1>1, <1>6, <1>7 DEF TacInv, TacFits

(* No line is left to print.                                               *)
LEMMA TacExitInv ==
  ASSUME TacInv, prog = "tac", prog' = prog, status = "printing", read' = read, TacExit
  PROVE  TacInv'
<1>1. /\ st \in TacRec /\ read \in Text /\ st.lines = <<>>
      /\ status' = "done" /\ st' = st /\ out' = out
  BY DEF TacInv, TacExit
<1>2. TacFits => /\ out \in Text /\ Backwards(out, Ended(read)) /\ TacPrinting
                 /\ Len(out) <= Len(Ended(read))
  BY DEF TacInv
<1>3. TacFits => Len(out) = Len(Ended(read))
  <2>1. Len(Ended(read)) \in Nat
    BY <1>1, EndedMeans DEF Text
  <2>2. Final(<<>>, Len(<<>>)) = 0
    BY DEF Final, Behind
  <2> QED
    BY <1>1, <1>2, <2>1, <2>2 DEF TacPrinting
<1> QED
  BY <1>1, <1>2, <1>3 DEF TacInv, TacFits

(* Every step of tac.                                                      *)
LEMMA TacStep == TacInv /\ TacNext /\ prog' = prog => TacInv'
BY TacByteInv, TacLineInv, TacEofInv, TacPrintInv, TacExitInv DEF TacNext

-----------------------------------------------------------------------------
(* uniq                                                                    *)
LEMMA UniqBegins ==
  ASSUME NEW flags \in SUBSET {"c", "d", "u"}, UniqInit(flags), read = <<>>, out = <<>>,
         status = "reading"
  PROVE  UniqInv
<1>1. Alloc(Alloc(ArgvEnd, UNIQ_LINE), UNIQ_LINE) \in Nat
  <2>1. MAX_ARGV \in Nat /\ UNIQ_LINE \in Nat
    BY FilterAssumption
  <2>2. ArgvEnd \in Nat
    BY <2>1, AllocNat DEF ArgvEnd
  <2>3. Alloc(ArgvEnd, UNIQ_LINE) \in Nat
    BY <2>1, <2>2, AllocNat
  <2> QED
    BY <2>1, <2>3, AllocNat
<1>2. <<>> \in Text /\ Len(<<>>) = 0 /\ (<<>> \o <<>>) \o <<>> = <<>>
  BY DEF Text
<1>3. st \in UniqRec /\ st.prev = <<>> /\ st.curr = <<>>
  BY <1>1, <1>2 DEF UniqInit, UniqRec
<1> QED
  BY <1>2, <1>3 DEF UniqInv, UniqPromise, EndsLine, CurrHolds, NoNL

(* What has been read is what is printed, the line before, and curr.       *)
LEMMA UniqParts ==
  ASSUME UniqInv, prog = "uniq", status = "reading", st.flags = {}, Fits(UNIQ_LINE \div 2)
  PROVE  /\ st \in UniqRec /\ read \in Text /\ out \in Text
         /\ st.prev \in Text /\ st.curr \in Text
         /\ Len(out) \in Nat /\ Len(st.prev) \in Nat /\ Len(st.curr) \in Nat
         /\ Len(read) = (Len(out) + Len(st.prev)) + Len(st.curr)
         /\ \A i \in 1 .. Len(out) : read[i] = out[i]
         /\ \A i \in 1 .. Len(st.prev) : read[Len(out) + i] = st.prev[i]
         /\ \A i \in 1 .. Len(st.curr) : read[(Len(out) + Len(st.prev)) + i] = st.curr[i]
         /\ out \o st.prev \in Text /\ (out \o st.prev) \o st.curr = read
         /\ EndsLine(out) /\ EndsLine(st.prev) /\ CurrHolds
         /\ ~st.hasPrev => st.prev = <<>>
<1>1. /\ st \in UniqRec /\ read \in Text /\ out \in Text
      /\ (out \o st.prev) \o st.curr = read
      /\ EndsLine(out) /\ EndsLine(st.prev) /\ CurrHolds
      /\ ~st.hasPrev => st.prev = <<>>
  BY DEF UniqInv
<1>2. st.prev \in Text /\ st.curr \in Text
  BY <1>1 DEF UniqRec
<1> DEFINE q == out \o st.prev
<1>3. /\ q \in Text /\ Len(q) = Len(out) + Len(st.prev)
      /\ Len(out) \in Nat /\ Len(st.prev) \in Nat /\ Len(st.curr) \in Nat
      /\ \A i \in 1 .. Len(out) : q[i] = out[i]
      /\ \A i \in 1 .. Len(st.prev) : q[Len(out) + i] = st.prev[i]
  BY <1>1, <1>2, Joined
<1>4. /\ Len(q \o st.curr) = Len(q) + Len(st.curr)
      /\ \A i \in 1 .. Len(q) : (q \o st.curr)[i] = q[i]
      /\ \A i \in 1 .. Len(st.curr) : (q \o st.curr)[Len(q) + i] = st.curr[i]
  BY <1>2, <1>3, Joined
<1>5. q \o st.curr = read
  BY <1>1
<1> HIDE DEF q
<1>6. /\ \A i \in 1 .. Len(out) : i \in 1 .. Len(q)
      /\ \A i \in 1 .. Len(st.prev) : Len(out) + i \in 1 .. Len(q)
  BY <1>3
<1>7. /\ \A i \in 1 .. Len(out) : read[i] = out[i]
      /\ \A i \in 1 .. Len(st.prev) : read[Len(out) + i] = st.prev[i]
      /\ \A i \in 1 .. Len(st.curr) : read[(Len(out) + Len(st.prev)) + i] = st.curr[i]
      /\ Len(read) = (Len(out) + Len(st.prev)) + Len(st.curr)
  BY <1>3, <1>4, <1>5, <1>6
<1> QED
  BY <1>1, <1>2, <1>3, <1>7 DEF q

(* Two lines fit the buffer: curr and what comes to it before the newline. *)
LEMMA UniqRoom ==
  ASSUME UniqInv, prog = "uniq", status = "reading", st.flags = {}, Fits(UNIQ_LINE \div 2),
         NEW t \in Text, NEW d \in Nat, Len(t) = Len(read) + d,
         \A i \in 1 .. Len(read) : t[i] = read[i],
         \A i \in 1 .. d : t[Len(read) + i] # NL,
         LinesBelow(t, UNIQ_LINE \div 2)
  PROVE  Len(st.curr) + d < UNIQ_LINE
<1> DEFINE N == UNIQ_LINE \div 2
           P == Len(out)
           K == Len(st.prev)
           C == Len(st.curr)
<1>1. N \in Nat /\ \A n \in Nat : n < N + N => n < UNIQ_LINE
  BY FilterAssumption
<1>2. /\ P \in Nat /\ K \in Nat /\ C \in Nat
      /\ Len(read) = (P + K) + C
      /\ \A i \in 1 .. K : read[P + i] = st.prev[i]
      /\ \A i \in 1 .. C : read[(P + K) + i] = st.curr[i]
      /\ CurrHolds
  BY UniqParts
<1> HIDE DEF N, P, K, C
<1>3. /\ \A i \in 1 .. K : t[P + i] = st.prev[i]
      /\ \A i \in 1 .. C : t[(P + K) + i] = st.curr[i]
  <2>1. /\ \A i \in 1 .. K : P + i \in 1 .. Len(read)
        /\ \A i \in 1 .. C : (P + K) + i \in 1 .. Len(read)
    BY <1>2
  <2> QED
    BY <1>2, <2>1
(* A piece of curr without a newline, and what comes to it, is short.      *)
<1>4. ASSUME NEW n \in 0 .. C, \A i \in n + 1 .. C : st.curr[i] # NL
      PROVE  (C - n) + d < N
  <2> DEFINE m == (C - n) + d
  <2>1. m \in 0 .. Len(t) /\ Len(t) - m = (P + K) + n
    BY <1>2
  <2>2. \A i \in 1 .. m : t[((P + K) + n) + i] # NL
    <3> SUFFICES ASSUME NEW i \in 1 .. m PROVE t[((P + K) + n) + i] # NL
      OBVIOUS
    <3>1. CASE n + i <= C
      <4>1. n + i \in n + 1 .. C /\ n + i \in 1 .. C /\ ((P + K) + n) + i = (P + K) + (n + i)
        BY <1>2, <3>1
      <4> QED
        BY <1>3, <1>4, <4>1
    <3>2. CASE ~(n + i <= C)
      <4>1. (n + i) - C \in 1 .. d /\ ((P + K) + n) + i = Len(read) + ((n + i) - C)
        BY <1>2, <3>2
      <4> QED
        BY <4>1
    <3> QED
      BY <3>1, <3>2
  <2> HIDE DEF m
  <2>3. m < N
    BY <1>1, <2>1, <2>2, TailShort DEF N
  <2> QED
    BY <2>3 DEF m
<1>5. CASE NoNL(st.curr)
  <2>1. (C - 0) + d < N
    <3>1. 0 \in 0 .. C /\ \A i \in 0 + 1 .. C : st.curr[i] # NL
      BY <1>2, <1>5 DEF NoNL, C
    <3> QED
      BY <1>4, <3>1
  <2> QED
    BY <1>1, <1>2, <2>1 DEF C
<1>6. CASE /\ IsLine(st.prev, 1, K) /\ StandsAt(st.prev, st.curr, 0)
           /\ \A i \in K + 1 .. C : st.curr[i] # NL
  <2>1. K <= C /\ \A k \in 1 .. K - 1 : st.prev[k] # NL
    BY <1>2, <1>6 DEF StandsAt, IsLine, C, K
  <2>2. (C - K) + d < N
    <3>1. K \in 0 .. C
      BY <1>2, <2>1
    <3> QED
      BY <1>4, <1>6, <3>1
  <2>3. K <= N
    <3> SUFFICES ASSUME K > N PROVE FALSE
      BY <1>1, <1>2
    <3>1. P \in 0 .. Len(t) - N
      BY <1>1, <1>2
    <3>2. PICK k \in 1 .. N : t[P + k] = NL
      BY <3>1 DEF LinesBelow, N
    <3>3. k \in 1 .. K /\ k \in 1 .. K - 1
      BY <1>1, <1>2
    <3> QED
      BY <1>3, <2>1, <3>2, <3>3
  <2>4. C + d < N + N /\ C + d \in Nat
    BY <1>1, <1>2, <2>1, <2>2, <2>3
  <2> QED
    BY <1>1, <2>4 DEF C
<1> QED
  BY <1>2, <1>5, <1>6 DEF CurrHolds, C, K

(* A byte that is no newline.                                              *)
LEMMA UniqByteInv ==
  ASSUME UniqInv, prog = "uniq", prog' = prog, NEW c \in Bytes, Getc(c), UniqByte(c)
  PROVE  UniqInv'
<1> DEFINE b == IF Len(st.curr) < UNIQ_LINE - 1 THEN Append(st.curr, c) ELSE st.curr
<1>1. /\ st \in UniqRec /\ read \in Text /\ status = "reading" /\ status' = status
      /\ read' = Append(read, c) /\ out' = out /\ c # NL
      /\ st' = [st EXCEPT !.curr = b] /\ UNIQ_LINE \in Nat /\ UNIQ_LINE \div 2 \in Nat
  BY FilterAssumption DEF UniqInv, Getc, UniqByte, GoOn
<1>2. st.curr \in Text /\ b \in Text
  BY <1>1, Appended DEF UniqRec
<1> HIDE DEF b
<1>3. /\ st' \in UniqRec /\ st'.curr = b /\ st'.prev = st.prev /\ st'.flags = st.flags
      /\ st'.hasPrev = st.hasPrev
  BY <1>1, <1>2 DEF UniqRec
<1>4. /\ read' \in Text /\ Len(read') = Len(read) + 1 /\ read'[Len(read) + 1] = c
      /\ \A i \in 1 .. Len(read) : read'[i] = read[i]
  BY <1>1, Appended
<1>5. ASSUME st.flags = {}, LinesBelow(read', UNIQ_LINE \div 2)
      PROVE  /\ out \in Text /\ (out \o st.prev) \o b = read'
             /\ EndsLine(out) /\ EndsLine(st.prev) /\ CurrHolds'
             /\ ~st.hasPrev => st.prev = <<>>
  <2>1. Fits(UNIQ_LINE \div 2)
    BY <1>1, <1>5, FitsBefore DEF Fits
  <2>2. /\ out \in Text /\ (out \o st.prev) \o st.curr = read /\ out \o st.prev \in Text
        /\ EndsLine(out) /\ EndsLine(st.prev) /\ CurrHolds
        /\ ~st.hasPrev => st.prev = <<>>
        /\ Len(st.prev) \in Nat /\ Len(st.curr) \in Nat
    BY <1>1, <1>5, <2>1, UniqParts
  <2>3. b = Append(st.curr, c)
    <3>1. \A i \in 1 .. 1 : read'[Len(read) + i] # NL
      BY <1>1, <1>4
    <3>2. Len(st.curr) + 1 < UNIQ_LINE
      BY <1>1, <1>4, <1>5, <2>1, <3>1, UniqRoom
    <3>3. Len(st.curr) < UNIQ_LINE - 1
      BY <1>1, <2>2, <3>2
    <3> QED
      BY <3>3 DEF b
  <2>4. (out \o st.prev) \o b = read'
    <3>1. \A s, t \in Text : s \o Append(t, c) = Append(s \o t, c)
      BY JoinAppend
    <3> QED
      BY <1>1, <1>2, <2>2, <2>3, <3>1
  <2>5. /\ Len(b) = Len(st.curr) + 1 /\ b[Len(st.curr) + 1] = c
        /\ \A i \in 1 .. Len(st.curr) : b[i] = st.curr[i]
    BY <1>2, <2>3, Appended
  <2>6. CASE NoNL(st.curr)
    <3>1. \A i \in 1 .. Len(b) : i \in 1 .. Len(st.curr) \/ i = Len(st.curr) + 1
      BY <2>2, <2>5
    <3>2. NoNL(b)
      BY <1>1, <2>5, <2>6, <3>1 DEF NoNL
    <3> QED
      BY <1>3, <2>2, <2>4, <3>2 DEF CurrHolds
  <2>7. CASE /\ IsLine(st.prev, 1, Len(st.prev)) /\ StandsAt(st.prev, st.curr, 0)
             /\ \A i \in Len(st.prev) + 1 .. Len(st.curr) : st.curr[i] # NL
    <3>1. /\ Len(st.prev) <= Len(st.curr)
          /\ \A i \in 1 .. Len(st.prev) : st.curr[i] = st.prev[i]
      BY <2>2, <2>7 DEF StandsAt
    <3>2. StandsAt(st.prev, b, 0)
      <4>1. /\ 0 + Len(st.prev) <= Len(b)
            /\ \A i \in 1 .. Len(st.prev) : i \in 1 .. Len(st.curr) /\ 0 + i = i
        BY <2>2, <2>5, <3>1
      <4> QED
        BY <2>5, <3>1, <4>1 DEF StandsAt
    <3>3. \A i \in Len(st.prev) + 1 .. Len(b) : b[i] # NL
      <4>1. \A i \in Len(st.prev) + 1 .. Len(b) :
              \/ i \in Len(st.prev) + 1 .. Len(st.curr) /\ i \in 1 .. Len(st.curr)
              \/ i = Len(st.curr) + 1
        BY <2>2, <2>5
      <4> QED
        BY <1>1, <2>5, <2>7, <4>1
    <3> QED
      BY <1>3, <2>2, <2>4, <2>7, <3>2, <3>3 DEF CurrHolds
  <2> QED
    BY <2>2, <2>6, <2>7 DEF CurrHolds
<1> QED
  BY <1>1, <1>3, <1>4, <1>5 DEF UniqInv, UniqPromise, Fits

(* A whole line in curr, with its newline.                                 *)
LEMMA UniqEnds ==
  ASSUME UniqInv, prog = "uniq", status = "reading", st.flags = {}, Fits(UNIQ_LINE \div 2)
  PROVE  UniqCurr = Append(st.curr, NL)
<1>1. /\ read \in Text /\ Len(read) \in Nat /\ Len(st.curr) \in Nat
  BY UniqParts DEF Text
<1>2. /\ Len(read) = Len(read) + 0 /\ 0 \in Nat /\ \A i \in 1 .. 0 : read[Len(read) + i] # NL
  BY <1>1
<1>3. Len(st.curr) + 0 < UNIQ_LINE
  BY <1>1, <1>2, UniqRoom DEF Fits
<1>4. Len(st.curr) < UNIQ_LINE
  BY <1>1, <1>3
<1> QED
  BY <1>4 DEF UniqCurr

(* A line that repeats the one before stays in curr.                       *)
LEMMA UniqRepeatInv ==
  ASSUME UniqInv, prog = "uniq", prog' = prog, NEW c \in Bytes, Getc(c), UniqRepeat(c)
  PROVE  UniqInv'
<1>1. /\ st \in UniqRec /\ read \in Text /\ status = "reading" /\ status' = status
      /\ read' = Append(read, NL) /\ out' = out /\ st.prev = UniqCurr
      /\ st' = [st EXCEPT !.count = @ + 1, !.curr = UniqCurr] /\ UNIQ_LINE \div 2 \in Nat
  BY FilterAssumption DEF UniqInv, Getc, UniqRepeat, GoOn
<1>2. st.curr \in Text /\ st.prev \in Text /\ UniqCurr \in Text /\ st.count + 1 \in Nat
  BY <1>1 DEF UniqRec
<1>3. /\ st' \in UniqRec /\ st'.curr = UniqCurr /\ st'.prev = st.prev
      /\ st'.flags = st.flags /\ st'.hasPrev = st.hasPrev
  BY <1>1, <1>2 DEF UniqRec
<1>4. read' \in Text
  BY <1>1, NLIs, Appended
<1>5. ASSUME st.flags = {}, LinesBelow(read', UNIQ_LINE \div 2)
      PROVE  /\ out \in Text /\ (out \o st.prev) \o UniqCurr = read'
             /\ EndsLine(out) /\ EndsLine(st.prev) /\ CurrHolds'
             /\ ~st.hasPrev => st.prev = <<>>
  <2>1. Fits(UNIQ_LINE \div 2)
    BY <1>1, <1>5, NLIs, FitsBefore DEF Fits
  <2>2. /\ out \in Text /\ (out \o st.prev) \o st.curr = read /\ out \o st.prev \in Text
        /\ EndsLine(out) /\ EndsLine(st.prev) /\ CurrHolds
        /\ ~st.hasPrev => st.prev = <<>>
        /\ Len(st.prev) \in Nat /\ Len(st.curr) \in Nat
    BY <1>1, <1>5, <2>1, UniqParts
  <2>3. UniqCurr = Append(st.curr, NL)
    BY <1>1, <1>5, <2>1, UniqEnds
  <2>4. (out \o st.prev) \o UniqCurr = read'
    <3>1. (out \o st.prev) \o Append(st.curr, NL) = Append((out \o st.prev) \o st.curr, NL)
      BY <1>2, <2>2, NLIs, JoinAppend
    <3> QED
      BY <1>1, <2>2, <2>3, <3>1
  <2>5. /\ Len(st.prev) = Len(st.curr) + 1 /\ st.prev[Len(st.curr) + 1] = NL
        /\ \A i \in 1 .. Len(st.curr) : st.prev[i] = st.curr[i]
    <3>1. st.prev = Append(st.curr, NL)
      BY <1>1, <2>3
    <3>2. LET s == Append(st.curr, NL)
          IN  /\ Len(s) = Len(st.curr) + 1 /\ s[Len(st.curr) + 1] = NL
              /\ \A i \in 1 .. Len(st.curr) : s[i] = st.curr[i]
      BY <1>2, NLIs, Appended
    <3> QED
      BY <3>1, <3>2
  <2>6. NoNL(st.curr)
    <3>1. ~StandsAt(st.prev, st.curr, 0)
      BY <2>2, <2>5 DEF StandsAt
    <3> QED
      BY <2>2, <3>1 DEF CurrHolds
  <2>7. IsLine(st.prev, 1, Len(st.prev))
    <3>1. /\ 1 <= Len(st.prev)
          /\ \A k \in 1 .. Len(st.prev) - 1 : k \in 1 .. Len(st.curr)
      BY <2>2, <2>5
    <3> QED
      BY <2>5, <2>6, <3>1 DEF IsLine, NoNL
  <2>8. StandsAt(st.prev, st.prev, 0) /\ Len(st.prev) + 1 .. Len(st.prev) = {}
    BY <2>2 DEF StandsAt
  <2> QED
    BY <1>1, <1>3, <2>2, <2>4, <2>7, <2>8 DEF CurrHolds
<1> QED
  BY <1>1, <1>3, <1>4, <1>5 DEF UniqInv, UniqPromise, Fits

(* Without flags the line before is printed, if there is one.              *)
LEMMA UniqGroup ==
  ASSUME st \in UniqRec, NEW next \in UniqRec, next.flags = st.flags, NEW count, NEW then,
         PrintGroup(count, next, then)
  PROVE  /\ st' \in UniqRec /\ st'.flags = st.flags
         /\ st.flags = {} => /\ st' = next /\ status' = then
                             /\ out' = IF st.hasPrev THEN out \o st.prev ELSE out
<1>1. next.heap \in Nat
  BY DEF UniqRec
<1>2. Alloc(next.heap, 1) \in Nat
  BY <1>1, AllocNat
<1>3. /\ \/ st' = next
         \/ st' = [next EXCEPT !.heap = Alloc(next.heap, 1)]
         \/ st' = st
      /\ st.flags = {} => /\ st' = next /\ status' = then
                          /\ out' = IF st.hasPrev THEN out \o st.prev ELSE out
  BY DEF PrintGroup, Prints, Trap
<1>4. [next EXCEPT !.heap = Alloc(next.heap, 1)] \in UniqRec
  BY <1>2 DEF UniqRec
<1>5. [next EXCEPT !.heap = Alloc(next.heap, 1)].flags = next.flags
  BY DEF UniqRec
<1> QED
  BY <1>3, <1>4, <1>5

(* A text that ends a line still does with more lines behind it.           *)
LEMMA EndsJoined ==
  ASSUME NEW s \in Text, NEW t \in Text, EndsLine(s), EndsLine(t)
  PROVE  EndsLine(s \o t)
<1>1. /\ Len(s \o t) = Len(s) + Len(t) /\ Len(s) \in Nat /\ Len(t) \in Nat
      /\ \A i \in 1 .. Len(t) : (s \o t)[Len(s) + i] = t[i]
  BY Joined DEF Text
<1>2. CASE t = <<>>
  BY <1>2, ConcatEmptySeq DEF Text
<1>3. CASE t # <<>>
  <2>1. Len(t) \in 1 .. Len(t)
    BY <1>1, <1>3 DEF Text
  <2>2. t[Len(t)] = NL
    BY <1>3 DEF EndsLine
  <2> QED
    BY <1>1, <2>1, <2>2 DEF EndsLine
<1> QED
  BY <1>2, <1>3

(* Another line: the one before is printed, this one takes its place.      *)
LEMMA UniqNewInv ==
  ASSUME UniqInv, prog = "uniq", prog' = prog, NEW c \in Bytes, Getc(c), UniqNew(c)
  PROVE  UniqInv'
<1> DEFINE next == [st EXCEPT !.prev = UniqCurr, !.curr = <<>>, !.count = 1, !.hasPrev = TRUE]
<1>1. /\ st \in UniqRec /\ read \in Text /\ status = "reading"
      /\ read' = Append(read, NL) /\ PrintGroup(st.count, next, "reading")
      /\ UNIQ_LINE \div 2 \in Nat
  BY FilterAssumption DEF UniqInv, Getc, UniqNew
<1>2. st.curr \in Text /\ st.prev \in Text /\ UniqCurr \in Text /\ <<>> \in Text
  <2>1. st.curr \in Text /\ st.prev \in Text
    BY <1>1 DEF UniqRec
  <2> QED
    BY <2>1, NLIs DEF UniqCurr, Text
<1>3. /\ next \in UniqRec /\ next.flags = st.flags /\ next.prev = UniqCurr
      /\ next.curr = <<>> /\ next.hasPrev = TRUE
  <2>1. \A p, e \in Text :
          LET r == [st EXCEPT !.prev = p, !.curr = e, !.count = 1, !.hasPrev = TRUE]
          IN  /\ r \in UniqRec /\ r.flags = st.flags /\ r.prev = p /\ r.curr = e
              /\ r.hasPrev = TRUE
    BY <1>1 DEF UniqRec
  <2> QED
    BY <1>2, <2>1
<1> HIDE DEF next
<1>4. /\ st' \in UniqRec /\ st'.flags = st.flags
      /\ st.flags = {} => /\ st' = next /\ status' = "reading"
                          /\ out' = IF st.hasPrev THEN out \o st.prev ELSE out
  BY <1>1, <1>3, UniqGroup
<1>5. read' \in Text
  BY <1>1, NLIs, Appended
<1>6. ASSUME st.flags = {}, LinesBelow(read', UNIQ_LINE \div 2)
      PROVE  /\ out' \in Text /\ (out' \o st'.prev) \o st'.curr = read'
             /\ EndsLine(out') /\ EndsLine(st'.prev) /\ CurrHolds'
             /\ st'.hasPrev /\ status' = "reading"
  <2>1. Fits(UNIQ_LINE \div 2)
    BY <1>1, <1>6, NLIs, FitsBefore DEF Fits
  <2>2. /\ out \in Text /\ (out \o st.prev) \o st.curr = read /\ out \o st.prev \in Text
        /\ EndsLine(out) /\ EndsLine(st.prev)
        /\ ~st.hasPrev => st.prev = <<>>
        /\ Len(out) \in Nat /\ Len(st.prev) \in Nat
    BY <1>1, <1>6, <2>1, UniqParts
  <2>3. UniqCurr = Append(st.curr, NL)
    BY <1>1, <1>6, <2>1, UniqEnds
  <2>4. out' = out \o st.prev
    <3>1. ~st.hasPrev => out \o st.prev = out
      BY <2>2, ConcatEmptySeq DEF Text
    <3> QED
      BY <1>4, <1>6, <3>1
  <2>5. st'.prev = Append(st.curr, NL) /\ st'.curr = <<>> /\ st'.hasPrev
    BY <1>3, <1>4, <1>6, <2>3
  <2>6. (out' \o st'.prev) \o st'.curr = read'
    <3>1. (out \o st.prev) \o Append(st.curr, NL) = Append((out \o st.prev) \o st.curr, NL)
      BY <1>2, <2>2, NLIs, JoinAppend
    <3>2. out' \o st'.prev = read'
      BY <1>1, <2>2, <2>4, <2>5, <3>1
    <3>3. read' \o <<>> = read'
      BY <1>5, ConcatEmptySeq DEF Text
    <3> QED
      BY <2>5, <3>2, <3>3
  <2>7. EndsLine(out')
    BY <1>2, <2>2, <2>4, EndsJoined
  <2>8. EndsLine(st'.prev)
    <3>1. /\ Len(Append(st.curr, NL)) = Len(st.curr) + 1
          /\ Append(st.curr, NL)[Len(st.curr) + 1] = NL
      BY <1>2, NLIs, Appended
    <3>2. Append(st.curr, NL)[Len(Append(st.curr, NL))] = NL
      BY <3>1
    <3> QED
      BY <2>5, <3>2 DEF EndsLine
  <2>9. CurrHolds'
    <3>1. \A i \in 1 .. Len(st'.curr) : st'.curr[i] # NL
      BY <2>5
    <3> QED
      BY <3>1 DEF CurrHolds, NoNL
  <2> QED
    BY <1>4, <1>6, <2>2, <2>4, <2>5, <2>6, <2>7, <2>8, <2>9
<1> QED
  BY <1>4, <1>5, <1>6 DEF UniqInv, UniqPromise, Fits

(* A line that stands in a text where a line begins is a line of it.       *)
LEMMA LineStands ==
  ASSUME NEW text \in Text, NEW s \in Text, NEW n \in Nat, LineAfter(text, n),
         StandsAt(s, text, n), IsLine(s, 1, Len(s))
  PROVE  IsLine(text, n + 1, n + Len(s))
<1> DEFINE L == Len(s)
<1>1. /\ L \in Nat /\ 1 <= L /\ s[L] = NL /\ \A k \in 1 .. L - 1 : s[k] # NL
  BY DEF IsLine, Text
<1>2. \A i \in 1 .. L : text[n + i] = s[i]
  BY DEF StandsAt
<1>3. n + 1 <= n + L /\ text[n + L] = NL
  BY <1>1, <1>2
<1>4. ASSUME NEW k \in n + 1 .. (n + L) - 1 PROVE text[k] # NL
  <2>1. k - n \in 1 .. L /\ k - n \in 1 .. L - 1 /\ n + (k - n) = k
    BY <1>1
  <2> QED
    BY <1>1, <1>2, <2>1
<1>5. n + 1 > 1 => text[(n + 1) - 1] = NL
  <2>1. (n + 1) - 1 = n /\ (n + 1 > 1 => n > 0)
    OBVIOUS
  <2> QED
    BY <2>1 DEF LineAfter
<1> QED
  BY <1>3, <1>4, <1>5 DEF IsLine

(* At the end what is in curr is left out: a repeated line, if it has one. *)
LEMMA UniqLeftLine ==
  ASSUME UniqInv, prog = "uniq", status = "reading", st.flags = {}, Fits(UNIQ_LINE \div 2),
         NEW e \in Newlines(read), NEW a \in 1 .. Len(read), IsLine(read, a, e),
         e > Len(out) + Len(st.prev)
  PROVE  a = Len(out) + Len(st.prev) + 1 /\ RepeatsLine(read, a, e)
<1> DEFINE N == Len(out)
           L == Len(st.prev)
           C == Len(st.curr)
           P == N + L
           n == Len(read)
<1>1. /\ read \in Text /\ st.prev \in Text /\ st.curr \in Text /\ out \in Text
      /\ N \in Nat /\ L \in Nat /\ C \in Nat /\ n = P + C
      /\ \A i \in 1 .. N : read[i] = out[i]
      /\ \A i \in 1 .. L : read[N + i] = st.prev[i]
      /\ \A i \in 1 .. C : read[P + i] = st.curr[i]
      /\ EndsLine(out) /\ CurrHolds
  BY UniqParts
<1>2. N \in Nat /\ L \in Nat /\ C \in Nat /\ P \in Nat /\ n \in Nat /\ n = P + C
  <2>1. N \in Nat /\ L \in Nat /\ C \in Nat /\ n = (N + L) + C
    BY UniqParts
  <2> HIDE DEF N, L, C, n
  <2> QED
    BY <2>1
<1>3. e \in 1 .. n /\ read[e] = NL
  <2>1. e \in DOMAIN read /\ read[e] = NL
    BY DEF Newlines
  <2>2. DOMAIN read = 1 .. n
    BY <1>1 DEF Text
  <2> QED
    BY <2>1, <2>2
<1>4. P = N + L /\ e > P /\ a \in 1 .. n
  OBVIOUS
<1>5. e - P \in 1 .. C /\ st.curr[e - P] = NL
  <2> HIDE DEF P, C, n
  <2>1. e - P \in 1 .. C /\ P + (e - P) = e
    BY <1>2, <1>3, <1>4
  <2> QED
    BY <1>1, <1>3, <2>1
<1>6. /\ IsLine(st.prev, 1, L) /\ StandsAt(st.prev, st.curr, 0)
      /\ \A i \in L + 1 .. C : st.curr[i] # NL
  BY <1>1, <1>5 DEF CurrHolds, NoNL
<1>7. 1 <= L /\ L <= C /\ \A i \in 1 .. L : st.curr[i] = st.prev[i]
  <2>1. 1 <= L
    BY <1>6 DEF IsLine
  <2>2. 0 + L <= C /\ \A i \in 1 .. L : st.curr[0 + i] = st.prev[i]
    BY <1>6 DEF StandsAt
  <2>3. 0 + L = L /\ \A i \in 1 .. L : 0 + i = i
    BY <1>2
  <2> QED
    BY <2>1, <2>2, <2>3
<1>8. StandsAt(st.prev, read, N) /\ StandsAt(st.prev, read, P)
  <2>1. N + L <= n /\ P + L <= n /\ \A i \in 1 .. L : i \in 1 .. C
    <3> HIDE DEF N, L, C, P, n
    <3> QED
      BY <1>2, <1>4, <1>7
  <2>2. \A i \in 1 .. L : read[P + i] = st.prev[i]
    BY <1>1, <1>7, <2>1
  <2> QED
    BY <1>1, <2>1, <2>2 DEF StandsAt
<1>9. LineAfter(read, N)
  <2>1. N > 0 => out # <<>> /\ N \in 1 .. N
    BY <1>1 DEF Text
  <2> QED
    BY <1>1, <2>1 DEF LineAfter, EndsLine
<1>10. LineAfter(read, P)
  <2>1. L \in 1 .. L /\ st.prev[L] = NL
    BY <1>2, <1>6, <1>7 DEF IsLine
  <2> QED
    BY <1>1, <2>1 DEF LineAfter
<1>11. IsLine(read, N + 1, N + L) /\ IsLine(read, P + 1, P + L)
  BY <1>1, <1>2, <1>6, <1>8, <1>9, <1>10, LineStands
<1> HIDE DEF N, L, C, P, n
<1>12. e = P + L
  <2>1. e - P <= L
    <3>1. e - P > L => e - P \in L + 1 .. C
      BY <1>2, <1>5
    <3>2. e - P \in Int
      BY <1>2, <1>3
    <3> QED
      BY <1>2, <1>5, <1>6, <3>1, <3>2
  <2>2. e = P + L \/ e \in P + 1 .. (P + L) - 1
    BY <1>2, <1>3, <1>4, <2>1
  <2> QED
    BY <1>3, <1>11, <2>2 DEF IsLine
<1>13. a = P + 1
  <2>1. a <= e
    BY DEF IsLine
  <2> DEFINE b == P + 1
             f == P + L
  <2>2. b \in Nat \ {0} /\ f \in Nat /\ e = f /\ b <= f
    BY <1>2, <1>7, <1>12
  <2>3. IsLine(read, b, f)
    BY <1>11
  <2> HIDE DEF b, f
  <2>4. e \in a .. e /\ e \in b .. f /\ a \in Nat \ {0} /\ e \in Nat
    <3>1. e \in Nat /\ a \in Nat \ {0}
      BY <1>2, <1>3, <1>4
    <3> QED
      BY <2>1, <2>2, <3>1
  <2>5. a = b
    BY <2>2, <2>3, <2>4, LineUnique
  <2> QED
    BY <2>5 DEF b
<1>14. RepeatsLine(read, a, e)
  <2>1. a - (e - a + 1) = N + 1 /\ N + 1 >= 1 /\ a - 1 = N + L
    BY <1>2, <1>4, <1>12, <1>13
  <2>2. ASSUME NEW i \in a .. e PROVE read[i - a + (N + 1)] = read[i]
    <3>1. i - P \in 1 .. L /\ i - a + (N + 1) = N + (i - P) /\ P + (i - P) = i
      BY <1>2, <1>12, <1>13
    <3>2. \A k \in 1 .. L : read[N + k] = st.prev[k] /\ read[P + k] = st.prev[k]
      BY <1>8 DEF StandsAt, L
    <3> QED
      BY <3>1, <3>2
  <2> QED
    BY <1>11, <2>1, <2>2 DEF RepeatsLine
<1> QED
  BY <1>13, <1>14 DEF P, N, L

(* What has been read without curr is what has been printed and prev.      *)
LEMMA UniqLeaves ==
  ASSUME UniqInv, prog = "uniq", status = "reading", st.flags = {}, Fits(UNIQ_LINE \div 2)
  PROVE  \E left \in SUBSET DOMAIN read :
           /\ IsWithout(out \o st.prev, read, left)
           /\ \A e \in Newlines(read), a \in 1 .. Len(read) : IsLine(read, a, e) =>
                \/ (a .. e) \cap left = {}
                \/ a .. e \subseteq left /\ RepeatsLine(read, a, e)
<1> DEFINE P    == Len(out) + Len(st.prev)
           n    == Len(read)
           q    == out \o st.prev
           left == P + 1 .. n
<1>1. /\ read \in Text /\ q \in Text /\ st.curr \in Text /\ q \o st.curr = read
      /\ P \in Nat /\ n \in Nat /\ P <= n
  <2>1. read \in Text /\ q \in Text /\ st.curr \in Text /\ q \o st.curr = read
    BY UniqParts
  <2>2. /\ Len(out) \in Nat /\ Len(st.prev) \in Nat /\ Len(st.curr) \in Nat
        /\ n = (Len(out) + Len(st.prev)) + Len(st.curr)
    BY UniqParts
  <2>3. P \in Nat /\ n = P + Len(st.curr)
    BY <2>2
  <2>4. n \in Nat /\ P <= n
    <3> DEFINE C == Len(st.curr)
    <3>1. P \in Nat /\ C \in Nat /\ n = P + C
      BY <2>2, <2>3
    <3> HIDE DEF P, n, C
    <3> QED
      BY <3>1
  <2> QED
    BY <2>1, <2>3, <2>4
<1>2. Len(q) = P /\ DOMAIN read = 1 .. n /\ \A i \in 1 .. P : q[i] = read[i]
  <2>1. out \in Text /\ st.prev \in Text
    BY UniqParts
  <2>2. Len(q) = P
    BY <2>1, Joined
  <2>3. \A i \in 1 .. Len(q) : (q \o st.curr)[i] = q[i]
    BY <1>1, Joined
  <2>4. DOMAIN read = 1 .. n
    <3>1. read \in Text
      BY <1>1
    <3> QED
      BY <3>1 DEF Text
  <2> HIDE DEF P, q, n
  <2> QED
    BY <1>1, <2>2, <2>3, <2>4
<1>3. \A e \in Newlines(read), a \in 1 .. n : IsLine(read, a, e) /\ e > P =>
        a = P + 1 /\ RepeatsLine(read, a, e)
  BY UniqLeftLine
<1> HIDE DEF P, q, n
<1>4. left \in SUBSET (1 .. n)
  BY <1>1
<1>5. Cardinality(left) = n - P
  <2>1. P + 1 \in Int /\ n \in Int /\ (P + 1 > n => n - P = 0)
        /\ (P + 1 <= n => (n - (P + 1)) + 1 = n - P)
    BY <1>1
  <2>2. Cardinality(left) = IF P + 1 > n THEN 0 ELSE (n - (P + 1)) + 1
    BY <2>1, FS_Interval
  <2> QED
    BY <2>1, <2>2
<1>6. IsWithout(q, read, left)
  <2>1. Len(q) = n - Cardinality(left)
    BY <1>1, <1>2, <1>5
  <2>2. ASSUME NEW i \in (1 .. n) \ left
        PROVE  q[i - Cardinality(left \cap (1 .. i))] = read[i]
    <3>1. i \in 1 .. P
      BY <1>1
    <3>2. left \cap (1 .. i) = {}
      BY <1>1, <3>1
    <3>3. Cardinality(left \cap (1 .. i)) = 0
      BY <3>2, FS_EmptySet
    <3>4. i - 0 = i
      OBVIOUS
    <3> QED
      BY <1>2, <3>1, <3>3, <3>4
  <2> QED
    BY <1>2, <2>1, <2>2 DEF IsWithout, n
<1>7. ASSUME NEW e \in Newlines(read), NEW a \in 1 .. n, IsLine(read, a, e)
      PROVE  \/ (a .. e) \cap left = {}
             \/ a .. e \subseteq left /\ RepeatsLine(read, a, e)
  <2>1. e \in 1 .. n /\ (e <= P \/ e > P)
    <3>1. e \in 1 .. n
      BY <1>2 DEF Newlines
    <3> QED
      BY <1>1, <3>1
  <2>2. CASE e <= P
    BY <1>1, <2>1, <2>2
  <2>3. CASE e > P
    <3>1. a = P + 1 /\ RepeatsLine(read, a, e)
      BY <1>3, <1>7, <2>3
    <3>2. a .. e \subseteq left
      BY <1>1, <2>1, <3>1
    <3> QED
      BY <3>1, <3>2
  <2> QED
    BY <2>1, <2>2, <2>3
<1>8. left \in SUBSET DOMAIN read
  BY <1>2, <1>4
<1> HIDE DEF left
<1> QED
  BY <1>6, <1>7, <1>8 DEF q, n

(* The end of the input: the line before is printed, curr is not.          *)
LEMMA UniqEofInv ==
  ASSUME UniqInv, prog = "uniq", prog' = prog, Eof, UniqEof
  PROVE  UniqInv'
<1> DEFINE count == IF st.curr # <<>> THEN st.count + 1 ELSE st.count
<1>1. /\ st \in UniqRec /\ read \in Text /\ status = "reading" /\ read' = read
      /\ PrintGroup(count, st, "done")
  BY DEF UniqInv, Eof, UniqEof
<1> HIDE DEF count
<1>2. /\ st' \in UniqRec /\ st'.flags = st.flags
      /\ st.flags = {} => /\ st' = st /\ status' = "done"
                          /\ out' = IF st.hasPrev THEN out \o st.prev ELSE out
  BY <1>1, UniqGroup
<1>3. ASSUME st.flags = {}, Fits(UNIQ_LINE \div 2) PROVE out' = out \o st.prev
  <2>1. out \in Text /\ (~st.hasPrev => st.prev = <<>>)
    BY <1>1, <1>3, UniqParts
  <2>2. ~st.hasPrev => out \o st.prev = out
    BY <2>1, ConcatEmptySeq DEF Text
  <2> QED
    BY <1>2, <1>3, <2>2
<1>4. st.flags = {} /\ Fits(UNIQ_LINE \div 2) => UniqPromise'
  <2> SUFFICES ASSUME st.flags = {}, Fits(UNIQ_LINE \div 2) PROVE UniqPromise'
    OBVIOUS
  <2>1. \E left \in SUBSET DOMAIN read :
           /\ IsWithout(out', read, left)
           /\ \A e \in Newlines(read), a \in 1 .. Len(read) : IsLine(read, a, e) =>
                \/ (a .. e) \cap left = {}
                \/ a .. e \subseteq left /\ RepeatsLine(read, a, e)
    BY <1>1, <1>3, UniqLeaves
  <2> QED
    BY <1>1, <2>1 DEF UniqPromise
<1>5. st.flags = {} => status' # "reading"
  BY <1>2
<1> QED
  BY <1>1, <1>2, <1>4, <1>5 DEF UniqInv, Fits

(* Every step of uniq.                                                     *)
LEMMA UniqStep == UniqInv /\ UniqNext /\ prog' = prog => UniqInv'
BY UniqByteInv, UniqRepeatInv, UniqNewInv, UniqEofInv DEF UniqNext

-----------------------------------------------------------------------------
(* All programs.  The invariant of a program says nothing of the others.   *)
LEMMA FilterInitInv == FilterInit => FilterInv
<1> SUFFICES ASSUME FilterInit PROVE FilterInv
  OBVIOUS
<1>1. status = "reading" /\ read = <<>> /\ out = <<>>
  BY DEF FilterInit
<1>2. ASSUME NEW n \in Counts, HeadInit(n) PROVE FilterInv
  <2>1. prog = "head"
    BY <1>2 DEF HeadInit
  <2>2. HeadInv
    BY <1>1, <1>2, HeadBegins
  <2> QED
    BY <2>1, <2>2 DEF FilterInv, WcInv, FoldInv, RevInv, TacInv, UniqInv
<1>3. ASSUME NEW show \in WcShows, WcInit(show) PROVE FilterInv
  <2>1. prog = "wc"
    BY <1>3 DEF WcInit
  <2>2. WcInv
    BY <1>1, <1>3, WcBegins
  <2> QED
    BY <2>1, <2>2 DEF FilterInv, HeadInv, FoldInv, RevInv, TacInv, UniqInv
<1>4. ASSUME NEW w \in Widths, FoldInit(w) PROVE FilterInv
  <2>1. prog = "fold"
    BY <1>4 DEF FoldInit
  <2>2. FoldInv
    BY <1>1, <1>4, FoldBegins
  <2> QED
    BY <2>1, <2>2 DEF FilterInv, HeadInv, WcInv, RevInv, TacInv, UniqInv
<1>5. CASE RevInit
  <2>1. prog = "rev"
    BY <1>5 DEF RevInit
  <2>2. RevInv
    BY <1>1, <1>5, RevBegins
  <2> QED
    BY <2>1, <2>2 DEF FilterInv, HeadInv, WcInv, FoldInv, TacInv, UniqInv
<1>6. CASE TacInit
  <2>1. prog = "tac"
    BY <1>6 DEF TacInit
  <2>2. TacInv
    BY <1>1, <1>6, TacBegins
  <2> QED
    BY <2>1, <2>2 DEF FilterInv, HeadInv, WcInv, FoldInv, RevInv, UniqInv
<1>7. ASSUME NEW flags \in SUBSET {"c", "d", "u"}, UniqInit(flags) PROVE FilterInv
  <2>1. prog = "uniq"
    BY <1>7 DEF UniqInit
  <2>2. UniqInv
    BY <1>1, <1>7, UniqBegins
  <2> QED
    BY <2>1, <2>2 DEF FilterInv, HeadInv, WcInv, FoldInv, RevInv, TacInv
<1> QED
  BY <1>2, <1>3, <1>4, <1>5, <1>6, <1>7 DEF FilterInit

(* A step of one program keeps its invariant, and those of the others.     *)
LEMMA FilterNextInv == FilterInv /\ FilterNext => FilterInv'
<1> SUFFICES ASSUME FilterInv, FilterNext PROVE FilterInv'
  OBVIOUS
<1>1. prog' = prog
  BY DEF FilterNext
<1>2. CASE HeadNext
  <2>1. HeadInv' /\ prog = "head"
    BY <1>1, <1>2, HeadStep DEF FilterInv, HeadNext
  <2> QED
    BY <1>1, <2>1 DEF FilterInv, WcInv, FoldInv, RevInv, TacInv, UniqInv
<1>3. CASE WcNext
  <2>1. WcInv' /\ prog = "wc"
    BY <1>1, <1>3, WcStep DEF FilterInv, WcNext
  <2> QED
    BY <1>1, <2>1 DEF FilterInv, HeadInv, FoldInv, RevInv, TacInv, UniqInv
<1>4. CASE FoldNext
  <2>1. FoldInv' /\ prog = "fold"
    BY <1>1, <1>4, FoldStep DEF FilterInv, FoldNext
  <2> QED
    BY <1>1, <2>1 DEF FilterInv, HeadInv, WcInv, RevInv, TacInv, UniqInv
<1>5. CASE RevNext
  <2>1. RevInv' /\ prog = "rev"
    BY <1>1, <1>5, RevStep DEF FilterInv, RevNext
  <2> QED
    BY <1>1, <2>1 DEF FilterInv, HeadInv, WcInv, FoldInv, TacInv, UniqInv
<1>6. CASE TacNext
  <2>1. TacInv' /\ prog = "tac"
    BY <1>1, <1>6, TacStep DEF FilterInv, TacNext
  <2> QED
    BY <1>1, <2>1 DEF FilterInv, HeadInv, WcInv, FoldInv, RevInv, UniqInv
<1>7. CASE UniqNext
  <2>1. UniqInv' /\ prog = "uniq"
    BY <1>1, <1>7, UniqStep DEF FilterInv, UniqNext
  <2> QED
    BY <1>1, <2>1 DEF FilterInv, HeadInv, WcInv, FoldInv, RevInv, TacInv
<1> QED
  BY <1>2, <1>3, <1>4, <1>5, <1>6, <1>7 DEF FilterNext

(* A step that is none of the programs' changes nothing the invariants     *)
(* speak of.                                                               *)
LEMMA FilterStays == FilterInv /\ UNCHANGED filterVars => FilterInv'
<1> SUFFICES ASSUME FilterInv, UNCHANGED filterVars PROVE FilterInv'
  OBVIOUS
<1>1. prog' = prog /\ st' = st /\ status' = status /\ read' = read /\ out' = out
  BY DEF filterVars
<1>2. HeadInv'
  BY <1>1 DEF FilterInv, HeadInv, HeadPromise, Fits
<1>3. WcInv'
  BY <1>1 DEF FilterInv, WcInv, WcPromise, WcShown
<1>4. FoldInv'
  BY <1>1 DEF FilterInv, FoldInv, Folded
<1>5. RevInv'
  BY <1>1 DEF FilterInv, RevInv, Fits
<1>6. TacInv'
  BY <1>1 DEF FilterInv, TacInv, TacFits, TacReading, TacPrinting
<1>7. UniqInv'
  BY <1>1 DEF FilterInv, UniqInv, UniqPromise, CurrHolds, Fits
<1> QED
  BY <1>2, <1>3, <1>4, <1>5, <1>6, <1>7 DEF FilterInv

(* What each filter holds in its buffers and has printed accounts for all  *)
(* it has read, from its start to its end.                                 *)
THEOREM FilterInvariant == FilterSpec => []FilterInv
<1>1. FilterInit => FilterInv
  BY FilterInitInv
<1>2. FilterInv /\ [FilterNext]_filterVars => FilterInv'
  BY FilterNextInv, FilterStays
<1> QED
  BY <1>1, <1>2, PTL DEF FilterSpec

(* head prints the beginning of its input up to the newlines asked for, if *)
(* the lines fit its buffer (modules/head/src/main.c).                     *)
THEOREM HeadKeepsPromise == FilterSpec => []HeadPromise
<1>1. FilterInv => HeadPromise
  BY DEF FilterInv, HeadInv, HeadPromise
<1> QED
  BY <1>1, FilterInvariant, PTL

(* The numbers wc prints are those of its whole input, with any flags and  *)
(* any input (modules/wc/src/main.c).                                      *)
THEOREM WcKeepsPromise == FilterSpec => []WcPromise
<1>1. FilterInv => WcPromise
  BY DEF FilterInv, WcInv, WcPromise
<1> QED
  BY <1>1, FilterInvariant, PTL

(* fold loses no byte, changes no order, adds newlines only, and leaves no *)
(* line longer than the width (modules/fold/src/main.c).                   *)
THEOREM FoldAlwaysKeepsPromise == FilterSpec => []FoldPromise
<1>1. FilterInv => FoldPromise
  BY FoldKeepsPromise DEF FilterInv
<1> QED
  BY <1>1, FilterInvariant, PTL

(* rev prints each line backwards in its place, empty ones included, if    *)
(* the lines fit its buffer (modules/rev/src/main.c).                      *)
THEOREM RevKeepsPromise == FilterSpec => []RevPromise
<1>1. FilterInv => RevPromise
  BY DEF FilterInv, RevInv, RevPromise, Turned, Fits
<1> QED
  BY <1>1, FilterInvariant, PTL

(* tac prints the last line first, as far as its memory lets it print, if  *)
(* lines and their number fit its tables (modules/tac/src/main.c).         *)
THEOREM TacKeepsPromise == FilterSpec => []TacPromise
<1>1. FilterInv => TacPromise
  <2>1. TacFits => prog = "tac"
    BY DEF TacFits
  <2> QED
    BY <2>1 DEF FilterInv, TacInv, TacPromise, Backwards
<1> QED
  BY <1>1, FilterInvariant, PTL

(* What uniq leaves out is whole lines that repeat the one before, and a   *)
(* last line without a newline, if two lines fit its buffer                *)
(* (modules/uniq/src/main.c).                                              *)
THEOREM UniqKeepsPromise == FilterSpec => []UniqPromise
<1>1. FilterInv => UniqPromise
  BY DEF FilterInv, UniqInv, UniqPromise, Fits
<1> QED
  BY <1>1, FilterInvariant, PTL
=============================================================================
