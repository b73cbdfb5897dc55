----------------------------- MODULE MCPrograms -----------------------------
(* TLC's instance of TextPrograms.  A byte of sort's lines is 0, the       *)
(* newline, 1 or 2; texts are compared by their bytes, or by the number    *)
(* they begin with, for which a byte counts as its value.                  *)
EXTENDS TextPrograms

MCBytes  == {"a", " ", "\n"}
MCCounts == {0, 1, 2}
MCWidths == {1, 2}

(* tac's buffer is as large as the heap of the build.                      *)
MCBuildMemSize == [p \in Programs |-> IF p = "tac" THEN 6 ELSE 16]
MCMemSize      == [MCBuildMemSize EXCEPT !["tac"] = 8]

MCWhole   == {<<1, 0>>, <<2, 0>>, <<1, 1, 0>>, <<0>>}
MCUnended == {<<>>, <<1>>, <<2>>}
MCTexts   == UNION {[1 .. n -> 0 .. 2] : n \in 0 .. 3}

(* compare_str: a newline is less than the other bytes, and a text less    *)
(* than what it is the beginning of.                                       *)
ByBytes  == [t \in MCTexts |->
               LET digit(i) == IF i <= Len(t) THEN t[i] + 1 ELSE 0
               IN  16 * digit(1) + 4 * digit(2) + digit(3)]
ByNumber == [t \in MCTexts |->
               IF t = <<>> \/ t[1] = 0 THEN 0
               ELSE IF Len(t) = 1 \/ t[2] = 0 THEN t[1] ELSE 10 * t[1] + t[2]]
MCRanks  == {ByBytes, ByNumber}
=============================================================================
