---------------------------- MODULE WritersText ----------------------------
(***************************************************************************)
(* What the writers' text means: reading it back as JSON gives what was    *)
(* written.                                                                *)
(***************************************************************************)
EXTENDS Writers, SequencesExt

-----------------------------------------------------------------------------
(* Reading a JSON string, from the grammar.  raw says that a byte above 127 *)
(* stands for itself: the text was UTF-8 already.                          *)

UnitSize(s, raw) ==
  CASE s[1] = 92 -> IF s[2] = 117 THEN 6 ELSE 2
    [] s[1] # 92 /\ (s[1] < 128 \/ raw) -> 1
    [] OTHER -> IF s[1] < 224 THEN 2 ELSE IF s[1] < 240 THEN 3 ELSE 4

HexValue(h) == IF h < 58 THEN h - 48 ELSE h - 87

(* The code point that the bytes u stand for.  A quote, a backslash or a   *)
(* control character is never there as itself.                             *)
Means(u) ==
  CASE Len(u) = 1 -> IF u[1] < 32 \/ u[1] = 34 THEN -1 ELSE u[1]
    [] Len(u) = 6 -> 16 * HexValue(u[5]) + HexValue(u[6])
    [] Len(u) = 2 /\ u[1] = 92 ->
         (CHOOSE e \in {<<98, 8>>, <<116, 9>>, <<110, 10>>, <<102, 12>>, <<114, 13>>, <<34, 34>>,
                        <<92, 92>>} : e[1] = u[2])[2]
    [] OTHER -> FoldLeft(LAMBDA c, b : 64 * c + b - 128,
                         u[1] - (CASE Len(u) = 2 -> 192 [] Len(u) = 3 -> 224 [] Len(u) = 4 -> 240),
                         Tail(u))

RECURSIVE Chars(_, _)
Chars(s, raw) ==
  IF s = <<>> THEN <<>>
  ELSE LET k == UnitSize(s, raw)
       IN  <<Means(SubSeq(s, 1, k))>> \o Chars(SubSeq(s, k + 1, Len(s)), raw)

Row(sizes) ==
  <<91>> \o FoldLeft(LAMBDA t, j : t \o (IF j > 1 THEN <<44>> ELSE <<>>) \o Sample(sizes[j]),
                     <<>>, [j \in DOMAIN sizes |-> j]) \o <<93>>

Reads(entry, s) ==
  CASE entry.kind = "piece" -> s = entry.units
    [] entry.kind = "row"   -> s = Row(entry.units)
    [] OTHER -> /\ s[1] = 34 /\ s[Len(s)] = 34
                /\ Chars(SubSeq(s, 2, Len(s) - 1), entry.kind = "utf8") = entry.units

EndBefore(j) == IF j = 1 THEN 0 ELSE log[j - 1].end
Faithful(text) ==
  /\ Len(text) = EndBefore(Len(log) + 1)
  /\ \A j \in DOMAIN log : Reads(log[j], SubSeq(text, EndBefore(j) + 1, log[j].end))

(* Between two writers the text is what was written, read back in its      *)
(* order: nothing is lost when the buffer moves in the middle of a string, *)
(* no vector store leaves a byte of its own behind, and a declined array   *)
(* leaves no trace.  So is the result.                                     *)
ReadsBack ==
  /\ pc = "ready" => Faithful(Text(buf))
  /\ result # Null => Faithful(result)
=============================================================================
