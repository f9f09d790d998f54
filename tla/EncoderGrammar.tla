--------------------------- MODULE EncoderGrammar ---------------------------
(***************************************************************************)
(* What dumps promises about its text whatever Python does meanwhile: it   *)
(* is a JSON document.                                                     *)
(***************************************************************************)
EXTENDS Encoder

-----------------------------------------------------------------------------
(* The JSON grammar as an automaton with a stack of contexts: "T0" expects *)
(* the document and "T1" has it; "A0" is an array just opened, "A1" one    *)
(* after an element and "A2" after a comma; "O0" to "O2" are the same for  *)
(* an object, and "OV" is past a key.                                      *)

Contexts == {"T0", "T1", "A0", "A1", "A2", "O0", "O1", "O2", "OV"}

ExpectsValue == {"T0", "A0", "A2", "OV"}
AfterValue(c) == IF c = "T0" THEN "T1" ELSE IF c = "OV" THEN "O1" ELSE "A1"

Fits(c, mark) ==
  \/ c \in ExpectsValue /\ mark \in {"v", "[", "{"}
  \/ c \in {"A0", "A1"} /\ mark = "]"
  \/ c \in {"O0", "O1"} /\ mark = "}"
  \/ c \in {"A1", "O1"} /\ mark = ","
  \/ c \in {"O0", "O2"} /\ mark = "k"

(* The contexts that c becomes.                                            *)
Becomes(c, mark) ==
  CASE mark = "v" -> <<AfterValue(c)>>
    [] mark = "[" -> <<AfterValue(c), "A0">>
    [] mark = "{" -> <<AfterValue(c), "O0">>
    [] mark = "," -> <<IF c = "A1" THEN "A2" ELSE "O2">>
    [] mark = "k" -> <<"OV">>
    [] OTHER -> <<>>

(* No contexts at all are an error, from which nothing leads back.         *)
Accept(cs, mark) ==
  IF cs # <<>> /\ Fits(cs[Len(cs)], mark)
    THEN SubSeq(cs, 1, Len(cs) - 1) \o Becomes(cs[Len(cs)], mark)
    ELSE <<>>

(* The contexts after each of the marks ms.                                *)
States(cs, ms) ==
  LET state[n \in 0 .. Len(ms)] == IF n = 0 THEN cs ELSE Accept(state[n - 1], ms[n])
  IN  state

MarksOf(text) == [n \in DOMAIN text |-> text[n][1]]
Parse(ms) == States(<<"T0">>, ms)[Len(ms)]

(* What numpy arrays and scalars emit is one value; NumpyText says which.  *)
ASSUME GrammarAssumption == \A t \in ArrayTexts : Parse(t) = <<"T1">>

(* The buffer always holds a prefix of a JSON document, and a call that    *)
(* succeeds returns a whole one: no missing or doubled comma, bracket or   *)
(* colon when a container shrinks, grows or is rebuilt under the loop that *)
(* writes it, when an array is rolled back half-way, or when a snapshot is *)
(* written after its dict has changed.                                     *)
WellFormed ==
  LET cs == Parse(MarksOf(out))
  IN  cs # <<>> /\ (pc = "done" /\ ok => cs = <<"T1">>)
=============================================================================
