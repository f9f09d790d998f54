----------------------------- MODULE NumpyText -----------------------------
(***************************************************************************)
(* What the text of a numpy array is: the nested list of its elements.  It *)
(* is apart from NumpyDates because the list is a recursive operator.      *)
(***************************************************************************)
EXTENDS NumpyDates, FiniteSets

-----------------------------------------------------------------------------
(* The nested list of values by shape; t is what a leaf's text has to be.  *)

RECURSIVE IsList(_, _, _, _)
IsList(ts, shape, values, level) ==
  IF shape = <<>> THEN Len(ts) = 1 /\ LeafDenotes(ts[1], values[1])
  ELSE IF shape[1] = 0 THEN ts = <<"[", "]">>
  ELSE LET n     == shape[1]
           size  == Len(values) \div n
           lines == IF Indent THEN 1 ELSE 0
           width == (Len(ts) - 1 - lines) \div n    \* of an element and what is before it
           opening(i) == IF i = 1 THEN <<"[">> ELSE <<",">>
           newline(k) == IF Indent THEN <<<<"newline", level + k>>>> ELSE <<>>
           lead == 1 + lines
       IN  /\ Len(ts) = 1 + lines + n * width /\ width > lead
           /\ \A i \in 1 .. n :
                LET e == SubSeq(ts, (i - 1) * width + 1, i * width) IN
                /\ SubSeq(e, 1, lead) = opening(i) \o newline(1)
                /\ IsList(SubSeq(e, lead + 1, width), Tail(shape),
                          SubSeq(values, (i - 1) * size + 1, i * size), level + 1)
           /\ SubSeq(ts, n * width + 1, Len(ts)) = newline(0) \o <<"]">>

(* The text of an array that is written is the nested list of its          *)
(* elements, row by row, with "[]" for a dimension of length 0 and, if     *)
(* indented, with its rows at the encoder's depth and one more for each    *)
(* dimension.                                                              *)
TextRight ==
  pc = "written" /\ IsArray =>
    out[1] = "before" /\ IsList(Tail(out), obj.shape, obj.values, Depth)
=============================================================================
