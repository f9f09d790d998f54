------------------------------ MODULE ByteSink ------------------------------
(***************************************************************************)
(* What the output of dumps is to the code that writes it: a text that     *)
(* only grows at its end or is rolled back to where an array began, and    *)
(* that becomes the result or is given up.  Capacity, growth, spilling and *)
(* the bytes objects below it do not exist here.                           *)
(***************************************************************************)
EXTENDS Naturals, Sequences

CONSTANT Null

VARIABLES
  open,     \* whether a call is writing
  text,     \* what it has written
  mark,     \* the length to roll back to, or Null outside an array
  result    \* what the last call answered: a text, or Null and an exception

sink == <<open, text, mark, result>>

Init == open = FALSE /\ text = <<>> /\ mark = Null /\ result = Null

Begin ==
  /\ ~open /\ open' = TRUE
  /\ text' = <<>> /\ mark' = Null /\ result' = Null

Grow ==
  /\ open /\ Len(text') > Len(text) /\ SubSeq(text', 1, Len(text)) = text
  /\ UNCHANGED <<open, mark, result>>

Mark ==
  /\ open /\ mark = Null /\ mark' = Len(text)
  /\ UNCHANGED <<open, text, result>>

Unmark ==
  /\ open /\ mark # Null /\ mark' = Null
  /\ UNCHANGED <<open, text, result>>

RollBack ==
  /\ open /\ mark # Null /\ mark' = Null
  /\ text' = SubSeq(text, 1, mark)
  /\ UNCHANGED <<open, result>>

Deliver ==
  /\ open /\ mark = Null /\ open' = FALSE
  /\ result' = text /\ text' = <<>> /\ mark' = Null

(* A call may fail before it has a buffer, too.                            *)
GiveUp ==
  /\ open' = FALSE /\ result' = Null /\ text' = <<>> /\ mark' = Null

Next == Begin \/ Grow \/ Mark \/ Unmark \/ RollBack \/ Deliver \/ GiveUp

Spec == Init /\ [][Next]_sink
=============================================================================
