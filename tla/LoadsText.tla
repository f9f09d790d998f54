----------------------------- MODULE LoadsText -----------------------------
(***************************************************************************)
(* What loads promises about its values: Denotes reads a tape top down, as *)
(* the JSON document it stands for, without stacks, counters or caches.    *)
(***************************************************************************)
EXTENDS Loads, SequencesExt

RECURSIVE Denotes(_, _), Members(_, _, _), Value(_)

(* The value at node n of the tape and the node after it.                  *)
Denotes(tape, n) ==
  LET node == tape[n] IN
  CASE node.t = "list" -> LET r == Members(tape, n + 1, [left |-> node.len, dict |-> FALSE])
                          IN  [r EXCEPT !.v = <<"list", @>>]
    [] node.t = "dict" -> LET r == Members(tape, n + 1, [left |-> node.len, dict |-> TRUE])
                          IN  [r EXCEPT !.v = <<"dict", @>>]
    [] node.t = "str"  -> [v |-> <<"str", node.text>>, next |-> n + 1]
    [] OTHER           -> [v |-> <<"num", node.text>>, next |-> n + 1]

(* The items of a container.  The last member with a name counts, in the   *)
(* place of the first one.                                                 *)
Members(tape, n, of) ==
  IF of.left = 0 THEN [v |-> <<>>, next |-> n] ELSE
  LET first == Denotes(tape, IF of.dict THEN n + 1 ELSE n)
      rest  == Members(tape, first.next, [of EXCEPT !.left = @ - 1])
      name  == tape[n].text
      again == {m \in DOMAIN rest.v : rest.v[m][1] = name}
  IN  IF ~of.dict THEN [rest EXCEPT !.v = <<first.v>> \o @]
      ELSE IF again = {} THEN [rest EXCEPT !.v = <<<<name, first.v>>>> \o @]
      ELSE LET m == CHOOSE m \in again : TRUE
           IN  [rest EXCEPT !.v = <<@[m]>> \o RemoveAt(rest.v, m)]

(* The value of an object, as Python sees it.                              *)
Value(o) ==
  CASE heap[o].t = "list" -> <<"list", [n \in DOMAIN heap[o].items |-> Value(heap[o].items[n][1])]>>
    [] heap[o].t = "dict" -> <<"dict", [n \in DOMAIN heap[o].items |->
           LET item == heap[o].items[n] IN <<heap[item[1]].text, Value(item[2])>>]>>
    [] OTHER -> <<heap[o].t, heap[o].text>>
(* Every value loads has returned, and goes on being held while other      *)
(* calls share its keys, evict them from the cache, fail or run inside a   *)
(* raise, is the document's: the elements in order, the members in the     *)
(* order of their names' first occurrence with their last value, each key  *)
(* spelled as in the document whatever keys share its slot or its hash.    *)
ResultDenotes ==
  \A n \in DOMAIN results : Value(results[n][2]) = Denotes(Tape[results[n][1]], 1).v
=============================================================================
