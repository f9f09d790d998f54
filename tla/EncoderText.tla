---------------------------- MODULE EncoderText ----------------------------
(***************************************************************************)
(* What dumps promises about its text when Python changes nothing: it is   *)
(* the one document the heap stands for.  Render is the abstract,          *)
(* stackless definition of that document; Encoder's frames are shown to    *)
(* produce it.                                                             *)
(***************************************************************************)
EXTENDS EncoderGrammar, SequencesExt

-----------------------------------------------------------------------------
(* The reference: what dumps returns for o at nesting depth d under k      *)
(* chained defaults, on a heap nobody changes.                             *)

Fail == [ok |-> FALSE, out |-> <<>>]
Text(o, m) == [ok |-> TRUE, out |-> <<<<m, o>>>>]

Pairs(es) ==
  LET key(i) == IF Opt("sort_keys") THEN Rank[es[i][1]] ELSE 0
      in == SetToSortSeq(Filled(es), LAMBDA i, j :
              key(i) < key(j) \/ (key(i) = key(j) /\ i < j))
  IN  [n \in DOMAIN in |-> es[in[n]]]

RECURSIVE Render(_, _, _), Elements(_, _, _, _)

(* The entries es of o, which are written one after the other.             *)
Elements(o, es, d, k) ==
  IF es = <<>> THEN [ok |-> TRUE, out |-> <<>>] ELSE
  LET e    == Last(es)
      init == Elements(o, Front(es), d, k)
      r    == Render(e[Len(e)], d, k)
      sep  == IF Len(es) = 1 THEN <<>> ELSE <<<<",", IF Len(e) = 2 THEN e[1] ELSE o>>>>
      key  == IF Len(e) = 2 THEN <<<<"k", e[1]>>>> ELSE <<>>
  IN  IF init.ok /\ r.ok /\ (Len(e) = 2 => Kind[e[1]] = "str")
        THEN [ok |-> TRUE, out |-> init.out \o sep \o key \o r.out]
        ELSE Fail

Render(o, d, k) ==
  CASE Scalar(o) -> IF Kind[o] = "bad" THEN Fail ELSE Text(o, "v")
    [] enc.dt /\ DatetimeLike(o) -> Text(o, "v")
    [] Container(o) ->
         LET r == Elements(o, IF DictLike(o) THEN Pairs(items[o]) ELSE items[o], d + 1, k)
             b == Brackets(o)
         IN  IF d < MaxDepth /\ r.ok
               THEN [r EXCEPT !.out = <<<<b[1], o>>>> \o @ \o <<<<b[2], o>>>>]
               ELSE Fail
    [] OTHER ->
         IF enc.default /\ k < MaxDefaultDepth
           THEN Render(CHOOSE r \in Returns[o] : TRUE, d, k + 1)
           ELSE Fail

(* On a heap nobody changes, and with a default that is a function, dumps  *)
(* returns the document the heap stands for or fails exactly when there is *)
(* none: dict order or sorted keys, both depth limits, subclasses, dates   *)
(* and defaults, on every heap of the run, the cyclic ones included.       *)
OutputIsReference ==
  pc = "done" => LET r == Render(Root, 0, 0) IN ok = r.ok /\ (ok => out = r.out)
=============================================================================
