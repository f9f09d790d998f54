----------------------------- MODULE MCEncoder -----------------------------
(* Small heaps for Encoder: "c" has no native form, "k" and "e" are        *)
(* instances of a str subclass, "e" one with the text of "s", "x" holds a  *)
(* surrogate and "h" has thousands of digits.                              *)
EXTENDS EncoderText

Kinds1 == ("r" :> "list") @@ ("d" :> "dict") @@ ("t" :> "tuple") @@ ("c" :> "custom")
          @@ ("k" :> "str") @@ ("s" :> "str") @@ ("a" :> "aware") @@ ("b" :> "date")
          @@ ("n" :> "ndarray") @@ ("x" :> "bad") @@ ("h" :> "hugeint")
          @@ ("l" :> "list") @@ ("e" :> "str")
MCRank == [o \in DOMAIN Kinds1 |-> IF o = "k" THEN 1 ELSE 2]
KindOf(S) == [o \in S |-> Kinds1[o]]
AnyOf(S) == [o \in S |-> S]
HeapOn(S, f) == f @@ [o \in S |-> <<>>]
MCArrayTexts == {<<"v">>, <<"[", "v", ",", "v", "]">>}

(* Memory: every kind of holder over objects that run Python, and a dict    *)
(* with a hole, an array that is declined and a key that fails.            *)
MemObj == {"r", "d", "t", "c", "k", "s", "a", "n", "x"}
MemKind == KindOf(MemObj)
MemRank == [o \in MemObj |-> MCRank[o]]
MemReturns ==
  [o \in MemObj |-> IF o = "c" THEN MemObj \ {"n", "x"} ELSE {"s", "d", "x"}]
MemDocs == {
  HeapOn(MemObj, ("r" :> <<<<"d">>, <<"c">>>>) @@ ("d" :> <<<<"s", "t">>, <<"k", "a">>>>)
                 @@ ("t" :> <<<<"c">>>>)),
  HeapOn(MemObj, ("r" :> <<<<"t">>, <<"s">>>>) @@ ("t" :> <<<<"d">>, <<"a">>>>)
                 @@ ("d" :> <<<<"k", "c">>>>)),
  HeapOn(MemObj, ("r" :> <<<<"d">>, <<"n">>>>)
                 @@ ("d" :> <<<<"s", "n">>, <<>>, <<"x", "s">>>>)) }
MemOptSets == {{"numpy"}, {"sort_keys"}}

(* Limits: a cycle through a tuple, a default that returns its argument,   *)
(* and dates that are reached before or after datetime is imported.        *)
LimObj == {"r", "d", "t", "c", "b", "a", "k", "h"}
LimKind == KindOf(LimObj)
LimRank == [o \in LimObj |-> MCRank[o]]
LimReturns == [o \in LimObj |-> {"c", "r", "b"}]
LimDocs == {
  HeapOn(LimObj, ("r" :> <<<<"t">>, <<"c">>>>) @@ ("t" :> <<<<"d">>, <<"b">>>>)
                 @@ ("d" :> <<<<"k", "r">>>>)),
  HeapOn(LimObj, ("r" :> <<<<"c">>, <<"b">>>>)),
  HeapOn(LimObj, ("r" :> <<<<"a">>, <<"c">>, <<"h">>>>)) }
LimOptSets == {{}, {"numpy"}, {"sort_keys"}}

(* Reference: every heap of these shapes, with a default that is a table,  *)
(* and dicts with two keys of equal text, in both orders.                  *)
RefObj == {"r", "d", "l", "k", "s", "c", "x", "b", "e"}
RefKind == KindOf(RefObj)
RefRank == [o \in RefObj |-> MCRank[o]]
RefReturns == [o \in RefObj |-> IF o = "c" THEN {"d"} ELSE IF o = "b" THEN {"b"} ELSE {"s"}]
Values == RefObj \ {"e"}
RefLists == {<<>>} \cup {<<<<x>>>> : x \in Values}
            \cup {<<<<x>>, <<y>>>> : x \in Values, y \in Values}
RefDicts ==
  {<<>>} \cup {<<<<k, v>>>> : k \in {"s", "x", "c"}, v \in Values}
  \cup {<<<<"s", v>>, <<"k", w>>>> : v \in Values, w \in {"s", "c", "d", "r"}}
  \cup {<<<<"s", v>>, <<"e", "s">>, <<"k", "s">>>> : v \in {"s", "c"}}
  \cup {<<<<"e", v>>, <<"k", "s">>, <<"s", "s">>>> : v \in {"s", "c"}}
RefDocs == {HeapOn(RefObj, ("r" :> l) @@ ("d" :> e)) : l \in RefLists, e \in RefDicts}
RefOptSets == {{}, {"sort_keys"}, {"passthrough_datetime"}, {"passthrough_subclass"}}

(* An integer past 9030 digits, in a call that holds nothing.              *)
HugeObj == {"r", "h"}
HugeKind == KindOf(HugeObj)
HugeRank == [o \in HugeObj |-> 1]
HugeReturns == AnyOf(HugeObj)
HugeDocs == {HeapOn(HugeObj, ("r" :> <<<<"h">>>>))}
=============================================================================
