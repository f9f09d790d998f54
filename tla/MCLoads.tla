------------------------------ MODULE MCLoads ------------------------------
(***************************************************************************)
(* Small tapes for Loads.  With two cache slots the keys "a" and "b" have  *)
(* the same hash, "c" shares their slot, and "d" is not cached.            *)
(***************************************************************************)
EXTENDS LoadsText

MCHash == [a |-> 5, b |-> 5, c |-> 7]
MCSingletons == <<"null", "true">>

S(x) == [t |-> "str", text |-> x]
N(x) == [t |-> "num", text |-> x]
C(x) == [t |-> "const", text |-> x]
L(n, nodes) == [t |-> "list", len |-> n, count |-> nodes]
D(n, nodes) == [t |-> "dict", len |-> n, count |-> nodes]

(* Every way to fail with containers half built: nested containers with a  *)
(* key waiting, a repeated key that drops a container, keys that collide.  *)
FailTape == [
  nested |-> <<D(2, 8), S("a"), L(2, 4), D(1, 2), S("a"), N("1"), C("null"), S("d"), S("x")>>,
  twice  |-> <<D(3, 7), S("a"), L(1, 1), S("x"), S("b"), L(0, 0), S("a"), C("null")>>,
  other  |-> <<L(2, 6), D(1, 2), S("c"), D(0, 0), D(1, 2), S("b"), S("b")>> ]

OneTape == [member |-> <<D(1, 2), S("a"), N("1")>>]

(* Lists and dicts of scalars and of small containers, and dicts of three  *)
(* members with every choice of their keys.                                *)
Keys == {S("a"), S("b"), S("c"), S("d")}
Small == {<<S("a")>>, <<C("true")>>, <<L(0, 0)>>, <<L(1, 1), D(0, 0)>>, <<D(2, 4), S("a"), N("1"), S("d"), S("a")>>}
ValueTapes == Small \cup {<<L(2, Len(v) + Len(w))>> \o v \o w : v \in Small, w \in Small}
              \cup {<<D(2, 5), k, L(1, 1), D(0, 0), l, C("true")>> : k \in Keys, l \in Keys}
              \cup {<<D(3, 6), k, N("1"), l, C("true"), m, S("a")>> : k \in Keys, l \in Keys, m \in Keys}
ValueTape == [d \in ValueTapes |-> d]
=============================================================================
