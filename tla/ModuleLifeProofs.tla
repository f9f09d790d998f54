-------------------------- MODULE ModuleLifeProofs --------------------------
(***************************************************************************)
(* The theorems of ModuleLife, for any number of interpreters and probes:  *)
(* what traverse visits, what free leaves, and when the fast path is on.   *)
(***************************************************************************)
EXTENDS ModuleLife, FiniteSetTheorems, TLAPS

(* Where module_exec stands when k names are interned.                     *)
Interned(k) == {"key_cache"} \cup {Names[j] : j \in 1 .. k}

(* What module_exec has in hand between two calls.                         *)
InHand(p) ==
  CASE p = "base" -> {"json"} [] p = "exception" -> {"base"} [] p = "probe" -> {"probe"}
    [] OTHER -> {}

(* One reference for each field that is set and for what is in hand, at    *)
(* most one for the keys of the cache, and no other.                       *)
Live(r) == {o \in Objects : r[o] = 1}
Owns(p, s, r) ==
  /\ \A o \in Objects : r[o] \in {0, 1}
  /\ Live(r) \ {"keys"} = s \cup InHand(p)

(* How far the life of the module has come: while it is freed nothing puts *)
(* back what the steps before k have given up, as calls may during clear.  *)
Stage(p, s, r, k) ==
  /\ p = "none" => Live(r) = {}
  /\ p = "intern" => \E n \in 0 .. 6 : s = Interned(n)
  /\ p \in {"json", "base", "exception"} => "decode_error" \notin s
  /\ p = "freeing" => \A j \in 1 .. k - 1 : ClearOrder[j] \cap Live(r) = {}
  /\ p = "freed" => Live(r) = {}

Sound(p, s, r, k) == Owns(p, s, r) /\ Stage(p, s, r, k)

LifeInv == TypeOK /\ \A m \in Modules : Sound(pc[m], set[m], refs[m], at[m])

(* The probes passed agreed, and both switches stand for all of them.      *)
SwitchInv ==
  /\ \A m \in Modules : /\ pc[m] = "probe" => probe[m] <= Probes
                        /\ ok[m] => 1 .. probe[m] - 1 \subseteq agrees
                        /\ fast[m] => LayoutAgrees
  /\ enabled => LayoutAgrees

Inv == LifeInv /\ SwitchInv

-----------------------------------------------------------------------------
(* The names, and how many of them are interned. *)

LEMMA NameValues ==
  /\ Len(Names) = 7 /\ DOMAIN Names = 1 .. 7
  /\ \A j \in 1 .. 7 : Names[j] \in NameSet
  /\ \A i, j \in 1 .. 7 : Names[i] = Names[j] => i = j
  /\ NameSet \cap (Groups \cup {"decode_error", "key_cache"}) = {}
  /\ NameSet \cap (Temporaries \cup {"keys"}) = {}
<1>1. Len(Names) = 7 /\ DOMAIN Names = 1 .. 7
  BY DEF Names
<1>2. /\ Names[1] = "_datetime" /\ Names[2] = "numpy" /\ Names[3] = "datetime_CAPI"
      /\ Names[4] = "utcoffset" /\ Names[5] = "__array_struct__" /\ Names[6] = "dtype"
      /\ Names[7] = "str"
  BY DEF Names
<1>3. \A j \in 1 .. 7 : j = 1 \/ j = 2 \/ j = 3 \/ j = 4 \/ j = 5 \/ j = 6 \/ j = 7
  OBVIOUS
<1>4. \A j \in 1 .. 7 : Names[j] \in NameSet
  BY <1>1 DEF NameSet
<1>5. \A i, j \in 1 .. 7 : Names[i] = Names[j] => i = j
  BY <1>2, <1>3
<1>6. \A x \in NameSet : x \in {"_datetime", "numpy", "datetime_CAPI", "utcoffset",
                                "__array_struct__", "dtype", "str"}
  BY <1>1, <1>2, <1>3 DEF NameSet
<1> QED BY <1>1, <1>4, <1>5, <1>6 DEF Groups, Temporaries

LEMMA InternedCount ==
  ASSUME NEW n \in 0 .. 6
  PROVE  Cardinality(Interned(n) \cap NameSet) = n
<1> DEFINE S == {Names[j] : j \in 1 .. n}
<1>1. Interned(n) \cap NameSet = S
  BY NameValues DEF Interned
<1>2. \E f : f \in Bijection(1 .. n, S)
  <2> DEFINE g == [j \in 1 .. n |-> Names[j]]
  <2>1. g \in Bijection(1 .. n, S)
    BY NameValues DEF Bijection, Injection, Surjection, IsInjective
  <2> QED BY <2>1
<1>3. ExistsBijection(1 .. n, S)
  BY <1>2 DEF ExistsBijection
<1>4. Cardinality(S) = n
  BY <1>3, FS_CountingElements
<1> QED BY <1>1, <1>4

LEMMA InternedNext ==
  ASSUME NEW n \in 0 .. 6
  PROVE  /\ Interned(n) \cup {Names[n + 1]} = Interned(n + 1)
         /\ Names[n + 1] \notin Interned(n)
         /\ "decode_error" \notin Interned(n + 1)
         /\ Names[n + 1] \in NameSet
<1>1. 1 .. n + 1 = (1 .. n) \cup {n + 1}
  OBVIOUS
<1>2. \A j \in 1 .. n : j # n + 1 /\ j \in 1 .. 7 /\ n + 1 \in 1 .. 7
  OBVIOUS
<1>3. n + 1 \in 1 .. 7 /\ (\A j \in 1 .. n + 1 : j \in 1 .. 7)
  OBVIOUS
<1> QED BY <1>1, <1>2, <1>3, NameValues DEF Interned

LEMMA Disjoint ==
  /\ Fields \subseteq Objects /\ Temporaries \subseteq Objects /\ "keys" \in Objects
  /\ Fields \cap Temporaries = {} /\ "keys" \notin Fields /\ "keys" \notin Temporaries
  /\ NameSet \subseteq Fields /\ Groups \subseteq Fields
  /\ "decode_error" \in Fields /\ "key_cache" \in Fields
  BY NameValues DEF Fields, Objects, Temporaries, Groups

LEMMA InHandValues ==
  /\ \A p \in PCs : InHand(p) \subseteq Temporaries
  /\ InHand("base") = {"json"} /\ InHand("exception") = {"base"} /\ InHand("probe") = {"probe"}
  /\ \A p \in PCs \ {"base", "exception", "probe"} : InHand(p) = {}
  BY DEF InHand, Temporaries

-----------------------------------------------------------------------------
(* What a step leaves alone, and what it moves. *)

LEMMA Parts ==
  ASSUME Inv, NEW m \in Modules
  PROVE  /\ refs \in [Modules -> [Objects -> Nat]] /\ pc \in [Modules -> PCs]
         /\ set \in [Modules -> SUBSET Fields] /\ set[m] \subseteq Fields
         /\ Live(refs[m]) \ {"keys"} = set[m] \cup InHand(pc[m])
         /\ \A o \in Objects : refs[m][o] \in {0, 1}
         /\ Stage(pc[m], set[m], refs[m], at[m])
  BY DEF Inv, LifeInv, TypeOK, Sound, Owns

Others(m) ==
  \A n \in Modules \ {m} :
    pc'[n] = pc[n] /\ set'[n] = set[n] /\ refs'[n] = refs[n] /\ at'[n] = at[n]

LEMMA OneModule ==
  ASSUME Inv, NEW m \in Modules, TypeOK', Others(m),
         Owns(pc'[m], set'[m], refs'[m]), Stage(pc'[m], set'[m], refs'[m], at'[m])
  PROVE  LifeInv'
  BY DEF Inv, LifeInv, Sound, Others

LEMMA SwitchKept ==
  ASSUME Inv, NEW m \in Modules, Others(m), pc'[m] # "probe" \/ pc'[m] = pc[m],
         UNCHANGED <<check, agrees>>
  PROVE  SwitchInv'
  BY DEF Inv, SwitchInv, Others, check, LayoutAgrees

(* Of m's references those to the objects in S are left.                   *)
Leaves(m, S) ==
  /\ refs' \in [Modules -> [Objects -> Nat]]
  /\ \A n \in Modules \ {m} : refs'[n] = refs[n]
  /\ \A o \in Objects : refs'[m][o] \in {0, 1}
  /\ Live(refs'[m]) = S

LEMMA Taken ==
  ASSUME Inv, NEW m \in Modules, NEW os, os \subseteq Objects, os \cap Live(refs[m]) = {},
         Take(m, os)
  PROVE  Leaves(m, Live(refs[m]) \cup os)
<1>1. refs \in [Modules -> [Objects -> Nat]] /\ \A o \in Objects : refs[m][o] \in {0, 1}
  BY Parts
<1>2. /\ refs' \in [Modules -> [Objects -> Nat]]
      /\ \A n \in Modules \ {m} : refs'[n] = refs[n]
      /\ \A o \in Objects : refs'[m][o] = IF o \in os THEN refs[m][o] + 1 ELSE refs[m][o]
  BY <1>1 DEF Take
<1>3. \A o \in Objects : refs'[m][o] = IF o \in os \/ refs[m][o] = 1 THEN 1 ELSE 0
  BY <1>1, <1>2 DEF Live
<1> QED BY <1>2, <1>3 DEF Leaves, Live

LEMMA Given ==
  ASSUME Inv, NEW m \in Modules, NEW os, os \subseteq Live(refs[m]), Give(m, os)
  PROVE  Leaves(m, Live(refs[m]) \ os)
<1>1. refs \in [Modules -> [Objects -> Nat]] /\ \A o \in Objects : refs[m][o] \in {0, 1}
  BY Parts
<1>2. \A o \in os : o \in Objects /\ refs[m][o] = 1
  BY DEF Live
<1>3. /\ refs' \in [Modules -> [Objects -> Nat]]
      /\ \A n \in Modules \ {m} : refs'[n] = refs[n]
      /\ \A o \in Objects : refs'[m][o] = IF o \in os THEN refs[m][o] - 1 ELSE refs[m][o]
  BY <1>1, <1>2 DEF Give
<1>4. \A o \in Objects : refs'[m][o] = IF o \notin os /\ refs[m][o] = 1 THEN 1 ELSE 0
  BY <1>1, <1>2, <1>3
<1> QED BY <1>3, <1>4 DEF Leaves, Live

LEMMA Kept ==
  ASSUME Inv, NEW m \in Modules, UNCHANGED refs
  PROVE  Leaves(m, Live(refs[m]))
  BY Parts DEF Leaves

LEMMA Moved ==
  ASSUME Inv, NEW m \in Modules, NEW a \in Live(refs[m]), NEW b \in Objects \ Live(refs[m]),
         refs' = [refs EXCEPT ![m][a] = @ - 1, ![m][b] = @ + 1]
  PROVE  Leaves(m, (Live(refs[m]) \ {a}) \cup {b})
<1> DEFINE r == [refs[m] EXCEPT ![a] = @ - 1]
<1>1. /\ refs \in [Modules -> [Objects -> Nat]] /\ \A o \in Objects : refs[m][o] \in {0, 1}
      /\ a \in Objects /\ refs[m][a] = 1 /\ b \in Objects /\ refs[m][b] = 0 /\ a # b
  BY Parts DEF Live
<1>2. /\ r \in [Objects -> Nat] /\ r[a] = 0 /\ r[b] = 0
      /\ \A o \in Objects \ {a} : r[o] = refs[m][o]
  BY <1>1
<1>3. refs' = [refs EXCEPT ![m] = [r EXCEPT ![b] = @ + 1]]
  BY <1>1
<1> HIDE DEF r
<1>4. /\ refs' \in [Modules -> [Objects -> Nat]]
      /\ \A n \in Modules \ {m} : refs'[n] = refs[n]
      /\ refs'[m] = [r EXCEPT ![b] = @ + 1]
  BY <1>1, <1>2, <1>3
<1>5. \A o \in Objects : refs'[m][o] = IF o = b \/ (o # a /\ refs[m][o] = 1) THEN 1 ELSE 0
  BY <1>1, <1>2, <1>4
<1> QED BY <1>4, <1>5 DEF Leaves, Live

-----------------------------------------------------------------------------
(* module_exec. *)

(* A step to the stage `to` that leaves set alone.                         *)
LEMMA Advances ==
  ASSUME Inv, NEW m \in Modules, NEW to \in PCs, Goes(m, to), UNCHANGED set,
         Leaves(m, set[m] \cup InHand(to) \cup (Live(refs[m]) \cap {"keys"})),
         Stage(to, set[m], refs'[m], at[m]), to # "probe",
         exc' \in [Modules -> BOOLEAN], UNCHANGED <<at, python, check, agrees>>
  PROVE  Inv'
<1>1. TypeOK' /\ Others(m)
  BY DEF Inv, LifeInv, TypeOK, Goes, Others, Leaves, check
<1>2. pc'[m] = to /\ set'[m] = set[m] /\ at'[m] = at[m]
  BY Parts DEF Goes
<1>3. InHand(to) \cap {"keys"} = {} /\ set[m] \cap {"keys"} = {}
  BY Parts, InHandValues, Disjoint
<1>4. Owns(pc'[m], set'[m], refs'[m])
  BY <1>2, <1>3 DEF Owns, Leaves
<1>5. LifeInv'
  BY <1>1, <1>2, <1>4, OneModule
<1>6. SwitchInv'
  BY <1>1, <1>2, SwitchKept
<1> QED BY <1>5, <1>6 DEF Inv

(* A failure gives up what module_exec has in hand.                        *)
LEMMA Fails ==
  ASSUME Inv, NEW m \in Modules, Fail(m), UNCHANGED set,
         pc[m] \notin {"none", "freeing", "freed"},
         Leaves(m, Live(refs[m]) \ InHand(pc[m])), UNCHANGED <<at, python, check, agrees>>
  PROVE  Inv'
<1>1. Goes(m, "failed") /\ exc' \in [Modules -> BOOLEAN] /\ "failed" \in PCs
  BY DEF Fail, Inv, LifeInv, TypeOK, PCs
<1>2. pc[m] \in PCs /\ Live(refs[m]) \ {"keys"} = set[m] \cup InHand(pc[m]) /\ set[m] \subseteq Fields
  BY Parts
<1>3. /\ set[m] \cap InHand(pc[m]) = {} /\ {"keys"} \cap InHand(pc[m]) = {}
      /\ InHand("failed") = {}
  BY <1>1, <1>2, InHandValues, Disjoint
<1>4. Live(refs[m]) \ InHand(pc[m])
        = set[m] \cup InHand("failed") \cup (Live(refs[m]) \cap {"keys"})
  BY <1>2, <1>3
<1>5. Stage("failed", set[m], refs'[m], at[m])
  BY DEF Stage
<1> QED BY <1>1, <1>4, <1>5, Advances

LEMMA BoxKeyCacheKeeps ==
  ASSUME Inv, NEW m \in Modules, BoxKeyCache(m)
  PROVE  Inv'
<1>1. /\ pc[m] = "none" /\ Live(refs[m]) = {} /\ set[m] = {}
      /\ pc'[m] = "intern" /\ set'[m] = {"key_cache"}
  BY Parts DEF BoxKeyCache, Goes, Put, Stage
<1>2. Leaves(m, {"key_cache"})
  <2>1. Take(m, {"key_cache"}) /\ {"key_cache"} \subseteq Objects
    BY Disjoint DEF BoxKeyCache
  <2> QED BY <1>1, <2>1, Taken
<1>3. TypeOK' /\ Others(m)
  BY <1>2, Disjoint DEF BoxKeyCache, Goes, Put, PCs, Others, Leaves, Inv, LifeInv, TypeOK, check
<1>4. Owns(pc'[m], set'[m], refs'[m])
  BY <1>1, <1>2, Disjoint DEF Owns, InHand, Leaves
<1>5. Stage(pc'[m], set'[m], refs'[m], at'[m])
  <2>1. Interned(0) = {"key_cache"} /\ 0 \in 0 .. 6
    BY DEF Interned
  <2> QED BY <2>1, <1>1 DEF Stage
<1> QED BY <1>1, <1>3, <1>4, <1>5, OneModule, SwitchKept DEF BoxKeyCache, Inv

LEMMA InternKeeps ==
  ASSUME Inv, NEW m \in Modules, Intern(m)
  PROVE  Inv'
<1>1. pc[m] = "intern" /\ InHand("intern") = {} /\ InHand("json") = {}
  BY InHandValues DEF Intern, PCs
<1>2. PICK n \in 0 .. 6 : set[m] = Interned(n)
  BY <1>1, Parts DEF Stage
<1>3. Cardinality(set[m] \cap NameSet) + 1 = n + 1
  BY <1>2, InternedCount
<1>4. CASE Fail(m) /\ UNCHANGED <<set, refs>>
  <2>1. Leaves(m, Live(refs[m]) \ InHand(pc[m]))
    BY <1>1, <1>4, Kept
  <2> QED BY <1>1, <1>4, <2>1, Fails DEF Intern
<1>5. CASE /\ Put(m, {Names[n + 1]}) /\ Take(m, {Names[n + 1]})
           /\ Goes(m, IF n + 1 = Len(Names) THEN "json" ELSE "intern") /\ UNCHANGED exc
  <2> DEFINE x == Names[n + 1]
  <2>1. x \in Fields /\ x \in Objects /\ x # "keys" /\ x \notin Live(refs[m])
    BY <1>1, <1>2, InternedNext, Disjoint, Parts
  <2>2. set'[m] = Interned(n + 1) /\ set' \in [Modules -> SUBSET Fields]
    BY <1>2, <1>5, <2>1, InternedNext, Parts DEF Put
  <2>3. Leaves(m, Live(refs[m]) \cup {x})
    BY <1>5, <2>1, Taken
  <2>4. pc'[m] = IF n = 6 THEN "json" ELSE "intern"
    BY <1>5, Parts, NameValues DEF Goes
  <2>5. TypeOK' /\ Others(m)
    BY <1>5, <2>2, <2>3 DEF Intern, Goes, Put, PCs, Others, Leaves, Inv, LifeInv, TypeOK, check
  <2>6. set'[m] = set[m] \cup {x} /\ Live(refs[m]) \ {"keys"} = set[m]
    BY <1>1, <1>2, <2>2, InternedNext, Parts
  <2>7. Owns(pc'[m], set'[m], refs'[m])
    BY <1>1, <2>1, <2>3, <2>4, <2>6 DEF Owns, Leaves
  <2>8. Stage(pc'[m], set'[m], refs'[m], at'[m])
    BY <2>2, <2>4, InternedNext DEF Stage
  <2> QED BY <2>4, <2>5, <2>7, <2>8, OneModule, SwitchKept DEF Intern, Inv
<1> QED BY <1>3, <1>4, <1>5 DEF Intern

LEMMA ImportJsonKeeps ==
  ASSUME Inv, NEW m \in Modules, ImportJson(m)
  PROVE  Inv'
<1>1. /\ pc[m] = "json" /\ "base" \in PCs /\ exc \in [Modules -> BOOLEAN]
      /\ InHand("json") = {} /\ InHand("base") = {"json"}
  BY InHandValues DEF ImportJson, PCs, Inv, LifeInv, TypeOK
<1>2. set[m] \subseteq Fields /\ Live(refs[m]) \ {"keys"} = set[m] /\ "decode_error" \notin set[m]
  BY <1>1, Parts DEF Stage
<1>3. CASE Take(m, {"json"}) /\ Goes(m, "base") /\ UNCHANGED exc
  <2>1. {"json"} \subseteq Objects /\ {"json"} \cap Live(refs[m]) = {}
    BY <1>2, Disjoint DEF Temporaries
  <2>2. Leaves(m, Live(refs[m]) \cup {"json"})
    BY <1>3, <2>1, Taken
  <2>3. Live(refs[m]) \cup {"json"} = set[m] \cup InHand("base") \cup (Live(refs[m]) \cap {"keys"})
    BY <1>1, <1>2
  <2>4. Stage("base", set[m], refs'[m], at[m])
    BY <1>2 DEF Stage
  <2> QED BY <1>1, <1>3, <2>2, <2>3, <2>4, Advances DEF ImportJson
<1>4. CASE Fail(m) /\ UNCHANGED refs
  <2>1. Leaves(m, Live(refs[m]) \ InHand(pc[m]))
    BY <1>1, <1>4, Kept
  <2> QED BY <1>1, <1>4, <2>1, Fails DEF ImportJson
<1> QED BY <1>3, <1>4 DEF ImportJson

LEMMA GetBaseKeeps ==
  ASSUME Inv, NEW m \in Modules, GetBase(m)
  PROVE  Inv'
<1>1. /\ pc[m] = "base" /\ "exception" \in PCs /\ exc \in [Modules -> BOOLEAN]
      /\ InHand("base") = {"json"} /\ InHand("exception") = {"base"}
  BY InHandValues DEF GetBase, PCs, Inv, LifeInv, TypeOK
<1>2. /\ set[m] \subseteq Fields /\ Live(refs[m]) \ {"keys"} = set[m] \cup {"json"}
      /\ "decode_error" \notin set[m]
  BY <1>1, Parts DEF Stage
<1>3. "json" \in Live(refs[m]) /\ "json" \notin set[m] /\ "base" \in Objects \ Live(refs[m])
  BY <1>2, Disjoint DEF Temporaries
<1>4. CASE /\ refs' = [refs EXCEPT ![m].json = @ - 1, ![m].base = @ + 1]
           /\ Goes(m, "exception") /\ UNCHANGED exc
  <2>1. Leaves(m, (Live(refs[m]) \ {"json"}) \cup {"base"})
    BY <1>3, <1>4, Moved
  <2>2. (Live(refs[m]) \ {"json"}) \cup {"base"}
          = set[m] \cup InHand("exception") \cup (Live(refs[m]) \cap {"keys"})
    BY <1>1, <1>2, <1>3
  <2>3. Stage("exception", set[m], refs'[m], at[m])
    BY <1>2 DEF Stage
  <2> QED BY <1>1, <1>4, <2>1, <2>2, <2>3, Advances DEF GetBase
<1>5. CASE Fail(m) /\ Give(m, {"json"})
  <2>1. Leaves(m, Live(refs[m]) \ {"json"})
    BY <1>3, <1>5, Given
  <2> QED BY <1>1, <1>5, <2>1, Fails DEF GetBase
<1> QED BY <1>4, <1>5 DEF GetBase

LEMMA NewExceptionKeeps ==
  ASSUME Inv, NEW m \in Modules, NewException(m)
  PROVE  Inv'
<1>1. /\ pc[m] = "exception" /\ InHand("exception") = {"base"} /\ InHand("constants") = {}
  BY InHandValues DEF NewException, PCs
<1>2. /\ set[m] \subseteq Fields /\ Live(refs[m]) \ {"keys"} = set[m] \cup {"base"}
      /\ "decode_error" \notin set[m]
  BY <1>1, Parts DEF Stage
<1>3. /\ "base" \in Live(refs[m]) /\ "base" \notin set[m]
      /\ "decode_error" \in Objects \ Live(refs[m])
  BY <1>2, Disjoint DEF Temporaries
<1>4. CASE /\ refs' = [refs EXCEPT ![m].base = @ - 1, ![m].decode_error = @ + 1]
           /\ Put(m, {"decode_error"}) /\ Goes(m, "constants") /\ UNCHANGED exc
  <2>1. Leaves(m, (Live(refs[m]) \ {"base"}) \cup {"decode_error"})
    BY <1>3, <1>4, Moved
  <2>2. /\ set' \in [Modules -> SUBSET Fields] /\ set'[m] = set[m] \cup {"decode_error"}
        /\ pc'[m] = "constants"
    BY <1>4, Disjoint, Parts DEF Put, Goes
  <2>3. TypeOK' /\ Others(m)
    BY <1>4, <2>1, <2>2
    DEF NewException, Goes, Put, PCs, Others, Leaves, Inv, LifeInv, TypeOK, check
  <2>4. Owns(pc'[m], set'[m], refs'[m])
    BY <1>1, <1>2, <1>3, <2>1, <2>2 DEF Owns, Leaves
  <2>5. Stage(pc'[m], set'[m], refs'[m], at'[m])
    BY <2>2 DEF Stage
  <2> QED BY <2>2, <2>3, <2>4, <2>5, OneModule, SwitchKept DEF NewException, Inv
<1>5. CASE Fail(m) /\ Give(m, {"base"}) /\ UNCHANGED set
  <2>1. Leaves(m, Live(refs[m]) \ {"base"})
    BY <1>3, <1>5, Given
  <2> QED BY <1>1, <1>5, <2>1, Fails DEF NewException
<1> QED BY <1>4, <1>5 DEF NewException

(* The calls that have nothing in hand.                                    *)
LEMMA FreeHands ==
  ASSUME Inv, NEW m \in Modules, UNCHANGED refs,
         pc[m] \in {"constants", "new_probe", "fastpath", "version"}
  PROVE  /\ Leaves(m, Live(refs[m])) /\ Leaves(m, Live(refs[m]) \ InHand(pc[m]))
         /\ \A to \in {"new_probe", "fastpath", "version", "ready"} :
              Leaves(m, set[m] \cup InHand(to) \cup (Live(refs[m]) \cap {"keys"}))
<1>1. Leaves(m, Live(refs[m]))
  BY Kept
<1>2. InHand(pc[m]) = {}
  BY InHandValues DEF PCs
<1>3. \A to \in {"new_probe", "fastpath", "version", "ready"} : InHand(to) = {}
  BY InHandValues DEF PCs
<1>4. Live(refs[m]) \ {"keys"} = set[m] \cup InHand(pc[m])
  BY Parts
<1>5. Live(refs[m]) = set[m] \cup (Live(refs[m]) \cap {"keys"})
      /\ Live(refs[m]) = Live(refs[m]) \ InHand(pc[m])
  BY <1>2, <1>4
<1>6. \A to \in {"new_probe", "fastpath", "version", "ready"} :
        Live(refs[m]) = set[m] \cup InHand(to) \cup (Live(refs[m]) \cap {"keys"})
  BY <1>3, <1>5
<1> QED BY <1>1, <1>5, <1>6

LEMMA AddConstantsKeeps ==
  ASSUME Inv, NEW m \in Modules, AddConstants(m)
  PROVE  Inv'
<1>1. pc[m] = "constants" /\ "new_probe" \in PCs /\ exc \in [Modules -> BOOLEAN] /\ UNCHANGED refs
  BY DEF AddConstants, PCs, Inv, LifeInv, TypeOK
<1>2. Stage("new_probe", set[m], refs'[m], at[m])
  BY DEF Stage
<1>3. CASE Goes(m, "new_probe") /\ UNCHANGED exc
  BY <1>1, <1>2, <1>3, FreeHands, Advances DEF AddConstants
<1>4. CASE Fail(m)
  BY <1>1, <1>4, FreeHands, Fails DEF AddConstants
<1> QED BY <1>3, <1>4 DEF AddConstants

LEMMA AddVersionKeeps ==
  ASSUME Inv, NEW m \in Modules, AddVersion(m)
  PROVE  Inv'
<1>1. pc[m] = "version" /\ "ready" \in PCs /\ exc \in [Modules -> BOOLEAN] /\ UNCHANGED refs
  BY DEF AddVersion, PCs, Inv, LifeInv, TypeOK
<1>2. Stage("ready", set[m], refs'[m], at[m])
  BY DEF Stage
<1>3. CASE ~exc[m] /\ Goes(m, "ready") /\ UNCHANGED exc
  BY <1>1, <1>2, <1>3, FreeHands, Advances DEF AddVersion
<1>4. CASE Fail(m)
  BY <1>1, <1>4, FreeHands, Fails DEF AddVersion
<1> QED BY <1>3, <1>4 DEF AddVersion

-----------------------------------------------------------------------------
(* self_check. *)

LEMMA NewProbeKeeps ==
  ASSUME Inv, NEW m \in Modules, NewProbe(m)
  PROVE  Inv'
<1>1. /\ pc[m] = "new_probe" /\ probe[m] <= Probes
      /\ InHand("new_probe") = {} /\ InHand("probe") = {"probe"}
  BY InHandValues DEF NewProbe, PCs
<1>2. set[m] \subseteq Fields /\ Live(refs[m]) \ {"keys"} = set[m]
  BY <1>1, Parts
<1>3. CASE Take(m, {"probe"}) /\ Goes(m, "probe") /\ UNCHANGED exc
  <2>1. {"probe"} \subseteq Objects /\ {"probe"} \cap Live(refs[m]) = {}
    BY <1>2, Disjoint DEF Temporaries
  <2>2. Leaves(m, Live(refs[m]) \cup {"probe"})
    BY <1>3, <2>1, Taken
  <2>3. pc'[m] = "probe" /\ set'[m] = set[m]
    BY <1>3, Parts DEF Goes, NewProbe
  <2>4. TypeOK' /\ Others(m)
    BY <1>3, <2>2 DEF NewProbe, Goes, PCs, Others, Leaves, Inv, LifeInv, TypeOK, check
  <2>5. Owns(pc'[m], set'[m], refs'[m])
    BY <1>1, <1>2, <2>2, <2>3 DEF Owns, Leaves
  <2>6. Stage(pc'[m], set'[m], refs'[m], at'[m])
    BY <2>3 DEF Stage
  <2>7. SwitchInv'
    BY <1>1, <1>3, <2>4 DEF NewProbe, Inv, SwitchInv, Others, check, LayoutAgrees
  <2> QED BY <2>4, <2>5, <2>6, <2>7, OneModule DEF Inv
<1>4. CASE Fail(m) /\ UNCHANGED refs
  BY <1>1, <1>4, FreeHands, Fails DEF NewProbe
<1> QED BY <1>3, <1>4 DEF NewProbe

LEMMA ProbeKeeps ==
  ASSUME Inv, NEW m \in Modules, Probe(m)
  PROVE  Inv'
<1>1. /\ pc[m] = "probe" /\ pc'[m] = "new_probe" /\ set'[m] = set[m]
      /\ InHand("new_probe") = {} /\ InHand("probe") = {"probe"}
  BY InHandValues, Parts DEF Probe, PCs, Goes
<1>2. set[m] \subseteq Fields /\ Live(refs[m]) \ {"keys"} = set[m] \cup {"probe"}
  BY <1>1, Parts
<1>3. "probe" \in Live(refs[m]) /\ "probe" \notin set[m]
  BY <1>2, Disjoint DEF Temporaries
<1>4. Leaves(m, Live(refs[m]) \ {"probe"})
  BY <1>3, Given DEF Probe
<1>5. /\ probe \in [Modules -> 1 .. Probes + 1] /\ ok \in [Modules -> BOOLEAN]
      /\ exc \in [Modules -> BOOLEAN] /\ probe[m] \in 1 .. Probes /\ Probes \in Nat
  BY <1>1, ModuleLifeAssumption DEF Inv, LifeInv, TypeOK, SwitchInv
<1>6. /\ probe' \in [Modules -> 1 .. Probes + 1] /\ probe'[m] = probe[m] + 1
      /\ \A n \in Modules \ {m} : probe'[n] = probe[n]
  BY <1>5 DEF Probe
<1>7. /\ ok' \in [Modules -> BOOLEAN]
      /\ ok'[m] => ok[m] /\ probe[m] \in agrees
      /\ \A n \in Modules \ {m} : ok'[n] = ok[n]
  BY <1>5 DEF Probe
<1>8. exc' \in [Modules -> BOOLEAN]
  BY <1>5 DEF Probe
<1>9. TypeOK' /\ Others(m)
  BY <1>4, <1>6, <1>7, <1>8 DEF Probe, Goes, PCs, Others, Leaves, Inv, LifeInv, TypeOK
<1>10. Owns(pc'[m], set'[m], refs'[m])
  BY <1>1, <1>2, <1>3, <1>4 DEF Owns, Leaves
<1>11. Stage(pc'[m], set'[m], refs'[m], at'[m])
  BY <1>1 DEF Stage
<1>12. SwitchInv'
  <2>1. ok'[m] => 1 .. probe'[m] - 1 \subseteq agrees
    <3>1. ok[m] => 1 .. probe[m] - 1 \subseteq agrees
      BY DEF Inv, SwitchInv
    <3>2. \A q \in 1 .. probe'[m] - 1 : q \in 1 .. probe[m] - 1 \/ q = probe[m]
      BY <1>5, <1>6
    <3>3. CASE ok'[m]
      <4>1. 1 .. probe[m] - 1 \subseteq agrees /\ probe[m] \in agrees
        BY <1>7, <3>1, <3>3
      <4> QED BY <3>2, <4>1
    <3> QED BY <3>3
  <2>2. UNCHANGED <<fast, enabled, agrees>>
    BY DEF Probe
  <2> QED BY <1>1, <1>6, <1>7, <1>9, <2>1, <2>2 DEF Inv, SwitchInv, Others, LayoutAgrees
<1> QED BY <1>9, <1>10, <1>11, <1>12, OneModule DEF Inv

LEMMA StoreEnabledKeeps ==
  ASSUME Inv, NEW m \in Modules, StoreEnabled(m)
  PROVE  Inv'
<1>1. /\ pc[m] = "new_probe" /\ pc'[m] = "fastpath" /\ set'[m] = set[m] /\ UNCHANGED refs
      /\ InHand("new_probe") = {} /\ InHand("fastpath") = {}
  BY InHandValues, Parts DEF StoreEnabled, PCs, Goes
<1>2. TypeOK' /\ Others(m)
  BY DEF StoreEnabled, Goes, PCs, Others, Inv, LifeInv, TypeOK
<1>3. Owns(pc'[m], set'[m], refs'[m])
  BY <1>1, Parts DEF Owns
<1>4. Stage(pc'[m], set'[m], refs'[m], at'[m])
  BY <1>1 DEF Stage
<1>5. enabled' => LayoutAgrees'
  <2>1. /\ enabled' = ok[m] /\ agrees' = agrees /\ agrees \subseteq 1 .. Probes
        /\ probe[m] > Probes /\ probe[m] \in Nat /\ Probes \in Nat
    BY ModuleLifeAssumption DEF StoreEnabled, Inv, LifeInv, TypeOK
  <2>2. ok[m] => 1 .. probe[m] - 1 \subseteq agrees
    BY DEF Inv, SwitchInv
  <2>3. \A q \in 1 .. Probes : q \in 1 .. probe[m] - 1
    BY <2>1
  <2> QED BY <2>1, <2>2, <2>3 DEF LayoutAgrees
<1>6. SwitchInv'
  BY <1>1, <1>2, <1>5 DEF StoreEnabled, Inv, SwitchInv, Others, LayoutAgrees
<1> QED BY <1>2, <1>3, <1>4, <1>6, OneModule DEF Inv

LEMMA AddFastPathKeeps ==
  ASSUME Inv, NEW m \in Modules, AddFastPath(m)
  PROVE  Inv'
<1>1. pc[m] = "fastpath" /\ InHand("version") = {} /\ InHand("fastpath") = {}
  BY InHandValues DEF AddFastPath, PCs
<1>2. CASE fast' = [fast EXCEPT ![m] = enabled] /\ Goes(m, "version") /\ UNCHANGED exc
  <2>1. pc'[m] = "version" /\ set'[m] = set[m] /\ UNCHANGED refs
    BY <1>2, Parts DEF Goes, AddFastPath
  <2>2. TypeOK' /\ Others(m)
    BY <1>2 DEF AddFastPath, Goes, PCs, Others, Inv, LifeInv, TypeOK
  <2>3. Owns(pc'[m], set'[m], refs'[m])
    BY <1>1, <2>1, Parts DEF Owns
  <2>4. Stage(pc'[m], set'[m], refs'[m], at'[m])
    BY <2>1 DEF Stage
  <2>5. \A n \in Modules : fast'[n] => fast[n] \/ enabled
    BY <1>2 DEF Inv, LifeInv, TypeOK
  <2>6. SwitchInv'
    BY <2>1, <2>2, <2>5 DEF AddFastPath, Inv, SwitchInv, Others, LayoutAgrees
  <2> QED BY <2>2, <2>3, <2>4, <2>6, OneModule DEF Inv
<1>3. CASE Fail(m) /\ UNCHANGED fast
  BY <1>1, <1>3, FreeHands, Fails DEF AddFastPath, check
<1> QED BY <1>2, <1>3 DEF AddFastPath

-----------------------------------------------------------------------------
(* The calls, and the end. *)

LEMMA CallKeeps ==
  ASSUME Inv, NEW m \in Modules, Callable(m), NEW S, Leaves(m, S),
         set' \in [Modules -> SUBSET Fields], S \ {"keys"} = set'[m],
         \A n \in Modules \ {m} : set'[n] = set[n],
         UNCHANGED <<pc, exc, at, python, check, agrees>>
  PROVE  Inv'
<1>1. pc[m] \in {"ready", "cleared", "clearing"} /\ pc'[m] = pc[m] /\ InHand(pc[m]) = {}
  BY InHandValues DEF Callable, PCs
<1>2. TypeOK' /\ Others(m)
  BY DEF Others, Leaves, Inv, LifeInv, TypeOK, check
<1>3. Owns(pc'[m], set'[m], refs'[m]) /\ Stage(pc'[m], set'[m], refs'[m], at'[m])
  BY <1>1 DEF Owns, Stage, Leaves
<1> QED BY <1>1, <1>2, <1>3, OneModule, SwitchKept DEF Inv

LEMMA Idle ==
  ASSUME Inv, NEW m \in Modules,
         pc[m] \in {"ready", "failed", "clearing", "cleared", "freeing"}
  PROVE  /\ InHand(pc[m]) = {} /\ Live(refs[m]) \ {"keys"} = set[m]
         /\ set[m] \subseteq Fields /\ Held(m) = Live(refs[m])
<1>1. InHand(pc[m]) = {}
  BY InHandValues DEF PCs
<1>2. Live(refs[m]) \ {"keys"} = set[m] /\ set[m] \subseteq Fields
  BY <1>1, Parts
<1>3. "keys" \in Live(refs[m]) <=> refs[m].keys > 0
  BY Parts, Disjoint DEF Live
<1> QED BY <1>1, <1>2, <1>3 DEF Held

LEMMA LoadDatetimeKeeps ==
  ASSUME Inv, NEW m \in Modules, LoadDatetime(m)
  PROVE  Inv'
<1> DEFINE os == {"dt_capsule"} \cup ({"dt"} \ set[m])
<1>1. /\ Live(refs[m]) \ {"keys"} = set[m] /\ set[m] \subseteq Fields
      /\ "dt_capsule" \notin set[m] /\ {"dt_capsule", "dt"} \subseteq Fields
  BY Idle, Disjoint DEF LoadDatetime, Callable, Groups
<1>2. os \subseteq Objects /\ os \cap Live(refs[m]) = {} /\ "keys" \notin os
  BY <1>1, Disjoint
<1>3. Leaves(m, Live(refs[m]) \cup os)
  BY <1>2, Taken DEF LoadDatetime
<1>4. /\ set' \in [Modules -> SUBSET Fields] /\ set'[m] = set[m] \cup {"dt_capsule", "dt"}
      /\ \A n \in Modules \ {m} : set'[n] = set[n]
  BY <1>1, Parts DEF LoadDatetime, Put
<1>5. (Live(refs[m]) \cup os) \ {"keys"} = set'[m]
  BY <1>1, <1>2, <1>4
<1> QED BY <1>3, <1>4, <1>5, CallKeeps DEF LoadDatetime

LEMMA LoadNumpyKeeps ==
  ASSUME Inv, NEW m \in Modules, LoadNumpy(m)
  PROVE  Inv'
<1> DEFINE os == {"np_module"} \cup ({"np"} \ set[m])
<1>1. /\ Live(refs[m]) \ {"keys"} = set[m] /\ set[m] \subseteq Fields
      /\ "np_module" \notin set[m] /\ {"np_module", "np"} \subseteq Fields
  BY Idle, Disjoint DEF LoadNumpy, Callable, Groups
<1>2. os \subseteq Objects /\ os \cap Live(refs[m]) = {} /\ "keys" \notin os
  BY <1>1, Disjoint
<1>3. Leaves(m, Live(refs[m]) \cup os)
  BY <1>2, Taken DEF LoadNumpy
<1>4. /\ set' \in [Modules -> SUBSET Fields] /\ set'[m] = set[m] \cup {"np_module", "np"}
      /\ \A n \in Modules \ {m} : set'[n] = set[n]
  BY <1>1, Parts DEF LoadNumpy, Put
<1>5. (Live(refs[m]) \cup os) \ {"keys"} = set'[m]
  BY <1>1, <1>2, <1>4
<1> QED BY <1>3, <1>4, <1>5, CallKeeps DEF LoadNumpy

LEMMA CacheKeyKeeps ==
  ASSUME Inv, NEW m \in Modules, CacheKey(m)
  PROVE  Inv'
<1>1. Live(refs[m]) \ {"keys"} = set[m] /\ "keys" \in Objects \ Live(refs[m])
  BY Idle, Disjoint DEF CacheKey, Callable, Live
<1>2. Leaves(m, Live(refs[m]) \cup {"keys"})
  BY <1>1, Taken DEF CacheKey
<1>3. set' \in [Modules -> SUBSET Fields] /\ \A n \in Modules : set'[n] = set[n]
  BY Parts DEF CacheKey
<1> QED BY <1>1, <1>2, <1>3, CallKeeps DEF CacheKey

LEMMA ClearOrderValues ==
  /\ Len(ClearOrder) = 5
  /\ ClearOrder[1] = {"decode_error"} /\ ClearOrder[2] = {"keys", "dt_capsule", "dt"}
  /\ ClearOrder[3] = {"np_module"} /\ ClearOrder[4] = {"np"} /\ ClearOrder[5] = NameSet
  /\ \A o \in Fields \cup {"keys"} :
       o = "key_cache" \/ \E j \in 1 .. 5 : o \in ClearOrder[j]
<1>1. /\ Len(ClearOrder) = 5
      /\ ClearOrder[1] = {"decode_error"} /\ ClearOrder[2] = {"keys", "dt_capsule", "dt"}
      /\ ClearOrder[3] = {"np_module"} /\ ClearOrder[4] = {"np"} /\ ClearOrder[5] = NameSet
  BY DEF ClearOrder
<1>2. 1 \in 1 .. 5 /\ 2 \in 1 .. 5 /\ 3 \in 1 .. 5 /\ 4 \in 1 .. 5 /\ 5 \in 1 .. 5
  OBVIOUS
<1>3. ASSUME NEW o \in Fields \cup {"keys"}, o # "key_cache"
      PROVE  \E j \in 1 .. 5 : o \in ClearOrder[j]
  <2>1. \/ o \in NameSet \/ o = "decode_error" \/ o = "keys"
        \/ o = "dt_capsule" \/ o = "dt" \/ o = "np_module" \/ o = "np"
    BY <1>3 DEF Fields, Groups
  <2> QED BY <1>1, <1>2, <2>1
<1> QED BY <1>1, <1>3

(* The steps of the end that move only pc and at.                          *)
LEMMA EndMoves ==
  ASSUME Inv, NEW m \in Modules, UNCHANGED <<set, refs, exc, python, check, agrees>>,
         NEW to \in {"clearing", "cleared", "freeing"}, Goes(m, to),
         pc[m] \in {"ready", "failed", "cleared", "clearing"},
         at' \in [Modules -> 1 .. Len(ClearOrder) + 1],
         \A n \in Modules \ {m} : at'[n] = at[n], to = "freeing" => at'[m] = 1
  PROVE  Inv'
<1>1. /\ pc'[m] = to /\ set'[m] = set[m] /\ refs'[m] = refs[m]
      /\ InHand(pc[m]) = {} /\ InHand(to) = {}
  BY Parts, InHandValues DEF Goes, PCs
<1>2. TypeOK' /\ Others(m)
  BY DEF Others, Goes, PCs, Inv, LifeInv, TypeOK, check
<1>3. Owns(pc'[m], set'[m], refs'[m]) /\ Stage(pc'[m], set'[m], refs'[m], at'[m])
  BY <1>1, Parts DEF Owns, Stage
<1> QED BY <1>1, <1>2, <1>3, OneModule, SwitchKept DEF Inv

LEMMA CollectBeginsKeeps ==
  ASSUME Inv, NEW m \in Modules, CollectBegins(m)
  PROVE  Inv'
<1>1. /\ at' \in [Modules -> 1 .. Len(ClearOrder) + 1] /\ at'[m] = 1
      /\ \A n \in Modules \ {m} : at'[n] = at[n]
  BY ClearOrderValues DEF CollectBegins, Inv, LifeInv, TypeOK
<1> QED BY <1>1, EndMoves DEF CollectBegins

LEMMA FreeBeginsKeeps ==
  ASSUME Inv, NEW m \in Modules, FreeBegins(m)
  PROVE  Inv'
<1>1. /\ at' \in [Modules -> 1 .. Len(ClearOrder) + 1] /\ at'[m] = 1
      /\ \A n \in Modules \ {m} : at'[n] = at[n]
  BY ClearOrderValues DEF FreeBegins, Inv, LifeInv, TypeOK
<1> QED BY <1>1, EndMoves DEF FreeBegins

LEMMA ClearEndsKeeps ==
  ASSUME Inv, NEW m \in Modules, ClearEnds(m)
  PROVE  Inv'
<1>1. at' \in [Modules -> 1 .. Len(ClearOrder) + 1] /\ at' = at
  BY DEF ClearEnds, Inv, LifeInv, TypeOK
<1> QED BY <1>1, EndMoves DEF ClearEnds

LEMMA ReleaseKeeps ==
  ASSUME Inv, NEW m \in Modules, Release(m)
  PROVE  Inv'
<1> DEFINE gone == ClearOrder[at[m]] \cap Held(m)
           L == Live(refs[m])
<1>1. /\ InHand(pc[m]) = {} /\ L \ {"keys"} = set[m] /\ set[m] \subseteq Fields
      /\ gone = ClearOrder[at[m]] \cap L /\ gone \subseteq L
  BY Idle DEF Release
<1>2. Leaves(m, L \ gone)
  BY <1>1, Given DEF Release
<1>3. /\ set' \in [Modules -> SUBSET Fields] /\ set'[m] = set[m] \ gone
      /\ \A n \in Modules \ {m} : set'[n] = set[n]
  BY Parts DEF Release
<1>4. /\ at' \in [Modules -> 1 .. Len(ClearOrder) + 1] /\ at'[m] = at[m] + 1
      /\ \A n \in Modules \ {m} : at'[n] = at[n]
      /\ at[m] \in Nat /\ pc'[m] = pc[m] /\ pc[m] \in {"clearing", "freeing"}
  BY ClearOrderValues DEF Release, Inv, LifeInv, TypeOK
<1>5. TypeOK' /\ Others(m)
  BY <1>2, <1>3, <1>4 DEF Release, Others, Leaves, Inv, LifeInv, TypeOK, check
<1>6. Owns(pc'[m], set'[m], refs'[m])
  BY <1>1, <1>2, <1>3, <1>4 DEF Owns, Leaves
<1>7. ASSUME pc[m] = "freeing", NEW j \in 1 .. at'[m] - 1
      PROVE  ClearOrder[j] \cap (L \ gone) = {}
  <2>1. \A i \in 1 .. at[m] - 1 : ClearOrder[i] \cap L = {}
    BY <1>7, Parts DEF Stage
  <2>2. j \in 1 .. at[m] - 1 \/ j = at[m]
    BY <1>4
  <2> QED BY <1>1, <2>1, <2>2
<1>8. Stage(pc'[m], set'[m], refs'[m], at'[m])
  BY <1>2, <1>4, <1>7 DEF Stage, Leaves
<1> QED BY <1>4, <1>5, <1>6, <1>8, OneModule, SwitchKept DEF Release, Inv

LEMMA FreeBoxKeeps ==
  ASSUME Inv, NEW m \in Modules, FreeBox(m)
  PROVE  Inv'
<1> DEFINE L == Live(refs[m])
<1>1. /\ pc[m] = "freeing" /\ pc'[m] = "freed" /\ at[m] = 6
      /\ InHand("freeing") = {} /\ InHand("freed") = {}
  <2>1. at[m] \in 1 .. 6 /\ at[m] > 5
    BY ClearOrderValues DEF FreeBox, Inv, LifeInv, TypeOK
  <2>2. pc[m] = "freeing" /\ pc'[m] = "freed"
    BY Parts DEF FreeBox, Goes
  <2> QED BY <2>1, <2>2, InHandValues DEF PCs
<1>2. L \ {"keys"} = set[m] /\ set[m] \subseteq Fields
  BY <1>1, Parts
<1>3. L \subseteq {"key_cache"}
  <2>1. \A j \in 1 .. 5 : ClearOrder[j] \cap L = {}
    BY <1>1, Parts DEF Stage
  <2> QED BY <1>2, <2>1, ClearOrderValues
<1>4. Leaves(m, {})
  <2>1. CASE "key_cache" \in set[m]
    BY <1>2, <1>3, <2>1, Given DEF FreeBox
  <2>2. CASE "key_cache" \notin set[m]
    <3>1. L = {}
      BY <1>2, <1>3, <2>2
    <3> QED BY <2>2, <3>1, Kept DEF FreeBox
  <2> QED BY <2>1, <2>2
<1>5. set' \in [Modules -> SUBSET Fields] /\ set'[m] = {}
  BY <1>2, <1>3, Parts DEF FreeBox
<1>6. TypeOK' /\ Others(m)
  BY <1>4, <1>5 DEF FreeBox, Goes, PCs, Others, Leaves, Inv, LifeInv, TypeOK, check
<1>7. Owns(pc'[m], set'[m], refs'[m]) /\ Stage(pc'[m], set'[m], refs'[m], at'[m])
  BY <1>1, <1>4, <1>5 DEF Owns, Stage, Leaves
<1> QED BY <1>1, <1>6, <1>7, OneModule, SwitchKept DEF FreeBox, Inv

-----------------------------------------------------------------------------
(* The theorems. *)

LEMMA InitInv == Init => Inv
<1> SUFFICES ASSUME Init PROVE Inv
  OBVIOUS
<1>1. TypeOK
  <2>1. 1 \in 1 .. Probes + 1 /\ 1 \in 1 .. Len(ClearOrder) + 1
    BY ModuleLifeAssumption, ClearOrderValues
  <2> QED BY <2>1 DEF Init, TypeOK, PCs
<1>2. ASSUME NEW m \in Modules PROVE Sound(pc[m], set[m], refs[m], at[m])
  <2>1. pc[m] = "none" /\ set[m] = {} /\ refs[m] = [o \in Objects |-> 0] /\ InHand("none") = {}
    BY InHandValues DEF Init, PCs
  <2> QED BY <2>1 DEF Sound, Owns, Stage, Live
<1>3. SwitchInv
  BY DEF Init, SwitchInv
<1> QED BY <1>1, <1>2, <1>3 DEF Inv, LifeInv

LEMMA NextInv == Inv /\ [Next]_vars => Inv'
<1> SUFFICES ASSUME Inv, [Next]_vars PROVE Inv'
  OBVIOUS
<1>1. CASE UNCHANGED vars
  BY <1>1 DEF vars, Inv, LifeInv, SwitchInv, TypeOK, LayoutAgrees
<1>2. ASSUME NEW m \in Modules, Exec(m) PROVE Inv'
  BY <1>2, BoxKeyCacheKeeps, InternKeeps, ImportJsonKeeps, GetBaseKeeps, NewExceptionKeeps,
     AddConstantsKeeps, NewProbeKeeps, ProbeKeeps, StoreEnabledKeeps, AddFastPathKeeps,
     AddVersionKeeps DEF Exec
<1>3. ASSUME NEW m \in Modules, Call(m) PROVE Inv'
  BY <1>3, LoadDatetimeKeeps, LoadNumpyKeeps, CacheKeyKeeps DEF Call
<1>4. ASSUME NEW m \in Modules, End(m) PROVE Inv'
  BY <1>4, CollectBeginsKeeps, FreeBeginsKeeps, ReleaseKeeps, ClearEndsKeeps, FreeBoxKeeps
  DEF End
<1> QED BY <1>1, <1>2, <1>3, <1>4 DEF Next

LEMMA InvAlways == Spec => []Inv
  BY InitInv, NextInv, PTL DEF Spec

(* No variable leaves its type; no reference count goes below zero.        *)
THEOREM TypeCorrect == Spec => []TypeOK
<1>1. Inv => TypeOK
  BY DEF Inv, LifeInv
<1> QED BY <1>1, InvAlways, PTL

(* Whichever call of module_exec failed and wherever a finalizer calls into*)
(* the module while it is cleared, module_traverse visits exactly the      *)
(* references that the state owns.                                         *)
THEOREM TraverseCorrect == Spec => []TraverseExact
<1>1. Inv => TraverseExact
  <2> SUFFICES ASSUME Inv, NEW m \in Modules
               PROVE  /\ \A f \in Fields \ {"key_cache"} :
                           refs[m][f] = IF f \in Traverse(m) THEN 1 ELSE 0
                      /\ refs[m]["key_cache"] = IF "key_cache" \in set[m] THEN 1 ELSE 0
    BY DEF TraverseExact
  <2>1. /\ Live(refs[m]) \ {"keys"} = set[m] \cup InHand(pc[m]) /\ set[m] \subseteq Fields
        /\ InHand(pc[m]) \cap Fields = {}
        /\ \A o \in Objects : refs[m][o] \in {0, 1}
    BY Parts, InHandValues, Disjoint
  <2>2. \A f \in Fields : f \in Objects /\ f # "keys"
    BY Disjoint
  <2>3. \A f \in Fields : refs[m][f] = IF f \in set[m] THEN 1 ELSE 0
    BY <2>1, <2>2 DEF Live
  <2>4. \A f \in Fields \ {"key_cache"} : f \in Traverse(m) <=> f \in set[m]
    BY DEF Traverse, Fields
  <2> QED BY <2>3, <2>4, Disjoint
<1> QED BY <1>1, InvAlways, PTL

(* A module that has been freed owns nothing, whatever was loaded again    *)
(* while clear ran.                                                        *)
THEOREM NothingIsLeft == Spec => []NothingLeft
<1>1. Inv => NothingLeft
  <2> SUFFICES ASSUME Inv, NEW m \in Modules, pc[m] = "freed", NEW o \in Objects
               PROVE  refs[m][o] = 0
    BY DEF NothingLeft
  <2>1. Live(refs[m]) = {} /\ refs[m][o] \in {0, 1}
    BY Parts DEF Stage
  <2> QED BY <2>1 DEF Live
<1> QED BY <1>1, InvAlways, PTL

(* In no interpreter, and at no moment of another's self-check, is the str *)
(* fast path on unless the header layout agrees with CPython's API.        *)
THEOREM FastPathCorrect == Spec => []FastPathRight
<1>1. Inv => FastPathRight
  BY DEF Inv, SwitchInv, FastPathRight
<1> QED BY <1>1, InvAlways, PTL

=============================================================================
