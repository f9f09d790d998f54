-------------------------- MODULE TypeCacheProofs --------------------------
(***************************************************************************)
(* The theorems of TypeCache, for any number of calls, modules and slots:  *)
(* the cache never points to an object it does not own, whatever calls a   *)
(* finalizer makes, and as long as no lookup begins in another one's       *)
(* finalizer the counts are exact and the groups whole.                    *)
(***************************************************************************)
EXTENDS TypeCache, SetFacts

-----------------------------------------------------------------------------
(* Counting pointers. *)

OfDatetime(o) == IF dt /\ o \in {Capsule, Datetimes} THEN 1 ELSE 0
Mods == [c \in Calls |-> call[c].module]

LEMMA PointersAre ==
  ASSUME NEW o
  PROVE  Pointers(o) = Places(np, 1 .. Slots, o) + Places(Mods, Calls, o) + Equals(npModule, o)
                       + OfDatetime(o)
<1>1. {c \in Calls : call[c].module = o} = {c \in Calls : Mods[c] = o}
  BY DEF Mods
<1> QED BY <1>1 DEF Pointers, Places, Equals, OfDatetime

LEMMA Finite == IsFiniteSet(Calls) /\ IsFiniteSet(1 .. Slots) /\ Slots \in Nat
BY TypeCacheAssumption, FS_Interval

-----------------------------------------------------------------------------
(* The invariant. *)

StageOf(r) == IF r.pc = "python" THEN r.after ELSE r.pc

(* The group and its owner are there together, or neither of them.         *)
Whole == IF npModule = Absent THEN np = EmptyGroup ELSE np = Group(npModule)

LookupInv ==
  \A c \in Calls : StageOf(call[c]) # "python" /\ (StageOf(call[c]) = "idle" <=> call[c].module = Absent)

Shape == \A i \in 1 .. Slots : np[i] = Absent \/ \E m \in Modules : np[i] = <<m, i>>

CountInv == \A o \in Owned : refs[o] >= Pointers(o) /\ (~nested => refs[o] = Pointers(o))

(* What a lookup that is the only one knows of the cache at its stage.     *)
AloneFor(r) ==
  /\ StageOf(r) \in {"idle", "clear"} => Whole
  /\ StageOf(r) = "types" => npModule = Absent /\ \A i \in 1 .. Slots : i < r.slot => np[i] = Absent
  /\ StageOf(r) \in {"read", "drop"} => npModule = Absent /\ np = EmptyGroup

AloneInv ==
  ~nested => /\ \A c, d \in Calls : call[c].pc # "idle" /\ call[d].pc # "idle" => c = d
             /\ \A c \in Calls : call[c].pc # "idle" => AloneFor(call[c])
             /\ Quiet => Whole

Inv == TypeOK /\ LookupInv /\ Shape /\ CountInv /\ AloneInv

LEMMA Kinds ==
  /\ Absent \notin Owned
  /\ \A m \in Modules : m \in Owned /\ m \notin Types /\ m \notin {Capsule, Datetimes}
  /\ \A t \in Types : /\ t \in Owned /\ t \notin {Capsule, Datetimes}
                      /\ \E m \in Modules, i \in 1 .. Slots : t = <<m, i>>
  /\ \A m \in Modules, i \in 1 .. Slots : <<m, i>> \in Types
  /\ Capsule \in Owned /\ Datetimes \in Owned /\ Capsule # Datetimes
<1>1. \A t \in Types : \E m \in Modules, i \in 1 .. Slots : t = <<m, i>>
  BY DEF Types
<1>2. \A m \in Modules, i \in 1 .. Slots : <<m, i>> \in Types
  BY DEF Types
<1>3. \A t \in Types : t \notin Modules \cup {Absent, Capsule, Datetimes}
  BY <1>1, TypeCacheAssumption
<1> QED BY <1>1, <1>2, <1>3, TypeCacheAssumption DEF Owned

LEMMA PointersNat ==
  ASSUME NEW o
  PROVE  /\ Places(np, 1 .. Slots, o) \in Nat /\ Places(Mods, Calls, o) \in Nat
         /\ Equals(npModule, o) \in Nat /\ OfDatetime(o) \in Nat
         /\ Pointers(o) \in Nat
<1>1. /\ Places(np, 1 .. Slots, o) \in Nat /\ Places(Mods, Calls, o) \in Nat
      /\ Equals(npModule, o) \in Nat /\ OfDatetime(o) \in Nat
  BY HeldNat, Finite DEF Equals, OfDatetime
<1>2. Pointers(o) \in Nat
  BY <1>1, PointersAre
<1> QED BY <1>1, <1>2

PointersCount ==
  \A o : /\ Pointers(o) \in Nat
         /\ Places(np, 1 .. Slots, o) \in Nat /\ Places(Mods, Calls, o) \in Nat
         /\ Equals(npModule, o) \in Nat /\ OfDatetime(o) \in Nat
         /\ Pointers(o) = Places(np, 1 .. Slots, o) + Places(Mods, Calls, o) + Equals(npModule, o)
                            + OfDatetime(o)

LEMMA PointersAreCounts == PointersCount
BY PointersNat, PointersAre DEF PointersCount

LEMMA PrimedCounts == PointersCount'
BY PointersAreCounts, PTL

LEMMA Sums ==
  ASSUME NEW o
  PROVE  /\ Pointers(o) = Places(np, 1 .. Slots, o) + Places(Mods, Calls, o) + Equals(npModule, o)
                          + OfDatetime(o)
         /\ Pointers(o)' = Places(np', 1 .. Slots, o) + Places(Mods', Calls, o) + Equals(npModule', o)
                           + OfDatetime(o)'
         /\ Places(np, 1 .. Slots, o) \in Nat /\ Places(np', 1 .. Slots, o) \in Nat
         /\ Places(Mods, Calls, o) \in Nat /\ Places(Mods', Calls, o) \in Nat
         /\ Equals(npModule, o) \in Nat /\ Equals(npModule', o) \in Nat
         /\ OfDatetime(o) \in Nat /\ OfDatetime(o)' \in Nat
<1>1. PointersCount /\ PointersCount'
  BY PointersAreCounts, PrimedCounts
<1> QED BY <1>1 DEF PointersCount

(* Changes that move the counts with the pointers keep them right; after   *)
(* a nested lookup a count may also grow more than the pointers.           *)
LEMMA KeptAtLeast ==
  ASSUME Inv, nested => nested',
         \A o \in Owned : /\ refs'[o] \in Int /\ refs'[o] + Pointers(o) >= refs[o] + Pointers(o)'
                          /\ ~nested => refs'[o] + Pointers(o) = refs[o] + Pointers(o)'
  PROVE  CountInv' /\ \A o \in Owned : refs'[o] \in Nat
<1> SUFFICES ASSUME NEW o \in Owned
             PROVE  /\ refs'[o] >= Pointers(o)' /\ (~nested' => refs'[o] = Pointers(o)')
                    /\ refs'[o] \in Nat
  BY DEF CountInv
<1>1. Pointers(o) \in Nat /\ refs[o] \in Nat
  BY PointersNat DEF Inv, TypeOK
<1>2. Pointers(o)' \in Nat
  BY PrimedCounts DEF PointersCount
<1>3. refs[o] >= Pointers(o) /\ (~nested => refs[o] = Pointers(o))
  BY DEF Inv, CountInv
<1>4. /\ refs'[o] \in Int /\ refs'[o] + Pointers(o) >= refs[o] + Pointers(o)'
      /\ ~nested => refs'[o] + Pointers(o) = refs[o] + Pointers(o)'
  OBVIOUS
<1> DEFINE p == Pointers(o)
           q == Pointers(o)'
<1>5. /\ refs'[o] \in Int /\ p \in Nat /\ q \in Nat /\ refs[o] \in Nat /\ refs[o] >= p
      /\ refs'[o] + p >= refs[o] + q
      /\ ~nested => refs[o] = p /\ refs'[o] + p = refs[o] + q
  BY <1>1, <1>2, <1>3, <1>4
<1> HIDE DEF p, q
<1>6. refs'[o] >= q /\ refs'[o] \in Nat /\ (~nested => refs'[o] = q)
  BY ONLY <1>5
<1> QED BY <1>6 DEF p, q

LEMMA KeptCounts ==
  ASSUME Inv, nested => nested',
         \A o \in Owned : refs'[o] \in Int /\ refs'[o] + Pointers(o) = refs[o] + Pointers(o)'
  PROVE  CountInv' /\ \A o \in Owned : refs'[o] \in Nat
<1>1. ASSUME NEW o \in Owned
      PROVE  /\ refs'[o] \in Int /\ refs'[o] + Pointers(o) >= refs[o] + Pointers(o)'
             /\ ~nested => refs'[o] + Pointers(o) = refs[o] + Pointers(o)'
  <2>1. Pointers(o) \in Nat /\ Pointers(o)' \in Nat /\ refs[o] \in Nat
    BY PointersAreCounts, PrimedCounts DEF PointersCount, Inv, TypeOK
  <2> QED BY <2>1
<1> QED BY <1>1, KeptAtLeast

(* A step of call c, which goes on at g.                                   *)
LEMMA CallStep ==
  ASSUME Inv, NEW c \in Calls, call[c].pc # "idle", NEW g \in Lookup,
         call' = [call EXCEPT ![c] = g], nested' = nested,
         StageOf(g) # "python", StageOf(g) = "idle" <=> g.module = Absent
  PROVE  /\ call' \in [Calls -> Lookup] /\ LookupInv'
         /\ ~nested => AloneFor(call[c])
         /\ (~nested => AloneFor(g)') => AloneInv'
<1>1. /\ call' \in [Calls -> Lookup] /\ call'[c] = g
      /\ \A d \in Calls : d # c => call'[d] = call[d]
  BY DEF Inv, TypeOK
<1>2. LookupInv'
  <2> SUFFICES ASSUME NEW d \in Calls
               PROVE  /\ StageOf(call'[d]) # "python"
                      /\ StageOf(call'[d]) = "idle" <=> call'[d].module = Absent
    BY DEF LookupInv
  <2>1. CASE d = c
    BY <1>1, <2>1
  <2>2. CASE d # c
    BY <1>1, <2>2 DEF Inv, LookupInv
  <2> QED BY <2>1, <2>2
<1>3. ~nested => AloneFor(call[c])
  BY DEF Inv, AloneInv
<1>4. ASSUME ~nested => AloneFor(g)'
      PROVE  AloneInv'
  <2> SUFFICES ASSUME ~nested
               PROVE  /\ \A k, d \in Calls : call'[k].pc # "idle" /\ call'[d].pc # "idle" => k = d
                      /\ \A k \in Calls : call'[k].pc # "idle" => AloneFor(call[k])'
                      /\ Quiet' => Whole'
    BY DEF AloneInv
  <2>1. AloneFor(g)'
    BY <1>4
  <2>2. \A d \in Calls : d # c => call'[d].pc = "idle"
    BY <1>1 DEF Inv, AloneInv
  <2>3. \A k \in Calls : call'[k].pc # "idle" => AloneFor(call[k])'
    <3> SUFFICES ASSUME NEW k \in Calls, call'[k].pc # "idle" PROVE AloneFor(call[k])'
      OBVIOUS
    <3>1. k = c
      BY <2>2
    <3> QED BY <1>1, <2>1, <3>1 DEF AloneFor
  <2>4. Quiet' => Whole'
    <3> SUFFICES ASSUME Quiet' PROVE Whole'
      OBVIOUS
    <3>1. g.pc = "idle"
      BY <1>1 DEF Quiet
    <3> QED BY <2>1, <3>1 DEF AloneFor, StageOf
  <2> QED BY <2>2, <2>3, <2>4
<1> QED BY <1>1, <1>2, <1>3, <1>4

(* What the lookups own of o when call c goes on at g.                     *)
LEMMA CallPointers ==
  ASSUME Inv, NEW c \in Calls, NEW g, call' = [call EXCEPT ![c] = g], NEW o
  PROVE  /\ Places(Mods', Calls, o) + Equals(call[c].module, o) = Places(Mods, Calls, o) + Equals(g.module, o)
         /\ g.module = call[c].module => Places(Mods', Calls, o) = Places(Mods, Calls, o)
<1>1. \A d \in Calls : call'[d] = IF d = c THEN g ELSE call[d]
  BY DEF Inv, TypeOK
<1>2. /\ \A d \in Calls : d # c => Mods'[d] = Mods[d]
      /\ Mods'[c] = g.module /\ Mods[c] = call[c].module
  BY <1>1 DEF Mods
<1> DEFINE f == Mods
           h == Mods'
<1>3. Places(h, Calls, o) + Equals(f[c], o) = Places(f, Calls, o) + Equals(h[c], o)
  <2>1. OnlyAt(f, h, Calls, c)
    BY <1>2 DEF OnlyAt
  <2> HIDE DEF f, h
  <2> QED BY ONLY <2>1, Finite, HeldChanges, c \in Calls
<1>4. g.module = call[c].module => \A d \in Calls : Mods'[d] = Mods[d]
  BY <1>2
<1>5. (\A d \in Calls : Mods'[d] = Mods[d]) => {d \in Calls : Mods'[d] = o} = {d \in Calls : Mods[d] = o}
  OBVIOUS
<1> QED BY <1>2, <1>3, <1>4, <1>5 DEF Places

GoesOn(c, g, f) ==
  /\ call' = [call EXCEPT ![c] = g]
  /\ g.module = f.module /\ g.slot = f.slot /\ g.ty = f.ty /\ StageOf(g) = f.pc

LEMMA DecrefStep ==
  ASSUME NEW c, NEW o, NEW f \in Lookup, f.pc # "python", Decref(c, o, f), freed \subseteq Modules
  PROVE  /\ refs' = [refs EXCEPT ![o] = @ - 1] /\ freed' \subseteq Modules
         /\ \E g \in Lookup : GoesOn(c, g, f)
<1>1. refs' = [refs EXCEPT ![o] = @ - 1] /\ freed' \subseteq Modules
  BY DEF Decref
<1>2. CASE call' = [call EXCEPT ![c] = f]
  <2>1. GoesOn(c, f, f)
    BY <1>2 DEF StageOf, GoesOn
  <2> QED BY <1>1, <2>1
<1>3. CASE call' = [call EXCEPT ![c] = [f EXCEPT !.pc = "python", !.after = f.pc]]
  <2> DEFINE g == [f EXCEPT !.pc = "python", !.after = f.pc]
  <2>1. /\ g \in Lookup /\ g.module = f.module /\ g.slot = f.slot /\ g.ty = f.ty
        /\ g.pc = "python" /\ g.after = f.pc
    BY DEF Lookup, PCs
  <2>2. call' = [call EXCEPT ![c] = g] /\ StageOf(g) = f.pc
    BY <1>3, <2>1 DEF StageOf
  <2> HIDE DEF g
  <2>3. GoesOn(c, g, f)
    BY <2>1, <2>2 DEF GoesOn
  <2> QED BY <1>1, <2>1, <2>3
<1>4. \/ call' = [call EXCEPT ![c] = f]
      \/ call' = [call EXCEPT ![c] = [f EXCEPT !.pc = "python", !.after = f.pc]]
  BY DEF Decref
<1> QED BY <1>2, <1>3, <1>4

LEMMA GoesOnKeeps ==
  ASSUME Inv, NEW c \in Calls, call[c].pc # "idle", NEW f \in Lookup, NEW g \in Lookup,
         GoesOn(c, g, f), nested' = nested,
         f.pc # "python", f.pc = "idle" <=> f.module = Absent
  PROVE  /\ call' \in [Calls -> Lookup] /\ LookupInv'
         /\ ~nested => AloneFor(call[c])
         /\ (~nested => AloneFor(f)') => AloneInv'
         /\ \A o : Places(Mods', Calls, o) + Equals(call[c].module, o)
                     = Places(Mods, Calls, o) + Equals(f.module, o)
<1>1. /\ call' = [call EXCEPT ![c] = g] /\ g.module = f.module /\ g.slot = f.slot
      /\ StageOf(g) = f.pc /\ StageOf(f) = f.pc
  BY DEF GoesOn, StageOf
<1>2. AloneFor(f)' => AloneFor(g)'
  <2>1. StageOf(g)' = StageOf(f)' /\ g.slot = f.slot
    BY <1>1 DEF StageOf
  <2> QED BY <2>1 DEF AloneFor, StageOf
<1>3. /\ call' \in [Calls -> Lookup] /\ LookupInv'
      /\ ~nested => AloneFor(call[c])
      /\ (~nested => AloneFor(g)') => AloneInv'
  BY <1>1, CallStep
<1>4. ASSUME NEW o
      PROVE  Places(Mods', Calls, o) + Equals(call[c].module, o)
               = Places(Mods, Calls, o) + Equals(f.module, o)
  <2>1. Places(Mods', Calls, o) + Equals(call[c].module, o) = Places(Mods, Calls, o) + Equals(g.module, o)
    BY <1>1, CallPointers
  <2> QED BY <1>1, <2>1
<1> QED BY <1>2, <1>3, <1>4

(* Giving up a reference: the count goes down with the pointer.            *)
LEMMA Gives ==
  ASSUME Inv, NEW p \in Owned, refs' = [refs EXCEPT ![p] = @ - 1]
  PROVE  refs' \in [Owned -> Int] /\ \A o \in Owned : refs'[o] + Equals(p, o) = refs[o]
BY DEF Inv, TypeOK, Equals

(* release, of a pointer that may be null.                                 *)
Release(c, p, f) ==
  IF p = Absent THEN call' = [call EXCEPT ![c] = f] /\ UNCHANGED <<refs, freed>> ELSE Decref(c, p, f)

LEMMA Releases ==
  ASSUME Inv, NEW c \in Calls, NEW p \in Owned \cup {Absent}, NEW f \in Lookup, f.pc # "python",
         Release(c, p, f)
  PROVE  /\ \E g \in Lookup : GoesOn(c, g, f)
         /\ freed' \subseteq Modules
         /\ refs' \in [Owned -> Int] /\ \A o \in Owned : refs'[o] + Equals(p, o) = refs[o]
<1>0. freed \subseteq Modules /\ refs \in [Owned -> Nat]
  BY DEF Inv, TypeOK
<1>1. CASE p = Absent
  <2>1. GoesOn(c, f, f) /\ freed' = freed /\ refs' = refs
    BY <1>1 DEF GoesOn, StageOf, Release
  <2>2. \A o \in Owned : Equals(p, o) = 0
    BY <1>1, Kinds DEF Equals
  <2> QED BY <1>0, <2>1, <2>2
<1>2. CASE p # Absent
  <2>1. p \in Owned /\ Decref(c, p, f)
    BY <1>2 DEF Release
  <2>2. /\ refs' = [refs EXCEPT ![p] = @ - 1] /\ freed' \subseteq Modules
        /\ \E g \in Lookup : GoesOn(c, g, f)
    BY <1>0, <2>1, DecrefStep
  <2> QED BY <2>1, <2>2, Gives
<1> QED BY <1>1, <1>2

LEMMA ClearModuleKeeps ==
  ASSUME Inv, NEW c \in Calls, ClearModule(c)
  PROVE  Inv'
<1>0. PICK f : f = [call[c] EXCEPT !.pc = "types", !.slot = 1]
  OBVIOUS
<1>1. /\ call[c] \in Lookup /\ call[c].pc = "clear" /\ npModule' = Absent
      /\ UNCHANGED <<sys, names, capsule, changes, interned, np, dt, nested>>
      /\ Release(c, npModule, f)
  BY <1>0 DEF Inv, TypeOK, ClearModule, Release
<1>2. f \in Lookup /\ f.pc = "types" /\ f.module = call[c].module /\ f.slot = 1 /\ f.module # Absent
  <2>1. call[c].module # Absent
    BY <1>1 DEF Inv, LookupInv, StageOf
  <2>2. 1 \in 1 .. Slots + 1
    BY Finite
  <2> QED BY ONLY <1>0, <1>1, <2>1, <2>2 DEF Lookup, PCs
<1>3. /\ \E g \in Lookup : GoesOn(c, g, f)
      /\ freed' \subseteq Modules
      /\ refs' \in [Owned -> Int] /\ \A o \in Owned : refs'[o] + Equals(npModule, o) = refs[o]
  <2>1. npModule \in Owned \cup {Absent}
    BY Kinds DEF Inv, TypeOK
  <2> QED BY <1>1, <1>2, <2>1, Releases
<1>4. PICK g \in Lookup : GoesOn(c, g, f)
  BY <1>3
<1>5. /\ call' \in [Calls -> Lookup] /\ LookupInv'
      /\ (~nested => AloneFor(f)') => AloneInv'
      /\ \A o : Places(Mods', Calls, o) + Equals(call[c].module, o)
                  = Places(Mods, Calls, o) + Equals(f.module, o)
  BY <1>1, <1>2, <1>4, GoesOnKeeps
<1>6. AloneFor(f)'
  <2>1. StageOf(f)' = "types" /\ npModule' = Absent /\ \A i \in 1 .. Slots : ~(i < f.slot)
    BY <1>1, <1>2, Finite DEF StageOf
  <2> QED BY <2>1 DEF AloneFor
<1>7. CountInv' /\ \A o \in Owned : refs'[o] \in Nat
  <2> SUFFICES ASSUME NEW o \in Owned
               PROVE  refs'[o] \in Int /\ refs'[o] + Pointers(o) = refs[o] + Pointers(o)'
    BY <1>1, KeptCounts
  <2>1. Places(Mods', Calls, o) = Places(Mods, Calls, o)
    <3>1. Places(Mods', Calls, o) + Equals(f.module, o) = Places(Mods, Calls, o) + Equals(f.module, o)
      BY <1>2, <1>5
    <3> QED BY <3>1, Sums DEF Equals
  <2>2. Places(np', 1 .. Slots, o) = Places(np, 1 .. Slots, o) /\ OfDatetime(o)' = OfDatetime(o)
    BY <1>1 DEF OfDatetime
  <2>3. Equals(npModule', o) = 0
    BY <1>1, Kinds DEF Equals
  <2>4. refs[o] \in Nat /\ refs'[o] \in Int /\ refs'[o] + Equals(npModule, o) = refs[o]
    BY <1>3 DEF Inv, TypeOK
  <2>5. Pointers(o)' + Equals(npModule, o) = Pointers(o) /\ Equals(npModule, o) \in Nat
    BY <2>1, <2>2, <2>3, Sums
  <2>6. Pointers(o) \in Nat /\ Pointers(o)' \in Nat
    BY PointersAreCounts, PrimedCounts DEF PointersCount
  <2> QED BY <2>4, <2>5, <2>6
<1>8. TypeOK'
  BY <1>1, <1>3, <1>5, <1>7 DEF Inv, TypeOK
<1>9. Shape'
  BY <1>1 DEF Inv, Shape
<1> QED BY <1>5, <1>6, <1>7, <1>8, <1>9 DEF Inv

LEMMA ClearTypeKeeps ==
  ASSUME Inv, NEW c \in Calls, ClearType(c)
  PROVE  Inv'
<1>1. PICK i : i = call[c].slot
  OBVIOUS
<1>2. PICK f : f = [call[c] EXCEPT !.slot = i + 1]
  OBVIOUS
<1>3. /\ call[c] \in Lookup /\ call[c].pc = "types" /\ i \in 1 .. Slots
      /\ np' = [np EXCEPT ![i] = Absent]
      /\ UNCHANGED <<sys, names, capsule, changes, interned, npModule, dt, nested>>
      /\ Release(c, np[i], f)
  <2>1. call[c] \in Lookup /\ call[c].pc = "types" /\ i <= Slots
    BY <1>1 DEF Inv, TypeOK, ClearType
  <2>2. i \in 1 .. Slots + 1
    BY <1>1, <2>1 DEF Lookup
  <2> QED BY <1>1, <1>2, <2>1, <2>2, Finite DEF ClearType, Release
<1>4. f \in Lookup /\ f.pc = "types" /\ f.module = call[c].module /\ f.slot = i + 1 /\ f.module # Absent
  <2>1. call[c].module # Absent
    BY <1>3 DEF Inv, LookupInv, StageOf
  <2>2. i + 1 \in 1 .. Slots + 1
    BY <1>3, Finite
  <2> QED BY ONLY <1>2, <1>3, <2>1, <2>2 DEF Lookup, PCs
<1>5. /\ \E g \in Lookup : GoesOn(c, g, f)
      /\ freed' \subseteq Modules
      /\ refs' \in [Owned -> Int] /\ \A o \in Owned : refs'[o] + Equals(np[i], o) = refs[o]
  <2>1. np[i] \in Owned \cup {Absent}
    BY <1>3, Kinds DEF Inv, TypeOK
  <2> QED BY <1>3, <1>4, <2>1, Releases
<1>6. PICK g \in Lookup : GoesOn(c, g, f)
  BY <1>5
<1>7. /\ call' \in [Calls -> Lookup] /\ LookupInv'
      /\ ~nested => AloneFor(call[c])
      /\ (~nested => AloneFor(f)') => AloneInv'
      /\ \A o : Places(Mods', Calls, o) + Equals(call[c].module, o)
                  = Places(Mods, Calls, o) + Equals(f.module, o)
  BY <1>3, <1>4, <1>6, GoesOnKeeps
<1>8. /\ np' \in [1 .. Slots -> Types \cup {Absent}] /\ np'[i] = Absent
      /\ \A j \in 1 .. Slots : j # i => np'[j] = np[j]
  BY <1>3 DEF Inv, TypeOK
<1>9. ~nested => AloneFor(f)'
  <2> SUFFICES ASSUME ~nested PROVE AloneFor(f)'
    OBVIOUS
  <2>1. npModule = Absent /\ \A j \in 1 .. Slots : j < i => np[j] = Absent
    BY <1>1, <1>3, <1>7 DEF AloneFor, StageOf
  <2>2. \A j \in 1 .. Slots : j < i + 1 => np'[j] = Absent
    <3> SUFFICES ASSUME NEW j \in 1 .. Slots, j < i + 1 PROVE np'[j] = Absent
      OBVIOUS
    <3>1. j = i \/ j < i
      BY <1>3, Finite
    <3> QED BY <1>8, <2>1, <3>1
  <2> QED BY <1>3, <1>4, <2>1, <2>2 DEF AloneFor, StageOf
<1>10. CountInv' /\ \A o \in Owned : refs'[o] \in Nat
  <2> SUFFICES ASSUME NEW o \in Owned
               PROVE  refs'[o] \in Int /\ refs'[o] + Pointers(o) = refs[o] + Pointers(o)'
    BY <1>3, KeptCounts
  <2>1. Places(Mods', Calls, o) = Places(Mods, Calls, o)
    <3>1. Places(Mods', Calls, o) + Equals(f.module, o) = Places(Mods, Calls, o) + Equals(f.module, o)
      BY <1>4, <1>7
    <3> QED BY <3>1, Sums DEF Equals
  <2>2. Equals(npModule', o) = Equals(npModule, o) /\ OfDatetime(o)' = OfDatetime(o)
    BY <1>3 DEF OfDatetime
  <2>3. Places(np', 1 .. Slots, o) + Equals(np[i], o) = Places(np, 1 .. Slots, o)
    <3>1. OnlyAt(np, np', 1 .. Slots, i)
      BY <1>8 DEF OnlyAt
    <3>2. Places(np', 1 .. Slots, o) + Equals(np[i], o) = Places(np, 1 .. Slots, o) + Equals(np'[i], o)
      <4> DEFINE D == 1 .. Slots
                 h == np'
      <4>1. IsFiniteSet(D) /\ i \in D /\ OnlyAt(np, h, D, i)
        BY <1>3, <3>1, Finite
      <4> HIDE DEF D, h
      <4>2. Places(h, D, o) + Equals(np[i], o) = Places(np, D, o) + Equals(h[i], o)
        BY ONLY <4>1, HeldChanges
      <4> QED BY <4>2 DEF D, h
    <3>3. Equals(np'[i], o) = 0
      BY <1>8, Kinds DEF Equals
    <3> QED BY <3>2, <3>3, Sums
  <2>4. refs[o] \in Nat /\ refs'[o] \in Int /\ refs'[o] + Equals(np[i], o) = refs[o]
    BY <1>5 DEF Inv, TypeOK
  <2>5. Pointers(o)' + Equals(np[i], o) = Pointers(o) /\ Equals(np[i], o) \in Nat
    <3>1. Equals(np[i], o) \in Nat
      BY DEF Equals
    <3> QED BY <2>1, <2>2, <2>3, <3>1, Sums
  <2>6. Pointers(o) \in Nat /\ Pointers(o)' \in Nat
    BY PointersAreCounts, PrimedCounts DEF PointersCount
  <2> QED BY <2>4, <2>5, <2>6
<1>11. TypeOK'
  BY <1>3, <1>5, <1>7, <1>8, <1>10 DEF Inv, TypeOK
<1>12. Shape'
  BY <1>8 DEF Inv, Shape
<1> QED BY <1>7, <1>9, <1>10, <1>11, <1>12 DEF Inv

(* A step of one lookup that changes nothing else.                         *)
LEMMA OnlyTheCall ==
  ASSUME Inv, NEW c \in Calls, call[c].pc # "idle", NEW g \in Lookup,
         call' = [call EXCEPT ![c] = g], UNCHANGED <<pyVars, cache, refs, nested>>,
         StageOf(g) # "python", StageOf(g) = "idle" <=> StageOf(call[c]) = "idle",
         g.module = call[c].module,
         ~nested /\ AloneFor(call[c]) => AloneFor(g)
  PROVE  Inv'
<1>1. /\ sys' = sys /\ names' = names /\ capsule' = capsule /\ freed' = freed /\ changes' = changes
      /\ interned' = interned /\ npModule' = npModule /\ np' = np /\ dt' = dt
      /\ refs' = refs /\ nested' = nested
  BY DEF pyVars, cache
<1>2. StageOf(g) = "idle" <=> g.module = Absent
  BY DEF Inv, LookupInv
<1>3. /\ call' \in [Calls -> Lookup] /\ LookupInv'
      /\ ~nested => AloneFor(call[c])
      /\ (~nested => AloneFor(g)') => AloneInv'
  BY <1>1, <1>2, CallStep
<1>4. AloneFor(g) => AloneFor(g)'
  BY <1>1 DEF AloneFor, Whole, StageOf
<1>5. CountInv'
  <2> SUFFICES ASSUME NEW o \in Owned
               PROVE  refs'[o] \in Int /\ refs'[o] + Pointers(o) = refs[o] + Pointers(o)'
    BY <1>1, KeptCounts
  <2>1. Places(Mods', Calls, o) = Places(Mods, Calls, o)
    BY CallPointers
  <2>2. OfDatetime(o)' = OfDatetime(o)
    BY <1>1 DEF OfDatetime
  <2>3. Pointers(o)' = Pointers(o)
    BY <1>1, <2>1, <2>2, Sums
  <2>4. refs[o] \in Nat
    BY DEF Inv, TypeOK
  <2> QED BY <1>1, <2>3, <2>4
<1>6. TypeOK' /\ Shape'
  BY <1>1, <1>3 DEF Inv, TypeOK, Shape
<1> QED BY <1>3, <1>4, <1>5, <1>6 DEF Inv

LEMMA ClearDoneKeeps ==
  ASSUME Inv, NEW c \in Calls, ClearDone(c)
  PROVE  Inv'
<1>1. PICK g : g = [call[c] EXCEPT !.pc = "read"]
  OBVIOUS
<1>2. /\ call[c] \in Lookup /\ call[c].pc = "types" /\ call[c].slot > Slots
      /\ call' = [call EXCEPT ![c] = g] /\ UNCHANGED <<pyVars, cache, refs, nested>>
  BY <1>1 DEF Inv, TypeOK, ClearDone
<1>3. g \in Lookup /\ g.pc = "read" /\ g.module = call[c].module
  BY ONLY <1>1, <1>2 DEF Lookup, PCs
<1>4. ASSUME ~nested, AloneFor(call[c])
      PROVE  AloneFor(g)
  <2>1. npModule = Absent /\ \A i \in 1 .. Slots : i < call[c].slot => np[i] = Absent
    BY <1>2, <1>4 DEF AloneFor, StageOf
  <2>2. call[c].slot \in Nat
    BY <1>2, Finite DEF Lookup
  <2>3. \A i \in 1 .. Slots : np[i] = Absent
    BY <1>2, <2>1, <2>2, Finite
  <2>4. np = EmptyGroup
    BY <2>3 DEF Inv, TypeOK, EmptyGroup
  <2> QED BY <1>3, <2>1, <2>4 DEF AloneFor, StageOf
<1> QED BY <1>2, <1>3, <1>4, OnlyTheCall DEF StageOf

LEMMA ReadFailsKeeps ==
  ASSUME Inv, NEW c \in Calls, ReadFails(c)
  PROVE  Inv'
<1>1. PICK g : g = [call[c] EXCEPT !.pc = "drop"]
  OBVIOUS
<1>2. /\ call[c] \in Lookup /\ call[c].pc = "read"
      /\ call' = [call EXCEPT ![c] = g] /\ UNCHANGED <<pyVars, cache, refs, nested>>
  BY <1>1 DEF Inv, TypeOK, ReadFails
<1>3. g \in Lookup /\ g.pc = "drop" /\ g.module = call[c].module
  BY ONLY <1>1, <1>2 DEF Lookup, PCs
<1>4. AloneFor(call[c]) => AloneFor(g)
  BY <1>2, <1>3 DEF AloneFor, StageOf
<1> QED BY <1>2, <1>3, <1>4, OnlyTheCall DEF StageOf

LEMMA FinalizerReturnsKeeps ==
  ASSUME Inv, NEW c \in Calls, FinalizerReturns(c)
  PROVE  Inv'
<1>1. PICK g : g = [call[c] EXCEPT !.pc = call[c].after]
  OBVIOUS
<1>2. /\ call[c] \in Lookup /\ call[c].pc = "python"
      /\ call' = [call EXCEPT ![c] = g] /\ UNCHANGED <<pyVars, cache, refs, nested>>
  BY <1>1 DEF Inv, TypeOK, FinalizerReturns
<1>3. g \in Lookup /\ g.pc = call[c].after /\ g.module = call[c].module /\ g.slot = call[c].slot
  BY ONLY <1>1, <1>2 DEF Lookup, PCs
<1>4. StageOf(call[c]) = call[c].after /\ call[c].after # "python"
  BY <1>2 DEF Inv, LookupInv, StageOf
<1>5. StageOf(g) = StageOf(call[c])
  BY <1>3, <1>4 DEF StageOf
<1>6. AloneFor(call[c]) => AloneFor(g)
  BY <1>3, <1>5 DEF AloneFor
<1> QED BY <1>2, <1>3, <1>4, <1>5, <1>6, OnlyTheCall

LEMMA IdleIs ==
  /\ Idle \in Lookup /\ Idle.pc = "idle" /\ Idle.after = "idle" /\ Idle.module = Absent
  /\ Idle.slot = 1 /\ Idle.ty = Absent
<1>1. 1 \in 1 .. Slots + 1
  BY Finite
<1> QED BY <1>1 DEF Idle, Lookup, PCs

LEMMA DropModuleKeeps ==
  ASSUME Inv, NEW c \in Calls, DropModule(c)
  PROVE  Inv'
<1>1. PICK m : m = call[c].module
  OBVIOUS
<1>2. /\ call[c] \in Lookup /\ call[c].pc = "drop" /\ Decref(c, m, Idle)
      /\ UNCHANGED <<sys, names, capsule, changes, interned, npModule, np, dt, nested>>
  BY <1>1 DEF Inv, TypeOK, DropModule, cache
<1>3. m \in Modules /\ m \in Owned
  <2>1. m # Absent
    BY <1>1, <1>2 DEF Inv, LookupInv, StageOf
  <2> QED BY <1>1, <1>2, <2>1, Kinds DEF Lookup
<1>4. /\ \E g \in Lookup : GoesOn(c, g, Idle)
      /\ freed' \subseteq Modules
      /\ refs' \in [Owned -> Int] /\ \A o \in Owned : refs'[o] + Equals(m, o) = refs[o]
  BY <1>2, <1>3, IdleIs, Kinds, Releases DEF Release
<1>5. PICK g \in Lookup : GoesOn(c, g, Idle)
  BY <1>4
<1>6. /\ call' \in [Calls -> Lookup] /\ LookupInv'
      /\ ~nested => AloneFor(call[c])
      /\ (~nested => AloneFor(Idle)') => AloneInv'
      /\ \A o : Places(Mods', Calls, o) + Equals(call[c].module, o)
                  = Places(Mods, Calls, o) + Equals(Idle.module, o)
  BY <1>2, <1>5, IdleIs, GoesOnKeeps
<1>7. ~nested => AloneFor(Idle)'
  <2> SUFFICES ASSUME ~nested PROVE AloneFor(Idle)'
    OBVIOUS
  <2>1. npModule = Absent /\ np = EmptyGroup
    BY <1>2, <1>6 DEF AloneFor, StageOf
  <2>2. Whole' /\ StageOf(Idle) = "idle"
    BY <1>2, <2>1, IdleIs DEF Whole, StageOf
  <2>3. StageOf(Idle)' = "idle"
    BY <2>2 DEF StageOf, Idle
  <2> QED BY <2>2, <2>3 DEF AloneFor
<1>8. CountInv' /\ \A o \in Owned : refs'[o] \in Nat
  <2> SUFFICES ASSUME NEW o \in Owned
               PROVE  refs'[o] \in Int /\ refs'[o] + Pointers(o) = refs[o] + Pointers(o)'
    BY <1>2, KeptCounts
  <2>1. Places(Mods', Calls, o) + Equals(m, o) = Places(Mods, Calls, o) + Equals(Absent, o)
    BY <1>1, <1>6, IdleIs
  <2>2. Equals(Absent, o) = 0 /\ Equals(m, o) \in Nat
    BY Kinds DEF Equals
  <2>3. Places(np', 1 .. Slots, o) = Places(np, 1 .. Slots, o) /\ OfDatetime(o)' = OfDatetime(o)
        /\ Equals(npModule', o) = Equals(npModule, o)
    BY <1>2 DEF OfDatetime
  <2>4. refs[o] \in Nat /\ refs'[o] \in Int /\ refs'[o] + Equals(m, o) = refs[o]
    BY <1>4 DEF Inv, TypeOK
  <2>5. Pointers(o)' + Equals(m, o) = Pointers(o)
    BY <2>1, <2>2, <2>3, Sums
  <2>6. Pointers(o) \in Nat /\ Pointers(o)' \in Nat
    BY PointersAreCounts, PrimedCounts DEF PointersCount
  <2> QED BY <2>2, <2>4, <2>5, <2>6
<1>9. TypeOK' /\ Shape'
  BY <1>2, <1>4, <1>6, <1>8 DEF Inv, TypeOK, Shape
<1> QED BY <1>6, <1>7, <1>8, <1>9 DEF Inv

(* A group of the right shape points to a type once at most.               *)
LEMMA HeldOnce ==
  ASSUME NEW f, \A i \in 1 .. Slots : f[i] = Absent \/ \E m \in Modules : f[i] = <<m, i>>,
         NEW o \in Owned
  PROVE  /\ (\E i \in 1 .. Slots : f[i] = o) => Places(f, 1 .. Slots, o) = 1
         /\ (\A i \in 1 .. Slots : f[i] # o) => Places(f, 1 .. Slots, o) = 0
<1>1. ASSUME NEW i \in 1 .. Slots, f[i] = o
      PROVE  Places(f, 1 .. Slots, o) = 1
  <2>1. \A j \in 1 .. Slots : f[j] = o => j = i
    <3> SUFFICES ASSUME NEW j \in 1 .. Slots, f[j] = o PROVE j = i
      OBVIOUS
    <3>1. PICK m \in Modules : o = <<m, i>>
      BY <1>1, Kinds
    <3>2. PICK n \in Modules : o = <<n, j>>
      BY Kinds
    <3> QED BY <3>1, <3>2
  <2>2. {j \in 1 .. Slots : f[j] = o} = {i}
    BY <1>1, <2>1
  <2> QED BY <2>2, FS_Singleton DEF Places
<1>2. ASSUME \A i \in 1 .. Slots : f[i] # o
      PROVE  Places(f, 1 .. Slots, o) = 0
  BY <1>2, Finite, HeldNat
<1> QED BY <1>1, <1>2

LEMMA ReadGroupKeeps ==
  ASSUME Inv, NEW c \in Calls, ReadGroup(c)
  PROVE  Inv'
<1>1. PICK m : m = call[c].module
  OBVIOUS
<1>2. /\ call[c] \in Lookup /\ call[c].pc = "read"
      /\ np' = Group(m) /\ npModule' = m
      /\ refs' = [o \in Owned |-> IF o \in Types /\ o[1] = m THEN refs[o] + 1 ELSE refs[o]]
      /\ call' = [call EXCEPT ![c] = Idle]
      /\ UNCHANGED <<sys, names, capsule, freed, changes, interned, dt, nested>>
  BY <1>1 DEF Inv, TypeOK, ReadGroup, pyVars
<1>3. m \in Modules /\ m # Absent
  <2>1. m # Absent
    BY <1>1, <1>2 DEF Inv, LookupInv, StageOf
  <2> QED BY <1>1, <1>2, <2>1 DEF Lookup
<1>4. /\ call' \in [Calls -> Lookup] /\ LookupInv'
      /\ ~nested => AloneFor(call[c])
      /\ (~nested => AloneFor(Idle)') => AloneInv'
      /\ \A o : Places(Mods', Calls, o) + Equals(call[c].module, o)
                  = Places(Mods, Calls, o) + Equals(Idle.module, o)
  <2>1. GoesOn(c, Idle, Idle)
    BY <1>2, IdleIs DEF GoesOn, StageOf
  <2> QED BY <1>2, <2>1, IdleIs, GoesOnKeeps
<1>5. AloneFor(Idle)'
  <2>1. Whole'
    BY <1>2, <1>3 DEF Whole
  <2>2. StageOf(Idle)' = "idle"
    BY DEF StageOf, Idle
  <2> QED BY <2>1, <2>2 DEF AloneFor
<1>6. \A i \in 1 .. Slots : np'[i] = <<m, i>>
  BY <1>2 DEF Group
<1>7. Shape'
  BY <1>3, <1>6 DEF Shape
<1>8. CountInv' /\ \A o \in Owned : refs'[o] \in Nat
  <2> SUFFICES ASSUME NEW o \in Owned
               PROVE  /\ refs'[o] \in Int /\ refs'[o] + Pointers(o) >= refs[o] + Pointers(o)'
                      /\ ~nested => refs'[o] + Pointers(o) = refs[o] + Pointers(o)'
    BY <1>2, KeptAtLeast
  <2> DEFINE new == Places(np', 1 .. Slots, o)
             old == Places(np, 1 .. Slots, o)
  <2>1. refs[o] \in Nat /\ refs'[o] = refs[o] + new
    <3>1. refs[o] \in Nat
      BY DEF Inv, TypeOK
    <3>2. CASE o \in Types /\ o[1] = m
      <4>1. PICK n \in Modules, i \in 1 .. Slots : o = <<n, i>>
        BY <3>2, Kinds
      <4>2. np'[i] = o
        BY <1>6, <3>2, <4>1
      <4>3. new = 1
        BY <1>3, <1>6, <4>2, HeldOnce
      <4> QED BY <1>2, <3>1, <3>2, <4>3
    <3>3. CASE ~(o \in Types /\ o[1] = m)
      <4>1. \A i \in 1 .. Slots : np'[i] # o
        BY <1>3, <1>6, <3>3, Kinds
      <4>2. new = 0
        BY <1>3, <1>6, <4>1, HeldOnce
      <4> QED BY <1>2, <3>1, <3>3, <4>2
    <3> QED BY <3>2, <3>3
  <2>2. Places(Mods', Calls, o) + Equals(m, o) = Places(Mods, Calls, o) + Equals(Absent, o)
    BY <1>1, <1>4, IdleIs
  <2>3. Equals(Absent, o) = 0 /\ Equals(npModule', o) = Equals(m, o) /\ OfDatetime(o)' = OfDatetime(o)
    BY <1>2, Kinds DEF Equals, OfDatetime
  <2>4. ~nested => old = 0 /\ Equals(npModule, o) = 0
    <3> SUFFICES ASSUME ~nested PROVE old = 0 /\ Equals(npModule, o) = 0
      OBVIOUS
    <3>1. npModule = Absent /\ np = EmptyGroup
      BY <1>2, <1>4 DEF AloneFor, StageOf
    <3>2. \A i \in 1 .. Slots : np[i] # o
      BY <3>1, Kinds DEF EmptyGroup
    <3> QED BY <3>1, <3>2, Kinds, Finite, HeldNat DEF Equals
  <2>5. /\ Pointers(o)' = new + Places(Mods', Calls, o) + Equals(npModule', o) + OfDatetime(o)'
        /\ Pointers(o) = old + Places(Mods, Calls, o) + Equals(npModule, o) + OfDatetime(o)
        /\ new \in Nat /\ old \in Nat
        /\ Places(Mods, Calls, o) \in Nat /\ Places(Mods', Calls, o) \in Nat
        /\ Equals(npModule, o) \in Nat /\ Equals(npModule', o) \in Nat /\ OfDatetime(o) \in Nat
    BY Sums
  <2> HIDE DEF new, old
  <2>6. Pointers(o)' + old + Equals(npModule, o) = Pointers(o) + new
    BY <2>2, <2>3, <2>5
  <2>7. Pointers(o) \in Nat /\ Pointers(o)' \in Nat
    BY PointersAreCounts, PrimedCounts DEF PointersCount
  <2> QED BY <2>1, <2>4, <2>5, <2>6, <2>7
<1>9. TypeOK'
  <2>1. np' \in [1 .. Slots -> Types \cup {Absent}]
    BY <1>2, <1>3, Kinds DEF Group
  <2>2. refs' \in [Owned -> Nat]
    BY <1>2, <1>8
  <2> QED BY <1>2, <1>3, <1>4, <2>1, <2>2 DEF Inv, TypeOK
<1> QED BY <1>4, <1>5, <1>7, <1>8, <1>9 DEF Inv

LEMMA NumpyMissKeeps ==
  ASSUME Inv, NEW c \in Calls, NumpyMiss(c)
  PROVE  Inv'
<1>1. PICK ty \in Types :
        /\ call[c].pc = "idle" /\ sys # Absent
        /\ refs' = [refs EXCEPT ![sys] = @ + 1]
        /\ call' = [call EXCEPT ![c] = [Idle EXCEPT !.pc = "clear", !.ty = ty, !.module = sys]]
        /\ nested' = (nested \/ \E d \in Calls : call[d].pc # "idle")
        /\ UNCHANGED <<pyVars, cache>>
  BY DEF NumpyMiss, Begin, Incref
<1>2. PICK g : g = [Idle EXCEPT !.pc = "clear", !.ty = ty, !.module = sys]
  OBVIOUS
<1>3. sys \in Modules /\ sys \in Owned /\ call[c] \in Lookup
  BY <1>1, Kinds DEF Inv, TypeOK
<1>4. g \in Lookup /\ g.pc = "clear" /\ g.module = sys
  BY <1>2, <1>3, IdleIs DEF Lookup, PCs
<1>5. /\ call' \in [Calls -> Lookup] /\ call'[c] = g
      /\ \A d \in Calls : d # c => call'[d] = call[d]
  BY <1>1, <1>2, <1>4 DEF Inv, TypeOK
<1>6. /\ sys' = sys /\ names' = names /\ capsule' = capsule /\ freed' = freed /\ changes' = changes
      /\ interned' = interned /\ npModule' = npModule /\ np' = np /\ dt' = dt
  BY <1>1 DEF pyVars, cache
<1>7. LookupInv'
  <2> SUFFICES ASSUME NEW d \in Calls
               PROVE  /\ StageOf(call'[d]) # "python"
                      /\ StageOf(call'[d]) = "idle" <=> call'[d].module = Absent
    BY DEF LookupInv
  <2>1. CASE d = c
    BY <1>1, <1>4, <1>5, <2>1 DEF StageOf
  <2>2. CASE d # c
    BY <1>5, <2>2 DEF Inv, LookupInv
  <2> QED BY <2>1, <2>2
<1>8. AloneInv'
  <2> SUFFICES ASSUME ~nested'
               PROVE  /\ \A k, d \in Calls : call'[k].pc # "idle" /\ call'[d].pc # "idle" => k = d
                      /\ \A k \in Calls : call'[k].pc # "idle" => AloneFor(call[k])'
                      /\ Quiet' => Whole'
    BY DEF AloneInv
  <2>1. ~nested /\ Quiet
    BY <1>1 DEF Inv, TypeOK, Quiet
  <2>2. \A d \in Calls : d # c => call'[d].pc = "idle"
    BY <1>5, <2>1 DEF Quiet
  <2>3. Whole'
    BY <1>6, <2>1 DEF Inv, AloneInv, Whole
  <2>4. AloneFor(g)'
    BY <1>4, <2>3 DEF AloneFor, StageOf
  <2>5. \A k \in Calls : call'[k].pc # "idle" => AloneFor(call[k])'
    <3> SUFFICES ASSUME NEW k \in Calls, call'[k].pc # "idle" PROVE AloneFor(call[k])'
      OBVIOUS
    <3>1. k = c
      BY <2>2
    <3> QED BY <1>5, <2>4, <3>1 DEF AloneFor
  <2> QED BY <2>2, <2>3, <2>5
<1>9. CountInv' /\ \A o \in Owned : refs'[o] \in Nat
  <2> SUFFICES ASSUME NEW o \in Owned
               PROVE  refs'[o] \in Int /\ refs'[o] + Pointers(o) = refs[o] + Pointers(o)'
    BY <1>1, KeptCounts
  <2>1. call[c].module = Absent
    BY <1>1 DEF Inv, LookupInv, StageOf
  <2>2. Places(Mods', Calls, o) + Equals(Absent, o) = Places(Mods, Calls, o) + Equals(sys, o)
    <3>1. Places(Mods', Calls, o) + Equals(call[c].module, o) = Places(Mods, Calls, o) + Equals(g.module, o)
      BY <1>1, <1>2, CallPointers
    <3> QED BY <1>4, <2>1, <3>1
  <2>3. Equals(Absent, o) = 0 /\ Equals(sys, o) \in Nat
    BY Kinds DEF Equals
  <2>4. Places(np', 1 .. Slots, o) = Places(np, 1 .. Slots, o) /\ OfDatetime(o)' = OfDatetime(o)
        /\ Equals(npModule', o) = Equals(npModule, o)
    BY <1>6 DEF OfDatetime
  <2>5. refs[o] \in Nat /\ refs'[o] = refs[o] + Equals(sys, o)
    BY <1>1, <1>3 DEF Inv, TypeOK, Equals
  <2>6. Pointers(o)' = Pointers(o) + Equals(sys, o)
    BY <2>2, <2>3, <2>4, Sums
  <2>7. Pointers(o) \in Nat /\ Pointers(o)' \in Nat
    BY PointersAreCounts, PrimedCounts DEF PointersCount
  <2> QED BY <2>3, <2>5, <2>6, <2>7
<1>10. TypeOK' /\ Shape'
  BY <1>1, <1>3, <1>5, <1>6, <1>9 DEF Inv, TypeOK, Shape
<1> QED BY <1>7, <1>8, <1>9, <1>10 DEF Inv

(* Steps of no lookup: what the lookups know stays true.                   *)
LEMMA CacheKept ==
  ASSUME Inv, UNCHANGED <<npModule, np, call, nested>>
  PROVE  LookupInv' /\ Shape' /\ AloneInv'
<1>1. npModule' = npModule /\ np' = np /\ call' = call /\ nested' = nested
  OBVIOUS
<1>2. LookupInv' /\ Shape'
  BY <1>1 DEF Inv, LookupInv, Shape
<1>3. \A k \in Calls : AloneFor(call[k]) => AloneFor(call[k])'
  BY <1>1 DEF AloneFor, Whole, StageOf
<1>4. (Whole => Whole') /\ (Quiet' => Quiet)
  BY <1>1 DEF Whole, Quiet
<1>5. AloneInv'
  BY <1>1, <1>3, <1>4 DEF Inv, AloneInv
<1> QED BY <1>2, <1>5

LEMMA LoadDatetimeKeeps ==
  ASSUME Inv, LoadDatetime
  PROVE  Inv'
<1>1. /\ ~dt /\ dt' = TRUE
      /\ refs' = [refs EXCEPT ![Capsule] = @ + 1, ![Datetimes] = @ + 1]
      /\ UNCHANGED <<sys, names, capsule, freed, changes, interned, npModule, np, call, nested>>
  BY DEF LoadDatetime, pyVars
<1>2. LookupInv' /\ Shape' /\ AloneInv'
  BY <1>1, CacheKept
<1>3. CountInv' /\ \A o \in Owned : refs'[o] \in Nat
  <2> SUFFICES ASSUME NEW o \in Owned
               PROVE  refs'[o] \in Int /\ refs'[o] + Pointers(o) = refs[o] + Pointers(o)'
    BY <1>1, KeptCounts
  <2>1. refs[o] \in Nat /\ refs'[o] = refs[o] + OfDatetime(o)'
    BY <1>1, Kinds DEF Inv, TypeOK, OfDatetime
  <2>2. OfDatetime(o) = 0
    BY <1>1 DEF OfDatetime
  <2>3. Mods' = Mods
    BY <1>1 DEF Mods
  <2>4. Pointers(o)' = Pointers(o) + OfDatetime(o)' /\ OfDatetime(o)' \in Nat
    BY <1>1, <2>2, <2>3, Sums
  <2>5. Pointers(o) \in Nat /\ Pointers(o)' \in Nat
    BY PointersAreCounts, PrimedCounts DEF PointersCount
  <2> QED BY <2>1, <2>4, <2>5
<1>4. TypeOK'
  BY <1>1, <1>3 DEF Inv, TypeOK
<1> QED BY <1>2, <1>3, <1>4 DEF Inv

LEMMA ClearKeeps ==
  ASSUME Inv, Clear
  PROVE  Inv'
<1> DEFINE released == {npModule} \cup {np[i] : i \in 1 .. Slots}
                         \cup (IF dt THEN {Capsule, Datetimes} ELSE {})
<1>1. /\ \A d \in Calls : call[d].pc = "idle"
      /\ interned' = FALSE /\ dt' = FALSE /\ npModule' = Absent /\ np' = EmptyGroup
      /\ refs' = [o \in Owned |-> IF o \in released THEN refs[o] - 1 ELSE refs[o]]
      /\ UNCHANGED <<sys, names, capsule, freed, changes, call, nested>>
  BY DEF Clear, pyVars
<1>2. LookupInv'
  BY <1>1 DEF Inv, LookupInv
<1>3. Shape'
  BY <1>1 DEF EmptyGroup, Shape
<1>4. AloneInv'
  <2>1. Whole'
    BY <1>1 DEF Whole
  <2>2. \A k \in Calls : call'[k].pc = "idle"
    BY <1>1
  <2> QED BY <2>1, <2>2 DEF AloneInv
<1>5. CountInv' /\ \A o \in Owned : refs'[o] \in Nat
  <2> SUFFICES ASSUME NEW o \in Owned
               PROVE  refs'[o] \in Int /\ refs'[o] + Pointers(o) = refs[o] + Pointers(o)'
    BY <1>1, KeptCounts
  <2> DEFINE old == Places(np, 1 .. Slots, o)
  <2>1. refs[o] \in Nat /\ refs'[o] = IF o \in released THEN refs[o] - 1 ELSE refs[o]
    BY <1>1 DEF Inv, TypeOK
  <2>2. Places(np', 1 .. Slots, o) = 0 /\ Equals(npModule', o) = 0 /\ OfDatetime(o)' = 0
    <3>1. \A i \in 1 .. Slots : np'[i] # o
      BY <1>1, Kinds DEF EmptyGroup
    <3>2. Places(np', 1 .. Slots, o) = 0
      BY <3>1, Finite, HeldNat
    <3> QED BY <1>1, <3>2, Kinds DEF Equals, OfDatetime
  <2>3. Mods' = Mods
    BY <1>1 DEF Mods
  <2>4. /\ (\E i \in 1 .. Slots : np[i] = o) => old = 1
        /\ (\A i \in 1 .. Slots : np[i] # o) => old = 0
    BY HeldOnce DEF Inv, Shape
  <2>5. /\ npModule \in Modules \cup {Absent}
        /\ \A i \in 1 .. Slots : np[i] \in Types \cup {Absent}
    BY DEF Inv, TypeOK
  <2> HIDE DEF old
  <2>6. old + Equals(npModule, o) + OfDatetime(o) = IF o \in released THEN 1 ELSE 0
    <3>1. CASE o \in Modules
      <4>1. old = 0 /\ OfDatetime(o) = 0 /\ (o \in released <=> npModule = o)
        BY <2>4, <2>5, <3>1, Kinds DEF OfDatetime
      <4> QED BY <4>1 DEF Equals
    <3>2. CASE o \in Types
      <4>1. Equals(npModule, o) = 0 /\ OfDatetime(o) = 0
        BY <2>5, <3>2, Kinds DEF OfDatetime, Equals
      <4>2. o \in released <=> \E i \in 1 .. Slots : np[i] = o
        BY <2>5, <3>2, Kinds
      <4> QED BY <2>4, <4>1, <4>2
    <3>3. CASE o \in {Capsule, Datetimes}
      <4>1. old = 0 /\ Equals(npModule, o) = 0
        BY <2>4, <2>5, <3>3, Kinds DEF Equals
      <4>2. o \in released <=> dt
        BY <2>5, <3>3, Kinds
      <4> QED BY <3>3, <4>1, <4>2 DEF OfDatetime
    <3> QED BY <3>1, <3>2, <3>3 DEF Owned
  <2>7. /\ Pointers(o) = old + Places(Mods, Calls, o) + Equals(npModule, o) + OfDatetime(o)
        /\ Pointers(o)' = Places(Mods, Calls, o)
        /\ old \in Nat /\ Equals(npModule, o) \in Nat /\ OfDatetime(o) \in Nat
        /\ Places(Mods, Calls, o) \in Nat
    BY <2>2, <2>3, Sums DEF old
  <2> DEFINE r == IF o \in released THEN 1 ELSE 0
  <2>8. old + Equals(npModule, o) + OfDatetime(o) = r /\ refs'[o] = refs[o] - r /\ r \in Nat
    BY <2>1, <2>6
  <2> HIDE DEF r
  <2> QED BY <2>1, <2>7, <2>8
<1>6. TypeOK'
  <2>1. np' \in [1 .. Slots -> Types \cup {Absent}]
    BY <1>1 DEF EmptyGroup
  <2>2. refs' \in [Owned -> Nat]
    BY <1>1, <1>5
  <2> QED BY <1>1, <2>1, <2>2 DEF Inv, TypeOK
<1> QED BY <1>2, <1>3, <1>4, <1>5, <1>6 DEF Inv

LEMMA PythonKeeps ==
  ASSUME Inv, Python
  PROVE  Inv'
<1>1. /\ TypeOK'
      /\ UNCHANGED <<interned, npModule, np, dt, refs, call, nested>>
  <2>1. ASSUME NEW m \in Modules \cup {Absent}, Import(m)
        PROVE  TypeOK' /\ UNCHANGED <<interned, npModule, np, dt, refs, call, nested>>
    BY <2>1, TypeCacheAssumption DEF Inv, TypeOK, Import, cache
  <2>2. ASSUME NEW m \in Modules, NEW i \in 1 .. Slots, DeleteName(m, i)
        PROVE  TypeOK' /\ UNCHANGED <<interned, npModule, np, dt, refs, call, nested>>
    BY <2>2, TypeCacheAssumption DEF Inv, TypeOK, DeleteName, cache
  <2>3. ASSUME ImportDatetime
        PROVE  TypeOK' /\ UNCHANGED <<interned, npModule, np, dt, refs, call, nested>>
    BY <2>3 DEF Inv, TypeOK, ImportDatetime, cache
  <2> QED BY <2>1, <2>2, <2>3 DEF Python
<1>2. LookupInv' /\ Shape' /\ AloneInv'
  BY <1>1, CacheKept
<1>3. CountInv'
  <2> SUFFICES ASSUME NEW o \in Owned
               PROVE  refs'[o] \in Int /\ refs'[o] + Pointers(o) = refs[o] + Pointers(o)'
    BY <1>1, KeptCounts
  <2>1. Mods' = Mods /\ OfDatetime(o)' = OfDatetime(o) /\ refs'[o] = refs[o] /\ refs[o] \in Nat
    BY <1>1 DEF Mods, OfDatetime, Inv, TypeOK
  <2>2. Pointers(o)' = Pointers(o) /\ Pointers(o) \in Nat
    BY <1>1, <2>1, Sums, PointersAreCounts DEF PointersCount
  <2> QED BY <2>1, <2>2
<1> QED BY <1>1, <1>2, <1>3 DEF Inv

LEMMA InitInv == Init => Inv
<1> SUFFICES ASSUME Init PROVE Inv
  OBVIOUS
<1>1. TypeOK
  <2>1. call \in [Calls -> Lookup] /\ nested \in BOOLEAN
    BY IdleIs DEF Init
  <2>2. changes \in 0 .. MaxChanges
    BY TypeCacheAssumption DEF Init
  <2>3. np \in [1 .. Slots -> Types \cup {Absent}] /\ refs \in [Owned -> Nat]
    BY DEF Init, EmptyGroup
  <2>4. names \in [Modules -> SUBSET (1 .. Slots)] /\ freed \subseteq Modules
    BY DEF Init
  <2> QED BY <2>1, <2>2, <2>3, <2>4 DEF Init, TypeOK
<1>2. \A c \in Calls : call[c] = Idle
  BY DEF Init
<1>3. LookupInv /\ Shape
  BY <1>2, IdleIs DEF Init, LookupInv, StageOf, Shape, EmptyGroup
<1>4. AloneInv
  <2>1. Whole
    BY DEF Init, Whole
  <2> QED BY <1>2, <2>1, IdleIs DEF AloneInv
<1>5. CountInv
  <2> SUFFICES ASSUME NEW o \in Owned PROVE refs[o] = 0 /\ Pointers(o) = 0
    BY DEF CountInv
  <2>1. \A i \in 1 .. Slots : np[i] # o
    BY Kinds DEF Init, EmptyGroup
  <2>2. \A c \in Calls : Mods[c] # o
    BY <1>2, IdleIs, Kinds DEF Mods
  <2>3. Places(np, 1 .. Slots, o) = 0 /\ Places(Mods, Calls, o) = 0
    BY <2>1, <2>2, Finite, HeldNat
  <2>4. Equals(npModule, o) = 0 /\ OfDatetime(o) = 0 /\ refs[o] = 0
    BY Kinds DEF Init, Equals, OfDatetime
  <2> QED BY <2>3, <2>4, PointersAre
<1> QED BY <1>1, <1>3, <1>4, <1>5 DEF Inv

LEMMA NextInv == Inv /\ [Next]_vars => Inv'
<1> SUFFICES ASSUME Inv, [Next]_vars PROVE Inv'
  OBVIOUS
<1>1. ASSUME NEW c \in Calls, Step(c) PROVE Inv'
  BY <1>1, NumpyMissKeeps, ClearModuleKeeps, ClearTypeKeeps, ClearDoneKeeps, ReadGroupKeeps,
     ReadFailsKeeps, DropModuleKeeps, FinalizerReturnsKeeps DEF Step
<1>2. CASE LoadDatetime
  BY <1>2, LoadDatetimeKeeps
<1>3. CASE Clear
  BY <1>3, ClearKeeps
<1>4. CASE Python
  BY <1>4, PythonKeeps
<1>5. CASE UNCHANGED vars
  <2>1. LookupInv' /\ Shape' /\ AloneInv'
    BY <1>5, CacheKept DEF vars
  <2>2. TypeOK'
    BY <1>5 DEF vars, Inv, TypeOK
  <2>3. CountInv'
    <3>1. \A o : Pointers(o)' = Pointers(o)
      BY <1>5 DEF vars, Pointers
    <3> QED BY <1>5, <3>1 DEF vars, Inv, CountInv
  <2> QED BY <2>1, <2>2, <2>3 DEF Inv
<1> QED BY <1>1, <1>2, <1>3, <1>4, <1>5 DEF Next

-----------------------------------------------------------------------------
(* The theorems.                                                           *)

(* The inductive invariant of the lookups, of clear and of what Python     *)
(* does between their steps.                                               *)
THEOREM Invariance == Spec => []Inv
BY InitInv, NextInv, PTL DEF Spec

(* Every variable keeps its type; no reference count goes below zero.      *)
THEOREM TypeCorrect == Spec => []TypeOK
<1>1. Inv => TypeOK
  BY DEF Inv
<1> QED BY <1>1, Invariance, PTL

(* The cache never points to an object it does not own, however the        *)
(* lookups of any number of calls nest in each other's finalizers.         *)
THEOREM NeverDangles == Spec => []NoDangling
<1>1. Inv => NoDangling
  BY DEF Inv, CountInv, NoDangling
<1> QED BY <1>1, Invariance, PTL

(* Lookups that do not nest leak nothing and release nothing twice.        *)
THEOREM NeverLeaks == Spec => []NoLeak
<1>1. Inv => NoLeak
  BY DEF Inv, CountInv, NoLeak
<1> QED BY <1>1, Invariance, PTL

(* Between lookups that do not nest, a group and its owner are there       *)
(* together or neither of them is.                                         *)
THEOREM GroupsAreWhole == Spec => []GroupWholeAlone
<1>1. Inv => GroupWholeAlone
  <2> SUFFICES ASSUME Inv, ~nested, Quiet
               PROVE  IF npModule = Absent THEN np = EmptyGroup ELSE \A i \in 1 .. Slots : np[i] # Absent
    BY DEF GroupWholeAlone, GroupWhole
  <2>1. Whole /\ npModule \in Modules \cup {Absent}
    BY DEF Inv, AloneInv, TypeOK
  <2>2. \A m \in Modules, i \in 1 .. Slots : <<m, i>> # Absent
    BY TypeCacheAssumption
  <2> QED BY <2>1, <2>2 DEF Whole, Group
<1> QED BY <1>1, Invariance, PTL

(* A module that counts as read has its own types in the group.            *)
THEOREM NumpyIsRecognised == Spec => []NumpyRecognised
<1>1. Inv => NumpyRecognised
  BY DEF Inv, AloneInv, Whole, NumpyRecognised
<1> QED BY <1>1, Invariance, PTL

=============================================================================
