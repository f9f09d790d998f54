---------------------------- MODULE LoadsProofs ----------------------------
(***************************************************************************)
(* The theorems of Loads, for any documents, any size of the key cache and *)
(* any number of calls and of failing allocations: references are exact,   *)
(* the scratch is free when Python runs, build stays within the tape, and  *)
(* the answer matches the exception.                                       *)
(***************************************************************************)
EXTENDS Loads, SequenceTheorems, SetFacts

-----------------------------------------------------------------------------
(* The invariant. *)

Building == {"build", "insert", "unwind"}
Items == Seq(Seq({Nil} \cup Objects) \ {<<>>})
PyObject == [t : {"str", "num", "list", "dict", "unused"}, text : STRING \cup {""}, items : Items]
Entry == [hash : Nat, key : {Nil} \cup Objects]

TypeInv ==
  /\ calls \in Seq(Frame) /\ Len(calls) <= MaxNesting
  /\ borrowed \in BOOLEAN
  /\ i \in Nat /\ partials \in Seq(Partial) /\ val \in {Nil} \cup Objects
  /\ cache \in [Slots -> Entry]
  /\ heap \in [Objects -> PyObject] /\ owned \in [Objects -> Nat]
  /\ results \in Seq(Docs \X Objects)
  /\ left \in 0 .. MaxCalls /\ failures \in 0 .. MaxFailures

(* What a call knows at each of its steps.                                 *)
FrameOK(f) ==
  /\ f.pc \notin {"unwind", "release", "return"} => f.exc = "none"
  /\ f.pc = "unwind" => f.exc = "memory"
  /\ f.pc = "release" => f.exc # "none"
  /\ f.exc = "decode" => Fault(f) \/ Unencoded(f)
  /\ f.pc \notin {"python", "release"} => f.args = {}
  /\ f.pc # "return" => f.result = Nil
  /\ f.pc = "return" => /\ f.result = Nil <=> f.exc # "none"
                        /\ f.result # Nil => ~Fault(f) /\ f.utf8
  /\ f.pc \in Building \cup {"run"} => f.source \in Sources /\ f.utf8
  /\ f.pc \in Building => f.doc \in DOMAIN Tape
  /\ f.pc \in {"raise", "python", "release"} => Fault(f) \/ Unencoded(f)

Suspended(f) == f.pc = "python" \/ (f.pc = "return" /\ f.view)

(* Only the innermost call may be building, and then it has the scratch.   *)
StageInv ==
  /\ \A n \in 1 .. Len(calls) : FrameOK(calls[n])
  /\ \A n \in 1 .. Len(calls) - 1 : Suspended(calls[n])
  /\ borrowed <=> calls # <<>> /\ Top.pc \in Building
  /\ ~borrowed => partials = <<>>
  /\ val # Nil <=> At("insert")

(* An open container waits for an item, and a list never for a key.        *)
Waits(p) == p.filled < p.len /\ (p.isList => p.key = Nil)
WaitInv == \A n \in 1 .. Len(partials) : Waits(partials[n])

Used(o) == heap[o].t # "unused"

CountInv ==
  /\ \A o \in Objects : owned[o] = Holders(o)
  /\ \A o \in Objects : owned[o] > 0 \/ o \in DOMAIN Singletons => Used(o)
  /\ \A s, r \in Slots : cache[s].key # Nil /\ cache[s].key = cache[r].key => s = r

(* The items of the container at node n.                                   *)
Kids(t, n) == CHOOSE c \in [0 .. t[n].len -> 1 .. Len(t) + 1] : Children(t, n, c)

(* p is being filled from the container at node n, and is at node m.       *)
Fills(t, n, p, m) ==
  /\ n \in DOMAIN t /\ t[n].t = (IF p.isList THEN "list" ELSE "dict") /\ p.len = t[n].len
  /\ m = Kids(t, n)[p.filled] + (IF p.key = Nil THEN 0 ELSE 1)

(* It waits for a value and for no key.                                    *)
Ready(p) == p.isList \/ p.key # Nil

(* Container n of ps is the one at node st[n], inside the one before it.   *)
Layout(t, ps, st) ==
  /\ st \in Seq(Nat) /\ Len(st) = Len(ps) + 1 /\ st[1] = 1
  /\ \A n \in 1 .. Len(ps) : Fills(t, st[n], ps[n], st[n + 1])
  /\ \A n \in 1 .. Len(ps) - 1 : Ready(ps[n])

(* What the innermost of the containers ps takes next is at node m.        *)
Reads(t, ps, m) == \E st : Layout(t, ps, st) /\ st[Len(st)] = m

TapeInv ==
  LET t == Tape[Top.doc] IN
  /\ At("build") => Reads(t, partials, i)
  /\ At("insert") => ~AwaitsKey /\ \E n \in DOMAIN t : Reads(t, partials, n) /\ i = After(t, n)

Inv == TypeInv /\ StageInv /\ WaitInv /\ CountInv /\ TapeInv

-----------------------------------------------------------------------------
(* Sequences. *)

LEMMA SeqFacts ==
  ASSUME NEW S, NEW s \in Seq(S)
  PROVE  /\ Len(s) \in Nat /\ DOMAIN s = 1 .. Len(s) /\ (s = <<>> <=> Len(s) = 0)
         /\ \A k \in 1 .. Len(s) : s[k] \in S
         /\ s # <<>> => Len(s) \in 1 .. Len(s) /\ s[Len(s)] \in S
OBVIOUS

LEMMA Replaced ==
  ASSUME NEW S, NEW s \in Seq(S), s # <<>>, NEW x \in S
  PROVE  LET r == [s EXCEPT ![Len(s)] = x] IN
         /\ r \in Seq(S) /\ Len(r) = Len(s) /\ r # <<>> /\ r[Len(s)] = x
         /\ \A k \in 1 .. Len(s) - 1 : r[k] = s[k]
OBVIOUS

LEMMA ReplacedAt ==
  ASSUME NEW S, NEW s \in Seq(S), NEW k \in Nat, NEW x \in S
  PROVE  [s EXCEPT ![k] = x] \in Seq(S)
<1> DEFINE r == [s EXCEPT ![k] = x]
<1>1. CASE k \in 1 .. Len(s)
  <2>1. Len(s) \in Nat /\ DOMAIN r = 1 .. Len(s) /\ \A j \in 1 .. Len(s) : r[j] = IF j = k THEN x ELSE s[j]
    BY <1>1
  <2>2. \A j \in 1 .. Len(s) : r[j] \in S
    BY <2>1
  <2>3. r = [j \in 1 .. Len(s) |-> r[j]]
    BY <2>1
  <2> HIDE DEF r
  <2>4. r \in Seq(S)
    BY <2>1, <2>2, <2>3
  <2> QED BY <2>4 DEF r
<1>2. CASE k \notin 1 .. Len(s)
  <2>1. r = s
    BY <1>2
  <2> QED BY <2>1
<1> QED BY <1>1, <1>2

LEMMA Appended ==
  ASSUME NEW S, NEW s \in Seq(S), NEW x \in S
  PROVE  LET r == Append(s, x) IN
         /\ r \in Seq(S) /\ Len(r) = Len(s) + 1 /\ r # <<>> /\ r[Len(s) + 1] = x
         /\ \A k \in 1 .. Len(s) : r[k] = s[k]
OBVIOUS

LEMMA FrontOf ==
  ASSUME NEW S, NEW s \in Seq(S), s # <<>>
  PROVE  LET r == SubSeq(s, 1, Len(s) - 1) IN
         /\ r \in Seq(S) /\ Len(r) = Len(s) - 1
         /\ \A k \in 1 .. Len(s) - 1 : r[k] = s[k]
<1>1. Len(s) \in Nat \ {0} /\ \A k \in 1 .. Len(s) : s[k] \in S
  OBVIOUS
<1> DEFINE a == 1
           m == Len(s) - 1
<1>2. a \in Int /\ m \in Int /\ \A k \in a .. m : s[k] \in S
  BY <1>1
<1>0. a = 1 /\ m \in Nat /\ m = Len(s) - 1
  BY <1>1
<1> HIDE DEF a, m
<1>3. /\ SubSeq(s, a, m) \in Seq(S)
      /\ Len(SubSeq(s, a, m)) = IF a <= m THEN m - a + 1 ELSE 0
      /\ \A k \in 1 .. m - a + 1 : SubSeq(s, a, m)[k] = s[a + k - 1]
  BY <1>2, SubSeqProperties, SMTT(30)
<1>4. m - a + 1 = m /\ \A k \in 1 .. m : a + k - 1 = k
  BY <1>0
<1>5. Len(SubSeq(s, a, m)) = m /\ \A k \in 1 .. m : SubSeq(s, a, m)[k] = s[k]
  BY <1>0, <1>3, <1>4
<1> QED BY <1>0, <1>3, <1>5

LEMMA TailOf ==
  ASSUME NEW S, NEW s \in Seq(S), s # <<>>
  PROVE  /\ Tail(s) \in Seq(S) /\ Len(Tail(s)) = Len(s) - 1 /\ Head(s) = s[1]
         /\ \A k \in 1 .. Len(s) - 1 : Tail(s)[k] = s[k + 1]
OBVIOUS

(* A sequence without its n-th element.                                    *)
Without(s, n) == SubSeq(s, 1, n - 1) \o SubSeq(s, n + 1, Len(s))

LEMMA WithoutOf ==
  ASSUME NEW S, NEW s \in Seq(S), NEW n \in 1 .. Len(s)
  PROVE  /\ Without(s, n) \in Seq(S) /\ Len(Without(s, n)) = Len(s) - 1
         /\ \A k \in 1 .. Len(s) - 1 : Without(s, n)[k] = s[IF k < n THEN k ELSE k + 1]
<1> DEFINE a == 1
           b == n - 1
           c == n + 1
           m == Len(s)
           u == SubSeq(s, a, b)
           v == SubSeq(s, c, m)
<1>1. /\ m \in Nat /\ n \in Nat /\ 1 <= n /\ n <= m /\ a = 1 /\ b = n - 1 /\ c = n + 1
      /\ a \in Int /\ b \in Int /\ c \in Int /\ m \in Int
      /\ \A k \in 1 .. m : s[k] \in S
  OBVIOUS
<1>2. Without(s, n) = u \o v
  BY DEF Without
<1> HIDE DEF a, b, c, m, u, v
<1>3. (\A k \in a .. b : s[k] \in S) /\ (\A k \in c .. m : s[k] \in S)
  BY <1>1
<1>4. u \in Seq(S) /\ Len(u) = n - 1 /\ \A k \in 1 .. n - 1 : u[k] = s[k]
  <2>1. /\ SubSeq(s, a, b) \in Seq(S)
        /\ Len(SubSeq(s, a, b)) = IF a <= b THEN b - a + 1 ELSE 0
        /\ \A k \in 1 .. b - a + 1 : SubSeq(s, a, b)[k] = s[a + k - 1]
    BY <1>1, <1>3, SubSeqProperties, SMTT(30)
  <2>2. b - a + 1 = n - 1 /\ \A k \in 1 .. n - 1 : a + k - 1 = k
    BY <1>1
  <2>3. Len(SubSeq(s, a, b)) = n - 1
    BY <1>1, <2>1
  <2> QED BY <2>1, <2>2, <2>3 DEF u
<1>5. v \in Seq(S) /\ Len(v) = m - n /\ \A k \in 1 .. m - n : v[k] = s[n + k]
  <2>1. /\ SubSeq(s, c, m) \in Seq(S)
        /\ Len(SubSeq(s, c, m)) = IF c <= m THEN m - c + 1 ELSE 0
        /\ \A k \in 1 .. m - c + 1 : SubSeq(s, c, m)[k] = s[c + k - 1]
    BY <1>1, <1>3, SubSeqProperties, SMTT(30)
  <2>2. m - c + 1 = m - n /\ \A k \in 1 .. m - n : c + k - 1 = n + k
    BY <1>1
  <2>3. Len(SubSeq(s, c, m)) = m - n
    BY <1>1, <2>1
  <2> QED BY <2>1, <2>2, <2>3 DEF v
<1>6. /\ u \o v \in Seq(S) /\ Len(u \o v) = m - 1
      /\ \A k \in 1 .. m - 1 : (u \o v)[k] = IF k <= n - 1 THEN u[k] ELSE v[k - (n - 1)]
  <2>1. /\ u \o v \in Seq(S) /\ Len(u \o v) = Len(u) + Len(v)
        /\ \A k \in 1 .. Len(u) + Len(v) : (u \o v)[k] = IF k <= Len(u) THEN u[k] ELSE v[k - Len(u)]
    BY <1>4, <1>5, ConcatProperties
  <2>2. (n - 1) + (m - n) = m - 1
    BY <1>1
  <2> QED BY <1>4, <1>5, <2>1, <2>2
<1>7. ASSUME NEW k \in 1 .. m - 1 PROVE (u \o v)[k] = s[IF k < n THEN k ELSE k + 1]
  <2>1. CASE k < n
    BY <1>1, <1>4, <1>6, <2>1
  <2>2. CASE ~(k < n)
    <3>1. k - (n - 1) \in 1 .. m - n /\ n + (k - (n - 1)) = k + 1 /\ ~(k <= n - 1)
      BY <1>1, <2>2
    <3> QED BY <1>5, <1>6, <2>2, <3>1
  <2> QED BY <2>1, <2>2
<1> QED BY <1>2, <1>6, <1>7 DEF m

-----------------------------------------------------------------------------
(* The heap. *)

LEMMA ContentsIn ==
  ASSUME NEW x \in PyObject
  PROVE  Contents(x) \subseteq Objects
<1>1. x.items \in Items
  BY DEF PyObject
<1>2. \A n \in DOMAIN x.items : x.items[n] \in Seq({Nil} \cup Objects)
  BY <1>1 DEF Items
<1>3. \A n \in DOMAIN x.items : \A m \in DOMAIN x.items[n] : x.items[n][m] \in {Nil} \cup Objects
  BY <1>2
<1> DEFINE E(n) == {x.items[n][m] : m \in DOMAIN x.items[n]}
<1>4. \A n \in DOMAIN x.items : E(n) \subseteq {Nil} \cup Objects
  BY <1>3
<1>5. Contents(x) = (UNION {E(n) : n \in DOMAIN x.items}) \ {Nil}
  BY DEF Contents
<1> HIDE DEF E
<1> QED BY <1>4, <1>5

LEMMA SingletonsIn == DOMAIN Singletons \subseteq Objects /\ Nil \notin Objects
BY LoadsAssumption DEF Objects, Nil

(* What the objects in S refer to, with them.                              *)
Reached(h, S) == S \cup UNION {Contents(h[o]) : o \in S}
Reaching(h, f) ==
  [S \in SUBSET Objects |-> IF Reached(h, S) = S THEN S ELSE f[Reached(h, S)]]

(* The search for what is alive has a result: the smallest closed set.     *)
LEMMA SearchEnds ==
  ASSUME NEW h, \A o \in Objects : Contents(h[o]) \subseteq Objects
  PROVE  \E f : f = Reaching(h, f)
<1> DEFINE Closed(K) == \A o \in K : Contents(h[o]) \subseteq K
           f == [S \in SUBSET Objects |->
                   {o \in Objects : \A K \in SUBSET Objects : S \subseteq K /\ Closed(K) => o \in K}]
<1>1. ASSUME NEW S \in SUBSET Objects, Reached(h, S) = S PROVE f[S] = S
  <2>1. Closed(S)
    BY <1>1 DEF Reached
  <2>2. f[S] \subseteq S
    BY <2>1
  <2>3. S \subseteq f[S]
    OBVIOUS
  <2> QED BY <2>2, <2>3
<1>2. ASSUME NEW S \in SUBSET Objects PROVE f[S] = f[Reached(h, S)]
  <2>1. Reached(h, S) \in SUBSET Objects
    BY DEF Reached
  <2>2. \A K \in SUBSET Objects : Closed(K) => (S \subseteq K <=> Reached(h, S) \subseteq K)
    BY DEF Reached
  <2> QED BY <2>1, <2>2
<1> HIDE DEF f
<1>3. f = [S \in SUBSET Objects |-> f[S]]
  BY DEF f
<1>4. \A S \in SUBSET Objects : f[S] = IF Reached(h, S) = S THEN S ELSE f[Reached(h, S)]
  BY <1>1, <1>2
<1>5. f = Reaching(h, f)
  BY <1>3, <1>4 DEF Reaching
<1> QED BY <1>5

LEMMA SearchKeeps ==
  ASSUME NEW h, \A o \in Objects : Contents(h[o]) \subseteq Objects,
         NEW f, f = Reaching(h, f), NEW S \in SUBSET Objects
  PROVE  S \subseteq f[S]
<1> DEFINE Bad == {R \in SUBSET Objects : ~(R \subseteq f[R])}
           Rest == {Objects \ R : R \in Bad}
<1>1. SUFFICES ASSUME Bad # {} PROVE FALSE
  OBVIOUS
<1>2. IsFiniteSet(Objects)
  <2> DEFINE a == 1
  <2>1. a \in Int /\ MaxObjects \in Int
    BY LoadsAssumption
  <2> HIDE DEF a
  <2>2. IsFiniteSet(a .. MaxObjects)
    BY <2>1, FS_Interval
  <2> QED BY <2>2 DEF a, Objects
<1>3. Rest \subseteq FiniteSubsetsOf(Objects) /\ Rest # {}
  <2>1. \A R \in SUBSET Objects : Objects \ R \in FiniteSubsetsOf(Objects)
    BY <1>2, FS_Subset DEF FiniteSubsetsOf
  <2> QED BY <1>1, <2>1
<1>4. \E Q \in Rest : \A P \in Rest : ~(<<P, Q>> \in StrictSubsetOrdering(Objects))
  <2>1. IsWellFoundedOn(StrictSubsetOrdering(Objects), FiniteSubsetsOf(Objects))
    BY FS_StrictSubsetOrderingWellFounded
  <2> HIDE DEF Rest
  <2> QED BY <1>3, <2>1, WFMin
<1>5. PICK R \in Bad : \A P \in Bad : ~(<<Objects \ P, Objects \ R>> \in StrictSubsetOrdering(Objects))
  BY <1>4
<1> DEFINE T == Reached(h, R)
<1>6. T \in SUBSET Objects /\ R \subseteq T
  BY <1>5 DEF Reached
<1>7. f[R] = IF T = R THEN R ELSE f[T]
  BY <1>5 DEF Reaching
<1>8. T # R /\ f[R] = f[T]
  BY <1>5, <1>7
<1>9. T \in Bad
  BY <1>5, <1>6, <1>8
<1>10. <<Objects \ T, Objects \ R>> \in StrictSubsetOrdering(Objects)
  BY <1>5, <1>6, <1>8 DEF StrictSubsetOrdering
<1> QED BY <1>5, <1>9, <1>10

(* What is owned is alive, and so are the singletons.                      *)
LEMMA OwnedLives ==
  ASSUME NEW h \in [Objects -> PyObject], NEW own
  PROVE  DOMAIN Singletons \cup {o \in Objects : own[o] > 0} \subseteq Alive(h, own)
<1> DEFINE g == CHOOSE f : f = Reaching(h, f)
           R == DOMAIN Singletons \cup {o \in Objects : own[o] > 0}
<1>1. \A o \in Objects : Contents(h[o]) \subseteq Objects
  BY ContentsIn
<1>2. g = Reaching(h, g)
  BY <1>1, SearchEnds
<1>3. Alive(h, own) = g[R]
  BY DEF Alive, Reaching, Reached
<1>4. R \in SUBSET Objects
  BY SingletonsIn
<1> HIDE DEF g, R
<1>5. R \subseteq g[R]
  BY <1>1, <1>2, <1>4, SearchKeeps
<1> QED BY <1>3, <1>5 DEF R

(* A release frees nothing that is still owned.                            *)
LEMMA SettleKeeps ==
  ASSUME NEW h \in [Objects -> PyObject], NEW own, Settle(h, own)
  PROVE  /\ owned' = own /\ heap' \in [Objects -> PyObject]
         /\ \A o \in Objects : own[o] > 0 \/ o \in DOMAIN Singletons => heap'[o] = h[o]
<1>1. owned' = own /\ heap' = [o \in Objects |-> IF o \in Alive(h, own) THEN h[o] ELSE Unused]
  BY DEF Settle
<1>2. Unused \in PyObject
  <2>1. <<>> \in Items
    BY DEF Items
  <2> QED BY <2>1 DEF Unused, PyObject
<1>3. \A o \in Objects : own[o] > 0 \/ o \in DOMAIN Singletons => o \in Alive(h, own)
  BY OwnedLives
<1> QED BY <1>1, <1>2, <1>3

-----------------------------------------------------------------------------
(* Who holds a reference, one column of each sequence at a time.           *)

Objs(ps) == [n \in DOMAIN ps |-> ps[n].obj]
Keys(ps) == [n \in DOMAIN ps |-> ps[n].key]
Given(cs) == [n \in DOMAIN cs |-> cs[n].result]
Kept(rs) == [n \in DOMAIN rs |-> rs[n][2]]
Entries(c) == [s \in Slots |-> c[s].key]

InPartials(ps, o) == Places(Objs(ps), 1 .. Len(ps), o) + Places(Keys(ps), 1 .. Len(ps), o)
InCalls(cs, o) == Places(Given(cs), 1 .. Len(cs), o)
InResults(rs, o) == Places(Kept(rs), 1 .. Len(rs), o)
InCache(c, o) == Places(Entries(c), Slots, o)

LEMMA FiniteTo ==
  ASSUME NEW m \in Nat
  PROVE  IsFiniteSet(1 .. m)
<1> DEFINE a == 1
<1>1. a \in Int /\ m \in Int
  OBVIOUS
<1> HIDE DEF a
<1>2. IsFiniteSet(a .. m)
  BY <1>1, FS_Interval
<1> QED BY <1>2 DEF a

LEMMA SlotsFinite == IsFiniteSet(Slots) /\ \A text \in DOMAIN Hash : Slot(text) \in Slots
<1> DEFINE a == 0
           b == CacheSlots - 1
<1>1. a \in Int /\ b \in Int
  BY LoadsAssumption
<1>2. \A text \in DOMAIN Hash : Hash[text] \in Nat /\ Hash[text] % CacheSlots \in 0 .. CacheSlots - 1
  BY LoadsAssumption
<1> HIDE DEF a, b
<1>3. IsFiniteSet(a .. b)
  BY <1>1, FS_Interval
<1> QED BY <1>2, <1>3 DEF a, b, Slots, Slot

LEMMA InNat ==
  ASSUME NEW ps \in Seq(Partial), NEW cs \in Seq(Frame), NEW rs \in Seq(Docs \X Objects), NEW c, NEW o
  PROVE  /\ InPartials(ps, o) \in Nat /\ InCalls(cs, o) \in Nat
         /\ InResults(rs, o) \in Nat /\ InCache(c, o) \in Nat
<1>1. Len(ps) \in Nat /\ Len(cs) \in Nat /\ Len(rs) \in Nat
  OBVIOUS
<1>2. IsFiniteSet(1 .. Len(ps)) /\ IsFiniteSet(1 .. Len(cs)) /\ IsFiniteSet(1 .. Len(rs))
  BY <1>1, FiniteTo
<1>3. /\ Places(Objs(ps), 1 .. Len(ps), o) \in Nat /\ Places(Keys(ps), 1 .. Len(ps), o) \in Nat
      /\ Places(Given(cs), 1 .. Len(cs), o) \in Nat /\ Places(Kept(rs), 1 .. Len(rs), o) \in Nat
      /\ Places(Entries(c), Slots, o) \in Nat
  BY <1>2, SlotsFinite, HeldNat
<1> QED BY <1>3 DEF InPartials, InCalls, InResults, InCache

LEMMA HoldersAre ==
  ASSUME NEW o, DOMAIN partials = 1 .. Len(partials), DOMAIN calls = 1 .. Len(calls),
         DOMAIN results = 1 .. Len(results)
  PROVE  Holders(o) = InPartials(partials, o) + InCache(cache, o) + InCalls(calls, o)
                      + InResults(results, o) + Equals(val, o)
<1>1. /\ {n \in DOMAIN partials : partials[n].obj = o} = {n \in 1 .. Len(partials) : Objs(partials)[n] = o}
      /\ {n \in DOMAIN partials : partials[n].key = o} = {n \in 1 .. Len(partials) : Keys(partials)[n] = o}
  BY DEF Objs, Keys
<1>2. {n \in DOMAIN calls : calls[n].result = o} = {n \in 1 .. Len(calls) : Given(calls)[n] = o}
  BY DEF Given
<1>3. {n \in DOMAIN results : results[n][2] = o} = {n \in 1 .. Len(results) : Kept(results)[n] = o}
  BY DEF Kept
<1>4. {s \in Slots : cache[s].key = o} = {s \in Slots : Entries(cache)[s] = o}
  BY DEF Entries
<1> QED BY <1>1, <1>2, <1>3, <1>4 DEF Holders, Places, InPartials, InCache, InCalls, InResults, Equals

LEMMA PushPartial ==
  ASSUME NEW ps \in Seq(Partial), NEW p \in Partial, NEW o
  PROVE  InPartials(Append(ps, p), o) = InPartials(ps, o) + Equals(p.obj, o) + Equals(p.key, o)
<1> DEFINE r == Append(ps, p)
           m == Len(ps)
<1>1. /\ m \in Nat /\ r \in Seq(Partial) /\ Len(r) = m + 1 /\ r[m + 1] = p
      /\ \A k \in 1 .. m : r[k] = ps[k]
  BY Appended
<1>2. DOMAIN ps = 1 .. m /\ DOMAIN r = 1 .. m + 1
  BY <1>1
<1> HIDE DEF r, m
<1>3. /\ \A k \in 1 .. m : Objs(r)[k] = Objs(ps)[k] /\ Keys(r)[k] = Keys(ps)[k]
      /\ Objs(r)[m + 1] = p.obj /\ Keys(r)[m + 1] = p.key
  BY <1>1, <1>2 DEF Objs, Keys
<1>4. Places(Objs(r), 1 .. m + 1, o) = Places(Objs(ps), 1 .. m, o) + Equals(p.obj, o)
  <2> DEFINE f == Objs(ps)
             g == Objs(r)
  <2>1. m \in Nat /\ Prolongs(f, g, m) /\ g[m + 1] = p.obj
    BY <1>1, <1>3 DEF Prolongs
  <2> HIDE DEF f, g
  <2>2. Places(g, 1 .. m + 1, o) = Places(f, 1 .. m, o) + Equals(g[m + 1], o)
    BY <2>1, HeldGrows
  <2> QED BY <2>1, <2>2 DEF f, g
<1>5. Places(Keys(r), 1 .. m + 1, o) = Places(Keys(ps), 1 .. m, o) + Equals(p.key, o)
  <2> DEFINE f == Keys(ps)
             g == Keys(r)
  <2>1. m \in Nat /\ Prolongs(f, g, m) /\ g[m + 1] = p.key
    BY <1>1, <1>3 DEF Prolongs
  <2> HIDE DEF f, g
  <2>2. Places(g, 1 .. m + 1, o) = Places(f, 1 .. m, o) + Equals(g[m + 1], o)
    BY <2>1, HeldGrows
  <2> QED BY <2>1, <2>2 DEF f, g
<1>6. /\ Places(Objs(ps), 1 .. m, o) \in Nat /\ Places(Keys(ps), 1 .. m, o) \in Nat
      /\ Equals(p.obj, o) \in Nat /\ Equals(p.key, o) \in Nat
  BY <1>1, FiniteTo, HeldNat, EqualsIs
<1>7. InPartials(r, o) = Places(Objs(r), 1 .. m + 1, o) + Places(Keys(r), 1 .. m + 1, o)
  BY <1>1 DEF InPartials
<1>8. InPartials(ps, o) = Places(Objs(ps), 1 .. m, o) + Places(Keys(ps), 1 .. m, o)
  BY DEF InPartials, m
<1>9. InPartials(r, o) = InPartials(ps, o) + Equals(p.obj, o) + Equals(p.key, o)
  BY <1>4, <1>5, <1>6, <1>7, <1>8
<1> QED BY <1>9 DEF r

LEMMA PopPartial ==
  ASSUME NEW ps \in Seq(Partial), ps # <<>>, NEW o
  PROVE  InPartials(ps, o) = InPartials(Tail(ps), o) + Equals(Head(ps).obj, o)
                             + Equals(Head(ps).key, o)
<1> DEFINE r == Tail(ps)
           m == Len(ps)
           b == 1
<1>1. /\ m \in Nat \ {0} /\ r \in Seq(Partial) /\ Len(r) = m - 1 /\ Head(ps) = ps[1]
      /\ \A k \in 1 .. m - 1 : r[k] = ps[k + 1]
  BY TailOf
<1>2. DOMAIN ps = 1 .. m /\ DOMAIN r = 1 .. m - 1 /\ b \in 1 .. m /\ 1 = b
  BY <1>1
<1> HIDE DEF r, m, b
<1>3. \A k \in 1 .. m - 1 : /\ Objs(r)[k] = Objs(ps)[IF k < b THEN k ELSE k + 1]
                            /\ Keys(r)[k] = Keys(ps)[IF k < b THEN k ELSE k + 1]
  <2>1. \A k \in 1 .. m - 1 : ~(k < b) /\ k \in 1 .. m - 1 /\ k + 1 \in 1 .. m
    BY <1>1, <1>2
  <2> QED BY <1>1, <1>2, <2>1 DEF Objs, Keys
<1>4. Places(Objs(ps), 1 .. m, o) = Places(Objs(r), 1 .. m - 1, o) + Equals(Objs(ps)[b], o)
  <2> DEFINE f == Objs(ps)
             g == Objs(r)
  <2>1. m \in Nat /\ b \in 1 .. m /\ MovesUp(f, g, m, b)
    BY <1>1, <1>2, <1>3 DEF MovesUp
  <2> HIDE DEF f, g
  <2>2. Places(f, 1 .. m, o) = Places(g, 1 .. m - 1, o) + Equals(f[b], o)
    BY <2>1, HeldRemoved
  <2> QED BY <2>2 DEF f, g
<1>5. Places(Keys(ps), 1 .. m, o) = Places(Keys(r), 1 .. m - 1, o) + Equals(Keys(ps)[b], o)
  <2> DEFINE f == Keys(ps)
             g == Keys(r)
  <2>1. m \in Nat /\ b \in 1 .. m /\ MovesUp(f, g, m, b)
    BY <1>1, <1>2, <1>3 DEF MovesUp
  <2> HIDE DEF f, g
  <2>2. Places(f, 1 .. m, o) = Places(g, 1 .. m - 1, o) + Equals(f[b], o)
    BY <2>1, HeldRemoved
  <2> QED BY <2>2 DEF f, g
<1>6. Objs(ps)[b] = Head(ps).obj /\ Keys(ps)[b] = Head(ps).key
  BY <1>1, <1>2 DEF Objs, Keys
<1>7. /\ Places(Objs(r), 1 .. m - 1, o) \in Nat /\ Places(Keys(r), 1 .. m - 1, o) \in Nat
      /\ Equals(Head(ps).obj, o) \in Nat /\ Equals(Head(ps).key, o) \in Nat
  <2>1. m - 1 \in Nat
    BY <1>1
  <2> QED BY <2>1, FiniteTo, HeldNat, EqualsIs
<1>8. InPartials(r, o) = Places(Objs(r), 1 .. m - 1, o) + Places(Keys(r), 1 .. m - 1, o)
  BY <1>1 DEF InPartials
<1>9. InPartials(ps, o) = Places(Objs(ps), 1 .. m, o) + Places(Keys(ps), 1 .. m, o)
  BY DEF InPartials, m
<1>10. InPartials(ps, o) = InPartials(r, o) + Equals(Head(ps).obj, o) + Equals(Head(ps).key, o)
  BY <1>4, <1>5, <1>6, <1>7, <1>8, <1>9
<1> QED BY <1>10 DEF r

LEMMA PushCall ==
  ASSUME NEW cs \in Seq(Frame), NEW f \in Frame, NEW o
  PROVE  InCalls(Append(cs, f), o) = InCalls(cs, o) + Equals(f.result, o)
<1> DEFINE r == Append(cs, f)
           m == Len(cs)
           g == Given(cs)
           h == Given(r)
<1>1. /\ m \in Nat /\ r \in Seq(Frame) /\ Len(r) = m + 1 /\ r[m + 1] = f
      /\ \A k \in 1 .. m : r[k] = cs[k]
  BY Appended
<1>2. DOMAIN cs = 1 .. m /\ DOMAIN r = 1 .. m + 1
  BY <1>1
<1> HIDE DEF r, m
<1>3. (\A k \in 1 .. m : h[k] = g[k]) /\ h[m + 1] = f.result
  BY <1>1, <1>2 DEF Given
<1> HIDE DEF g, h
<1>4. Places(h, 1 .. m + 1, o) = Places(g, 1 .. m, o) + Equals(h[m + 1], o)
  <2>1. m \in Nat /\ Prolongs(g, h, m)
    BY <1>1, <1>3 DEF Prolongs
  <2> QED BY <2>1, HeldGrows
<1>5. InCalls(r, o) = Places(h, 1 .. m + 1, o) /\ InCalls(cs, o) = Places(g, 1 .. m, o)
  BY <1>1 DEF InCalls, g, h, m
<1>6. InCalls(r, o) = InCalls(cs, o) + Equals(f.result, o)
  BY <1>3, <1>4, <1>5
<1> QED BY <1>6 DEF r

LEMMA PopCall ==
  ASSUME NEW cs \in Seq(Frame), cs # <<>>, NEW o
  PROVE  InCalls(cs, o) = InCalls(SubSeq(cs, 1, Len(cs) - 1), o) + Equals(cs[Len(cs)].result, o)
<1> DEFINE r == SubSeq(cs, 1, Len(cs) - 1)
           f == cs[Len(cs)]
<1>1. /\ r \in Seq(Frame) /\ Len(r) = Len(cs) - 1 /\ Len(cs) \in Nat \ {0}
      /\ \A k \in 1 .. Len(cs) - 1 : r[k] = cs[k]
  BY FrontOf
<1>2. f \in Frame
  OBVIOUS
<1> HIDE DEF r, f
<1>3. Append(r, f) = cs
  <2> DEFINE q == Append(r, f)
  <2>1. q \in Seq(Frame) /\ Len(q) = Len(r) + 1 /\ q[Len(r) + 1] = f /\ \A k \in 1 .. Len(r) : q[k] = r[k]
    BY <1>1, <1>2, Appended
  <2> HIDE DEF q
  <2>2. Len(q) = Len(cs) /\ \A k \in 1 .. Len(cs) : q[k] = cs[k]
    BY <1>1, <2>1 DEF f
  <2>3. q = cs
    BY <2>1, <2>2, SeqEqual
  <2> QED BY <2>3 DEF q
<1>4. InCalls(Append(r, f), o) = InCalls(r, o) + Equals(f.result, o)
  BY <1>1, <1>2, PushCall
<1> QED BY <1>3, <1>4 DEF r, f

(* A call that goes on keeps its result, or gets one.                      *)
LEMMA SetCall ==
  ASSUME NEW cs \in Seq(Frame), cs # <<>>, NEW f \in Frame, NEW o
  PROVE  InCalls([cs EXCEPT ![Len(cs)] = f], o) + Equals(cs[Len(cs)].result, o)
           = InCalls(cs, o) + Equals(f.result, o)
<1> DEFINE r == [cs EXCEPT ![Len(cs)] = f]
           m == Len(cs)
           g == Given(cs)
           h == Given(r)
<1>1. /\ m \in Nat \ {0} /\ r \in Seq(Frame) /\ Len(r) = m /\ r[m] = f
      /\ \A k \in 1 .. m - 1 : r[k] = cs[k]
  BY Replaced
<1>0. /\ cs[Len(cs)] = cs[m] /\ [cs EXCEPT ![Len(cs)] = f] = r
      /\ DOMAIN cs = 1 .. m /\ DOMAIN r = DOMAIN cs
  OBVIOUS
<1> HIDE DEF r, m
<1>2. DOMAIN cs = 1 .. m /\ DOMAIN r = 1 .. m /\ m \in 1 .. m
  BY <1>0, <1>1
<1>3. \A k \in 1 .. m : k # m => k \in 1 .. m - 1
  BY <1>1
<1>4. /\ \A k \in 1 .. m : k # m => h[k] = g[k]
      /\ h[m] = f.result /\ g[m] = cs[m].result
  BY <1>1, <1>2, <1>3 DEF Given
<1> HIDE DEF g, h
<1>5. OnlyAt(g, h, 1 .. m, m)
  BY <1>4 DEF OnlyAt
<1>6. IsFiniteSet(1 .. m)
  BY <1>1, FiniteTo
<1>7. Places(h, 1 .. m, o) + Equals(g[m], o) = Places(g, 1 .. m, o) + Equals(h[m], o)
  BY <1>2, <1>5, <1>6, HeldChanges
<1>8. InCalls(r, o) = Places(h, 1 .. m, o) /\ InCalls(cs, o) = Places(g, 1 .. m, o)
  BY <1>1 DEF InCalls, g, h, m
<1> QED BY <1>0, <1>4, <1>7, <1>8

LEMMA PushResult ==
  ASSUME NEW rs \in Seq(Docs \X Objects), NEW x \in Docs \X Objects, NEW o
  PROVE  InResults(Append(rs, x), o) = InResults(rs, o) + Equals(x[2], o)
<1> DEFINE r == Append(rs, x)
           m == Len(rs)
           g == Kept(rs)
           h == Kept(r)
<1>1. /\ m \in Nat /\ r \in Seq(Docs \X Objects) /\ Len(r) = m + 1 /\ r[m + 1] = x
      /\ \A k \in 1 .. m : r[k] = rs[k]
  BY Appended
<1>2. DOMAIN rs = 1 .. m /\ DOMAIN r = 1 .. m + 1
  BY <1>1
<1> HIDE DEF r, m
<1>3. (\A k \in 1 .. m : h[k] = g[k]) /\ h[m + 1] = x[2]
  BY <1>1, <1>2 DEF Kept
<1> HIDE DEF g, h
<1>4. Places(h, 1 .. m + 1, o) = Places(g, 1 .. m, o) + Equals(h[m + 1], o)
  <2>1. m \in Nat /\ Prolongs(g, h, m)
    BY <1>1, <1>3 DEF Prolongs
  <2> QED BY <2>1, HeldGrows
<1>5. InResults(r, o) = Places(h, 1 .. m + 1, o) /\ InResults(rs, o) = Places(g, 1 .. m, o)
  BY <1>1 DEF InResults, g, h, m
<1>6. InResults(r, o) = InResults(rs, o) + Equals(x[2], o)
  BY <1>3, <1>4, <1>5
<1> QED BY <1>6 DEF r

LEMMA LoseResult ==
  ASSUME NEW rs \in Seq(Docs \X Objects), NEW n \in 1 .. Len(rs), NEW o
  PROVE  InResults(rs, o) = InResults(Without(rs, n), o) + Equals(rs[n][2], o)
<1> DEFINE r == Without(rs, n)
           m == Len(rs)
           g == Kept(rs)
           h == Kept(r)
<1>1. /\ m \in Nat \ {0} /\ r \in Seq(Docs \X Objects) /\ Len(r) = m - 1
      /\ \A k \in 1 .. m - 1 : r[k] = rs[IF k < n THEN k ELSE k + 1]
  BY WithoutOf
<1>2. DOMAIN rs = 1 .. m /\ DOMAIN r = 1 .. m - 1 /\ n \in 1 .. m
  BY <1>1
<1> HIDE DEF r, m
<1>3. MovesUp(g, h, m, n) /\ g[n] = rs[n][2]
  <2>1. \A k \in 1 .. m - 1 : (IF k < n THEN k ELSE k + 1) \in 1 .. m
    BY <1>1, <1>2
  <2> QED BY <1>1, <1>2, <2>1 DEF MovesUp, Kept
<1> HIDE DEF g, h
<1>4. Places(g, 1 .. m, o) = Places(h, 1 .. m - 1, o) + Equals(g[n], o)
  BY <1>1, <1>2, <1>3, HeldRemoved
<1>5. InResults(r, o) = Places(h, 1 .. m - 1, o) /\ InResults(rs, o) = Places(g, 1 .. m, o)
  BY <1>1 DEF InResults, g, h, m
<1>6. InResults(rs, o) = InResults(r, o) + Equals(rs[n][2], o)
  BY <1>3, <1>4, <1>5
<1> QED BY <1>6 DEF r

LEMMA SetEntry ==
  ASSUME cache \in [Slots -> Entry], NEW s \in Slots, NEW e \in Entry, NEW o
  PROVE  InCache([cache EXCEPT ![s] = e], o) + Equals(cache[s].key, o)
           = InCache(cache, o) + Equals(e.key, o)
<1> DEFINE c == [cache EXCEPT ![s] = e]
           g == Entries(cache)
           h == Entries(c)
<1>1. g[s] = cache[s].key /\ h[s] = e.key /\ \A r \in Slots : r # s => h[r] = g[r]
  BY DEF Entries
<1>2. InCache(c, o) = Places(h, Slots, o) /\ InCache(cache, o) = Places(g, Slots, o)
  BY DEF InCache
<1> HIDE DEF c, g, h
<1>3. OnlyAt(g, h, Slots, s)
  BY <1>1 DEF OnlyAt
<1>4. Places(h, Slots, o) + Equals(g[s], o) = Places(g, Slots, o) + Equals(h[s], o)
  BY <1>3, SlotsFinite, HeldChanges
<1> QED BY <1>1, <1>2, <1>4 DEF c

-----------------------------------------------------------------------------
(* The tape. *)

Containers == {"list", "dict"}

LEMMA TapeOf ==
  ASSUME NEW d \in DOMAIN Tape
  PROVE  LET t == Tape[d] IN
         /\ t \in Seq(Nodes) /\ Len(t) \in Nat /\ DOMAIN t = 1 .. Len(t) /\ 1 \in DOMAIN t
         /\ After(t, 1) = Len(t) + 1
         /\ \A n \in DOMAIN t : t[n].t \in Containers =>
              Kids(t, n) \in [0 .. t[n].len -> 1 .. Len(t) + 1] /\ Children(t, n, Kids(t, n))
<1> DEFINE t == Tape[d]
<1>1. Laid(t)
  BY LoadsAssumption
<1> HIDE DEF t
<1>2. t \in Seq(Nodes) /\ t # <<>> /\ After(t, 1) = Len(t) + 1
  BY <1>1 DEF Laid
<1>3. Len(t) \in Nat /\ DOMAIN t = 1 .. Len(t) /\ 1 \in DOMAIN t
  BY <1>2
<1>4. ASSUME NEW n \in DOMAIN t, t[n].t \in Containers
      PROVE  Kids(t, n) \in [0 .. t[n].len -> 1 .. Len(t) + 1] /\ Children(t, n, Kids(t, n))
  <2>1. \E c \in [0 .. t[n].len -> 1 .. Len(t) + 1] : Children(t, n, c)
    BY <1>1, <1>4 DEF Laid, Containers
  <2> QED BY <2>1 DEF Kids
<1> QED BY <1>2, <1>3, <1>4 DEF t

LEMMA NodeFacts ==
  ASSUME NEW d \in DOMAIN Tape, NEW n \in DOMAIN Tape[d]
  PROVE  LET x == Tape[d][n] IN
         /\ x.t \in {"str", "num", "const"} \cup Containers
         /\ x.t \in Containers => x.len \in Nat
         /\ x.t \notin Containers => x.text \in STRING /\ After(Tape[d], n) = n + 1
         /\ x.t = "const" => Singleton(x.text) \in DOMAIN Singletons
<1> DEFINE x == Tape[d][n]
<1>1. x \in Nodes
  <2>1. Tape[d] \in Seq(Nodes)
    BY TapeOf
  <2> QED BY <2>1
<1>2. /\ x.t \in {"str", "num", "const"} \cup Containers
      /\ x.t \in Containers => x.len \in Nat
      /\ x.t \notin Containers => x.text \in STRING
  <2> HIDE DEF x
  <2>1. \/ x.t \in {"str", "num", "const"} /\ x.text \in STRING
        \/ x.t \in Containers /\ x.len \in Nat
    BY <1>1 DEF Nodes, Containers
  <2> QED BY <2>1 DEF Containers
<1>3. x.t \notin Containers => After(Tape[d], n) = n + 1
  BY DEF After, Containers
<1>4. x.t = "const" => Singleton(x.text) \in DOMAIN Singletons
  <2>1. x.t = "const" => \E o \in DOMAIN Singletons : Singletons[o] = x.text
    BY LoadsAssumption
  <2> HIDE DEF x
  <2> QED BY <2>1 DEF Singleton
<1> QED BY <1>2, <1>3, <1>4

(* Where the next item of a container is.                                  *)
LEMMA NextKid ==
  ASSUME NEW d \in DOMAIN Tape, NEW n, NEW p \in Partial, NEW m, Fills(Tape[d], n, p, m), Waits(p)
  PROVE  LET t == Tape[d] IN
         /\ n \in DOMAIN t /\ m \in DOMAIN t /\ p.filled + 1 <= p.len
         /\ ~p.isList /\ p.key = Nil => t[m].t = "str" /\ m + 1 \in DOMAIN t
         /\ p.isList \/ p.key # Nil => Kids(t, n)[p.filled + 1] = After(t, m)
         /\ Kids(t, n)[p.len] = After(t, n) /\ Kids(t, n)[0] = n + 1
<1> DEFINE t == Tape[d]
           c == Kids(t, n)
           k == p.filled
           len == t[n].len
<1>1. /\ n \in DOMAIN t /\ t[n].t = (IF p.isList THEN "list" ELSE "dict") /\ p.len = len
      /\ m = c[k] + (IF p.key = Nil THEN 0 ELSE 1)
  BY DEF Fills
<1>2. p.isList \in BOOLEAN /\ k \in Nat /\ p.len \in Nat /\ k < p.len /\ (p.isList => p.key = Nil)
  BY DEF Partial, Waits
<1>3. Children(t, n, c) /\ Len(t) \in Nat /\ DOMAIN t = 1 .. Len(t)
  BY <1>1, <1>2, TapeOf DEF Containers
<1> HIDE DEF t, c, k, len
<1>4. k \in 0 .. len - 1
  BY <1>1, <1>2
<1>5. /\ c[0] = n + 1 /\ c[len] = After(t, n) /\ c[k] \in DOMAIN t
      /\ t[n].t = "list" => c[k + 1] = After(t, c[k])
      /\ t[n].t = "dict" => /\ t[c[k]].t = "str" /\ c[k] + 1 \in DOMAIN t
                            /\ c[k + 1] = After(t, c[k] + 1)
  BY <1>3, <1>4 DEF Children, len
<1>6. c[k] \in Nat /\ c[k] + 0 = c[k] /\ p.len = len
  BY <1>1, <1>3, <1>5
<1>7. CASE p.isList
  <2>1. m = c[k] /\ t[n].t = "list" /\ p.key = Nil
    BY <1>1, <1>2, <1>6, <1>7
  <2> QED BY <1>1, <1>2, <1>5, <1>6, <1>7, <2>1 DEF t, c, k, len
<1>8. CASE ~p.isList
  <2>1. t[n].t = "dict" /\ m = IF p.key = Nil THEN c[k] ELSE c[k] + 1
    BY <1>1, <1>6, <1>8
  <2> QED BY <1>1, <1>2, <1>5, <1>6, <1>8, <2>1 DEF t, c, k, len
<1> QED BY <1>7, <1>8

LEMMA ReadsStart ==
  ASSUME NEW t
  PROVE  Reads(t, <<>>, 1) /\ \A m : Reads(t, <<>>, m) => m = 1
<1>1. Layout(t, <<>>, <<1>>)
  BY DEF Layout
<1>2. <<1>>[Len(<<1>>)] = 1
  OBVIOUS
<1>3. ASSUME NEW m, NEW st, Layout(t, <<>>, st), st[Len(st)] = m PROVE m = 1
  BY <1>3 DEF Layout
<1> QED BY <1>1, <1>2, <1>3 DEF Reads

(* A container is opened at the node that is read.                         *)
LEMMA ReadsPush ==
  ASSUME NEW t, NEW b \in Seq(Partial), NEW n, Reads(t, b, n),
         b = <<>> \/ Ready(b[Len(b)]),
         NEW p \in Partial, NEW m \in Nat, Fills(t, n, p, m)
  PROVE  Reads(t, Append(b, p), m)
<1>1. PICK st : Layout(t, b, st) /\ st[Len(st)] = n
  BY DEF Reads
<1> DEFINE k == Len(b)
           r == Append(b, p)
           s == Append(st, m)
<1>2. /\ k \in Nat /\ r \in Seq(Partial) /\ Len(r) = k + 1 /\ r[k + 1] = p
      /\ \A j \in 1 .. k : r[j] = b[j]
  BY Appended
<1>3. /\ st \in Seq(Nat) /\ Len(st) = k + 1 /\ st[1] = 1 /\ st[k + 1] = n
      /\ \A j \in 1 .. k : Fills(t, st[j], b[j], st[j + 1])
      /\ \A j \in 1 .. k - 1 : Ready(b[j])
  BY <1>1 DEF Layout
<1>4. /\ s \in Seq(Nat) /\ Len(s) = k + 2 /\ s[k + 2] = m
      /\ \A j \in 1 .. k + 1 : s[j] = st[j]
  BY <1>2, <1>3, Appended
<1>0. b = <<>> <=> k = 0
  OBVIOUS
<1> HIDE DEF r, s, k
<1>5. ASSUME NEW j \in 1 .. k + 1 PROVE Fills(t, s[j], r[j], s[j + 1])
  <2>1. CASE j = k + 1
    BY <1>2, <1>3, <1>4, <2>1
  <2>2. CASE j # k + 1
    <3>1. j \in 1 .. k /\ j + 1 \in 1 .. k + 1 /\ j \in 1 .. k + 1
      BY <1>2, <2>2
    <3> QED BY <1>2, <1>3, <1>4, <3>1
  <2> QED BY <2>1, <2>2
<1>6. ASSUME NEW j \in 1 .. k PROVE Ready(r[j])
  <2>1. CASE j = k
    BY <1>0, <1>2, <2>1 DEF k
  <2>2. CASE j # k
    <3>1. j \in 1 .. k - 1
      BY <1>2, <2>2
    <3> QED BY <1>2, <1>3, <3>1
  <2> QED BY <2>1, <2>2
<1>7. s[1] = 1 /\ (k + 1) - 1 = k /\ Len(s) = Len(r) + 1
  BY <1>2, <1>3, <1>4
<1>8. Layout(t, r, s)
  BY <1>2, <1>4, <1>5, <1>6, <1>7 DEF Layout
<1> QED BY <1>4, <1>8 DEF Reads, r

LEMMA ReadsPop ==
  ASSUME NEW t, NEW b \in Seq(Partial), NEW p \in Partial, NEW m, Reads(t, Append(b, p), m)
  PROVE  /\ b = <<>> \/ Ready(b[Len(b)])
         /\ \E n : Reads(t, b, n) /\ Fills(t, n, p, m)
<1> DEFINE k == Len(b)
           r == Append(b, p)
<1>1. PICK s : Layout(t, r, s) /\ s[Len(s)] = m
  BY DEF Reads
<1>2. /\ k \in Nat /\ r \in Seq(Partial) /\ Len(r) = k + 1 /\ r[k + 1] = p
      /\ \A j \in 1 .. k : r[j] = b[j]
  BY Appended
<1>0. b = <<>> <=> k = 0
  OBVIOUS
<1> HIDE DEF r, k
<1>3. /\ s \in Seq(Nat) /\ Len(s) = k + 2 /\ s[1] = 1 /\ s[k + 2] = m
      /\ \A j \in 1 .. k + 1 : Fills(t, s[j], r[j], s[j + 1])
      /\ \A j \in 1 .. k : Ready(r[j])
  <2>1. s \in Seq(Nat) /\ Len(s) = Len(r) + 1 /\ s[1] = 1
    BY <1>1 DEF Layout
  <2>2. Len(s) = k + 2 /\ Len(r) - 1 = k
    BY <1>2, <2>1
  <2> QED BY <1>1, <1>2, <2>1, <2>2 DEF Layout
<1> DEFINE st == SubSeq(s, 1, Len(s) - 1)
<1>4. st \in Seq(Nat) /\ Len(st) = k + 1 /\ \A j \in 1 .. k + 1 : st[j] = s[j]
  <2>1. s # <<>>
    BY <1>2, <1>3
  <2>2. /\ st \in Seq(Nat) /\ Len(st) = Len(s) - 1
        /\ \A j \in 1 .. Len(s) - 1 : st[j] = s[j]
    BY <1>3, <2>1, FrontOf
  <2>3. Len(s) - 1 = k + 1
    BY <1>2, <1>3
  <2> QED BY <2>2, <2>3
<1> HIDE DEF st
<1>5. ASSUME NEW j \in 1 .. k PROVE Fills(t, st[j], b[j], st[j + 1])
  <2>1. j \in 1 .. k + 1 /\ j + 1 \in 1 .. k + 1
    BY <1>2
  <2> QED BY <1>2, <1>3, <1>4, <2>1
<1>6. \A j \in 1 .. k - 1 : Ready(b[j])
  <2>1. \A j \in 1 .. k - 1 : j \in 1 .. k
    BY <1>2
  <2> QED BY <1>2, <1>3, <2>1
<1>7. st[1] = 1 /\ k + 1 \in 1 .. k + 1
  BY <1>2, <1>3, <1>4
<1>8. Layout(t, b, st)
  BY <1>4, <1>5, <1>6, <1>7 DEF Layout, k
<1>9. Reads(t, b, st[k + 1])
  BY <1>4, <1>8 DEF Reads
<1>10. Fills(t, st[k + 1], p, m)
  <2>1. (k + 1) + 1 = k + 2
    BY <1>2
  <2> QED BY <1>2, <1>3, <1>4, <1>7, <2>1
<1>11. b = <<>> \/ Ready(b[Len(b)])
  <2>1. k = 0 \/ k \in 1 .. k
    BY <1>2
  <2> QED BY <1>0, <1>2, <1>3, <2>1 DEF k
<1> QED BY <1>9, <1>10, <1>11
-----------------------------------------------------------------------------
(* The state. *)

LEMMA OnTop ==
  ASSUME TypeInv, StageInv, calls # <<>>
  PROVE  /\ Len(calls) \in 1 .. Len(calls) /\ Top \in Frame /\ FrameOK(Top)
         /\ borrowed <=> Top.pc \in Building
         /\ val # Nil <=> Top.pc = "insert"
         /\ Top.pc # "return" => Top.result = Nil
<1>1. Len(calls) \in 1 .. Len(calls) /\ Top \in Frame
  BY DEF TypeInv, Top
<1>2. FrameOK(Top)
  BY <1>1 DEF StageInv, Top
<1> QED BY <1>1, <1>2 DEF StageInv, At, FrameOK

(* The innermost container and those around it.                            *)
LEMMA Innermost ==
  ASSUME TypeInv, WaitInv, partials # <<>>
  PROVE  /\ Len(partials) \in 1 .. Len(partials) /\ Part \in Partial /\ Waits(Part)
         /\ Below \in Seq(Partial) /\ Len(Below) = Len(partials) - 1
         /\ \A k \in 1 .. Len(Below) : Below[k] = partials[k]
         /\ partials = Append(Below, Part)
<1>1. Len(partials) \in 1 .. Len(partials) /\ Part \in Partial /\ Waits(Part)
  BY DEF TypeInv, WaitInv, Part
<1>2. /\ Below \in Seq(Partial) /\ Len(Below) = Len(partials) - 1
      /\ \A k \in 1 .. Len(partials) - 1 : Below[k] = partials[k]
  BY FrontOf DEF TypeInv, Below
<1> DEFINE q == Append(Below, Part)
<1>3. /\ q \in Seq(Partial) /\ Len(q) = Len(Below) + 1 /\ q[Len(Below) + 1] = Part
      /\ \A k \in 1 .. Len(Below) : q[k] = Below[k]
  BY <1>1, <1>2, Appended
<1> HIDE DEF q
<1>4. partials \in Seq(Partial) /\ Len(partials) \in Nat
  BY DEF TypeInv
<1>5. Len(q) = Len(partials) /\ \A k \in 1 .. Len(partials) : q[k] = partials[k]
  BY <1>1, <1>2, <1>3, <1>4 DEF Part
<1>6. q = partials
  BY <1>3, <1>4, <1>5, SeqEqual
<1> QED BY <1>1, <1>2, <1>6 DEF q

LEMMA KeySet ==
  ASSUME TypeInv, WaitInv, partials # <<>>, NEW o \in Objects, SetKey(o)
  PROVE  partials' = Append(Below, [Part EXCEPT !.key = o])
<1> DEFINE p == [Part EXCEPT !.key = o]
           m == Len(partials)
           q == Append(Below, p)
           r == [partials EXCEPT ![m] = p]
<1>1. p \in Partial /\ Part \in Partial
  BY Innermost DEF Partial
<1>2. partials \in Seq(Partial)
  BY DEF TypeInv
<1>3. partials' = r
  BY DEF SetKey, Part
<1>4. /\ r \in Seq(Partial) /\ Len(r) = m /\ r[m] = p
      /\ \A k \in 1 .. m - 1 : r[k] = partials[k]
  BY <1>1, <1>2, Replaced
<1>5. m \in 1 .. m /\ Below \in Seq(Partial) /\ Len(Below) = m - 1
      /\ \A k \in 1 .. m - 1 : Below[k] = partials[k]
  BY Innermost
<1> HIDE DEF p, r, m
<1>6. /\ q \in Seq(Partial) /\ Len(q) = Len(Below) + 1 /\ q[Len(Below) + 1] = p
      /\ \A k \in 1 .. Len(Below) : q[k] = Below[k]
  BY <1>1, <1>5, Appended
<1> HIDE DEF q
<1>7. Len(q) = Len(r) /\ \A k \in 1 .. Len(q) : q[k] = r[k]
  BY <1>4, <1>5, <1>6, SMTT(60)
<1>8. q = r
  BY <1>4, <1>6, <1>7, SeqEqual
<1> QED BY <1>3, <1>8 DEF q, p

(* While it builds, a call is at a node of its tape, and at a name where a *)
(* name is due.                                                            *)
LEMMA Reading ==
  ASSUME TypeInv, StageInv, WaitInv, TapeInv, At("build")
  PROVE  /\ calls # <<>> /\ Top.doc \in DOMAIN Tape /\ i \in DOMAIN Tape[Top.doc]
         /\ AwaitsKey => Node.t = "str" /\ i + 1 \in DOMAIN Tape[Top.doc]
<1>1. calls # <<>> /\ Top.doc \in DOMAIN Tape
  BY OnTop DEF At, FrameOK, Building
<1> DEFINE t == Tape[Top.doc]
<1>2. Reads(t, partials, i)
  BY DEF TapeInv
<1>3. CASE partials = <<>>
  <2>1. i = 1 /\ ~AwaitsKey
    BY <1>2, <1>3, ReadsStart DEF AwaitsKey
  <2> QED BY <1>1, <2>1, TapeOf
<1>4. CASE partials # <<>>
  <2>1. Part \in Partial /\ Waits(Part) /\ Below \in Seq(Partial) /\ partials = Append(Below, Part)
    BY <1>4, Innermost
  <2>2. PICK n : Fills(t, n, Part, i)
    BY <1>2, <2>1, ReadsPop
  <2>3. i \in DOMAIN t /\ (~Part.isList /\ Part.key = Nil => t[i].t = "str" /\ i + 1 \in DOMAIN t)
    BY <1>1, <2>1, <2>2, NextKid
  <2> QED BY <1>1, <2>3 DEF AwaitsKey, Node
<1> QED BY <1>3, <1>4

(* Room for an object: it is one that nobody refers to.                    *)
LEMMA FreshIs ==
  ASSUME TypeInv, CountInv, Room
  PROVE  /\ Fresh \in Objects /\ ~Used(Fresh) /\ owned[Fresh] = 0 /\ Holders(Fresh) = 0
         /\ Fresh \notin DOMAIN Singletons /\ Fresh # Nil
<1> DEFINE T == {o \in Objects : heap[o] = Unused}
<1>1. T \subseteq Nat /\ T # {}
  BY LoadsAssumption DEF Objects, Room
<1>2. \E o \in T : \A q \in T : o <= q
  <2> HIDE DEF T
  <2> QED BY <1>1, LeastNumber
<1>3. \E o \in Objects : heap[o] = Unused /\ \A q \in Objects : heap[q] = Unused => o <= q
  BY <1>2
<1>4. Fresh \in Objects /\ heap[Fresh] = Unused
  BY <1>3 DEF Fresh
<1>5. ~Used(Fresh)
  <2>1. Unused.t = "unused"
    BY DEF Unused
  <2> QED BY <1>4, <2>1 DEF Used
<1>6. ~(owned[Fresh] > 0) /\ Fresh \notin DOMAIN Singletons /\ owned[Fresh] = Holders(Fresh)
  BY <1>4, <1>5 DEF CountInv
<1>7. owned[Fresh] \in Nat
  BY <1>4 DEF TypeInv
<1> QED BY <1>4, <1>5, <1>6, <1>7, SingletonsIn
(* The innermost call goes on as f.                                        *)
LEMMA GoesOnAs ==
  ASSUME TypeInv, StageInv, calls # <<>>, NEW f \in Frame, FrameOK(f), Goto(f),
         borrowed' <=> f.pc \in Building, ~borrowed' => partials' = <<>>,
         val' # Nil <=> f.pc = "insert"
  PROVE  /\ calls' \in Seq(Frame) /\ Len(calls') = Len(calls) /\ calls' # <<>>
         /\ Top' = f /\ StageInv' /\ \A pc : At(pc)' <=> f.pc = pc
<1> DEFINE m == Len(calls)
           r == [calls EXCEPT ![m] = f]
<1>1. calls \in Seq(Frame) /\ m \in 1 .. m /\ m \in Nat
  BY OnTop DEF TypeInv
<1>2. /\ r \in Seq(Frame) /\ Len(r) = m /\ r # <<>> /\ r[m] = f
      /\ \A k \in 1 .. m - 1 : r[k] = calls[k]
  BY <1>1, Replaced
<1>3. calls' = r
  BY DEF Goto
<1> HIDE DEF r, m
<1>4. Top' = f /\ Len(calls') = m
  BY <1>2, <1>3 DEF Top
<1>5. \A pc : At(pc)' <=> f.pc = pc
  BY <1>2, <1>3, <1>4 DEF At
<1>6. \A n \in 1 .. m : FrameOK(calls'[n])
  <2>1. \A n \in 1 .. m : n = m \/ n \in 1 .. m - 1
    BY <1>1
  <2>2. \A n \in 1 .. m - 1 : n \in 1 .. m
    BY <1>1
  <2> QED BY <1>2, <1>3, <2>1, <2>2 DEF StageInv, m
<1>7. \A n \in 1 .. m - 1 : Suspended(calls'[n])
  BY <1>2, <1>3 DEF StageInv, m
<1>8. StageInv'
  <2>1. FrameOK(f)' <=> FrameOK(f)
    BY DEF FrameOK
  <2>2. /\ \A n \in 1 .. Len(calls') : FrameOK(calls'[n])
        /\ \A n \in 1 .. Len(calls') - 1 : Suspended(calls'[n])
    BY <1>4, <1>6, <1>7
  <2>3. borrowed' <=> calls' # <<>> /\ Top'.pc \in Building
    BY <1>2, <1>3, <1>4
  <2> QED BY <1>5, <2>2, <2>3 DEF StageInv
<1> QED BY <1>2, <1>3, <1>4, <1>5, <1>8 DEF m

(* The columns, which add up before a step and after it.                   *)
Columns(o) ==
  /\ owned[o] \in Nat /\ Equals(val, o) \in Nat
  /\ InPartials(partials, o) \in Nat /\ InCache(cache, o) \in Nat
  /\ InCalls(calls, o) \in Nat /\ InResults(results, o) \in Nat

SumOf(o) ==
  InPartials(partials, o) + InCache(cache, o) + InCalls(calls, o) + InResults(results, o)
    + Equals(val, o)

LEMMA AddUp ==
  ASSUME TypeInv, CountInv, NEW o \in Objects
  PROVE  Columns(o) /\ owned[o] = SumOf(o)
<1>1. /\ partials \in Seq(Partial) /\ calls \in Seq(Frame) /\ results \in Seq(Docs \X Objects)
      /\ owned[o] \in Nat
  BY DEF TypeInv
<1>2. /\ InPartials(partials, o) \in Nat /\ InCalls(calls, o) \in Nat
      /\ InResults(results, o) \in Nat /\ InCache(cache, o) \in Nat
  BY <1>1, InNat
<1>0. Equals(val, o) \in Nat
  BY EqualsIs
<1>3. owned[o] = Holders(o)
  BY DEF CountInv
<1>4. /\ DOMAIN partials = 1 .. Len(partials) /\ DOMAIN calls = 1 .. Len(calls)
      /\ DOMAIN results = 1 .. Len(results)
  BY <1>1
<1>5. Holders(o) = SumOf(o)
  BY <1>4, HoldersAre DEF SumOf
<1> QED BY <1>0, <1>1, <1>2, <1>3, <1>5 DEF Columns

LEMMA AddUpNext ==
  ASSUME partials' \in Seq(Partial), calls' \in Seq(Frame), results' \in Seq(Docs \X Objects), NEW o
  PROVE  /\ Holders(o)' = SumOf(o)' /\ SumOf(o)' \in Nat
         /\ InPartials(partials', o) \in Nat /\ InCache(cache', o) \in Nat
         /\ InCalls(calls', o) \in Nat /\ InResults(results', o) \in Nat /\ Equals(val', o) \in Nat
<1>1. /\ InPartials(partials', o) \in Nat /\ InCalls(calls', o) \in Nat
      /\ InResults(results', o) \in Nat /\ InCache(cache', o) \in Nat
  BY InNat
<1>2. Equals(val', o) \in Nat
  BY EqualsIs
<1>3. Holders(o)' = InPartials(partials', o) + InCache(cache', o) + InCalls(calls', o)
                      + InResults(results', o) + Equals(val', o)
  <2>1. /\ {n \in DOMAIN partials' : partials'[n].obj = o} = {n \in 1 .. Len(partials') : Objs(partials')[n] = o}
        /\ {n \in DOMAIN partials' : partials'[n].key = o} = {n \in 1 .. Len(partials') : Keys(partials')[n] = o}
    <3>1. DOMAIN partials' = 1 .. Len(partials')
      OBVIOUS
    <3> QED BY <3>1 DEF Objs, Keys
  <2>2. {n \in DOMAIN calls' : calls'[n].result = o} = {n \in 1 .. Len(calls') : Given(calls')[n] = o}
    <3>1. DOMAIN calls' = 1 .. Len(calls')
      OBVIOUS
    <3> QED BY <3>1 DEF Given
  <2>3. {n \in DOMAIN results' : results'[n][2] = o} = {n \in 1 .. Len(results') : Kept(results')[n] = o}
    <3>1. DOMAIN results' = 1 .. Len(results')
      OBVIOUS
    <3> QED BY <3>1 DEF Kept
  <2>4. {s \in Slots : cache'[s].key = o} = {s \in Slots : Entries(cache')[s] = o}
    BY DEF Entries
  <2> QED BY <2>1, <2>2, <2>3, <2>4 DEF Holders, Places, InPartials, InCache, InCalls, InResults, Equals
<1>4. Holders(o)' = SumOf(o)'
  BY <1>3 DEF SumOf
<1> HIDE DEF Holders
<1>5. SumOf(o)' \in Nat
  BY ONLY <1>1, <1>2 DEF SumOf
<1> QED BY <1>1, <1>2, <1>4, <1>5

LEMMA Exact ==
  ASSUME TypeInv, TypeInv', CountInv, NEW o \in Objects
  PROVE  Columns(o) /\ Columns(o)' /\ owned[o] = SumOf(o) /\ Holders(o)' = SumOf(o)'
<1>1. /\ partials' \in Seq(Partial) /\ calls' \in Seq(Frame) /\ results' \in Seq(Docs \X Objects)
      /\ owned'[o] \in Nat
  BY DEF TypeInv
<1>2. Columns(o) /\ owned[o] = SumOf(o)
  BY AddUp
<1> QED BY <1>1, <1>2, AddUpNext DEF Columns

(* The counts after a step are natural numbers when they are exact.        *)
LEMMA Recounted ==
  ASSUME partials' \in Seq(Partial), calls' \in Seq(Frame), results' \in Seq(Docs \X Objects),
         owned' \in [Objects -> Int], \A o \in Objects : owned'[o] = SumOf(o)'
  PROVE  owned' \in [Objects -> Nat] /\ \A o \in Objects : owned'[o] = Holders(o)'
<1>1. \A o \in Objects : SumOf(o)' \in Nat /\ Holders(o)' = SumOf(o)'
  BY AddUpNext
<1>2. \A o \in Objects : owned'[o] \in Nat
  BY <1>1
<1> QED BY <1>1, <1>2

LEMMA OneLess ==
  ASSUME NEW w \in [Objects -> Int], NEW x \in Objects
  PROVE  LET u == [w EXCEPT ![x] = @ - 1] IN
         u \in [Objects -> Int] /\ \A o \in Objects : u[o] = w[o] - Equals(x, o)
<1>1. \A o \in Objects : Equals(x, o) = IF x = o THEN 1 ELSE 0
  BY DEF Equals
<1> QED BY <1>1

LEMMA OneMore ==
  ASSUME NEW w \in [Objects -> Int], NEW x \in Objects
  PROVE  LET u == [w EXCEPT ![x] = @ + 1] IN
         u \in [Objects -> Int] /\ \A o \in Objects : u[o] = w[o] + Equals(x, o)
<1>1. \A o \in Objects : Equals(x, o) = IF x = o THEN 1 ELSE 0
  BY DEF Equals
<1> QED BY <1>1

(* A step that moves the innermost call, and what it builds not at all.    *)
LEMMA Turns ==
  ASSUME Inv, calls # <<>>, NEW f \in Frame, FrameOK(f), Goto(f),
         Top.pc \notin {"insert", "return"}, f.pc # "insert", f.result = Nil,
         borrowed' \in BOOLEAN, borrowed' <=> f.pc \in Building,
         f.pc \in Building \/ partials = <<>>,
         i' \in Nat, left' \in 0 .. MaxCalls, failures' \in 0 .. MaxFailures,
         UNCHANGED <<partials, val, cache, heap, owned, results>>
  PROVE  /\ TypeInv' /\ StageInv' /\ WaitInv' /\ CountInv'
         /\ Top' = f
         /\ f.pc # "build" => TapeInv'
<1> USE DEF Inv
<1>1. val = Nil /\ Top.result = Nil /\ calls \in Seq(Frame)
  BY OnTop DEF TypeInv
<1>2. /\ calls' \in Seq(Frame) /\ Len(calls') = Len(calls) /\ calls' # <<>>
      /\ Top' = f /\ StageInv' /\ \A pc : At(pc)' <=> f.pc = pc
  <2>1. borrowed' <=> f.pc \in Building
    OBVIOUS
  <2>2. ~borrowed' => partials' = <<>>
    BY <2>1
  <2>3. val' # Nil <=> f.pc = "insert"
    BY <1>1
  <2> QED BY <2>1, <2>2, <2>3, GoesOnAs
<1>3. TypeInv'
  BY <1>2 DEF TypeInv
<1>4. WaitInv'
  BY DEF WaitInv
<1>5. TapeInv' \/ f.pc = "build"
  BY <1>2 DEF TapeInv
<1>6. ASSUME NEW o \in Objects PROVE owned'[o] = Holders(o)'
  <2>1. InCalls(calls', o) + Equals(Top.result, o) = InCalls(calls, o) + Equals(f.result, o)
    <3>1. calls' = [calls EXCEPT ![Len(calls)] = f]
      BY DEF Goto
    <3> QED BY <1>1, <3>1, SetCall DEF Top
  <2>2. InCalls(calls', o) = InCalls(calls, o)
    <3>1. Equals(Top.result, o) = Equals(f.result, o) /\ Equals(f.result, o) \in Nat
      BY <1>1, EqualsIs
    <3>2. InCalls(calls, o) \in Nat /\ InCalls(calls', o) \in Nat
      BY <1>3, Exact DEF Columns
    <3> HIDE DEF Inv
    <3> QED BY ONLY <2>1, <3>1, <3>2
  <2> QED BY <1>3, <2>2, Exact DEF SumOf
<1>7. CountInv'
  BY <1>6 DEF CountInv, Used
<1> QED BY <1>2, <1>3, <1>4, <1>5, <1>7
(* No call builds.                                                         *)
LEMMA Idle ==
  ASSUME TypeInv, StageInv, calls = <<>> \/ Top.pc \notin Building
  PROVE  ~borrowed /\ partials = <<>>
BY DEF StageInv

-----------------------------------------------------------------------------
(* The steps that move only the innermost call. *)

LEMMA EncodeFailsKeeps ==
  ASSUME Inv, EncodeFails
  PROVE  Inv'
<1> DEFINE f == [Top EXCEPT !.pc = "raise", !.utf8 = FALSE]
<1>1. /\ calls # <<>> /\ Top.pc = "run" /\ Top.source = "str" /\ Goto(f)
      /\ failures > 0 /\ failures' = failures - 1
  BY DEF EncodeFails, At
<1>2. Top \in Frame /\ FrameOK(Top) /\ ~borrowed /\ partials = <<>>
  BY <1>1, OnTop, Idle DEF Inv, Building
<1>3. f \in Frame /\ FrameOK(f) /\ f.pc = "raise" /\ f.result = Nil
  BY <1>1, <1>2 DEF Frame, PCs, FrameOK, Fault, Unencoded, Building
<1>4. failures' \in 0 .. MaxFailures
  BY <1>1, LoadsAssumption, SMTT(60) DEF Inv, TypeInv
<1> HIDE DEF f
<1> QED BY <1>1, <1>2, <1>3, <1>4, Turns DEF Inv, TypeInv, EncodeFails, builder, Building

LEMMA BlankKeeps ==
  ASSUME Inv, Blank
  PROVE  Inv'
<1> DEFINE f == [Top EXCEPT !.pc = "raise"]
<1>1. calls # <<>> /\ Top.pc = "run" /\ Top.doc = BlankDoc /\ Goto(f)
  BY DEF Blank, At
<1>2. Top \in Frame /\ FrameOK(Top) /\ ~borrowed /\ partials = <<>> /\ BlankDoc \notin DOMAIN Tape
  BY <1>1, OnTop, Idle, LoadsAssumption DEF Inv, Building
<1>3. f \in Frame /\ FrameOK(f) /\ f.pc = "raise" /\ f.result = Nil
  BY <1>1, <1>2 DEF Frame, PCs, FrameOK, Fault, Unencoded, Building
<1> HIDE DEF f
<1> QED BY <1>1, <1>2, <1>3, Turns DEF Inv, TypeInv, Blank, bounds, builder, Building

LEMMA RejectKeeps ==
  ASSUME Inv, Reject
  PROVE  Inv'
<1> DEFINE f == [Top EXCEPT !.pc = "raise"]
<1>1. calls # <<>> /\ Top.pc = "run" /\ Top.doc = RejectedDoc /\ Goto(f)
  BY DEF Reject, At
<1>2. Top \in Frame /\ FrameOK(Top) /\ ~borrowed /\ partials = <<>> /\ RejectedDoc \notin DOMAIN Tape
  BY <1>1, OnTop, Idle, LoadsAssumption DEF Inv, Building
<1>3. f \in Frame /\ FrameOK(f) /\ f.pc = "raise" /\ f.result = Nil
  BY <1>1, <1>2 DEF Frame, PCs, FrameOK, Fault, Unencoded, Building
<1> HIDE DEF f
<1> QED BY <1>1, <1>2, <1>3, Turns DEF Inv, TypeInv, Reject, bounds, builder, Building

LEMMA ParseKeeps ==
  ASSUME Inv, Parse
  PROVE  Inv'
<1> DEFINE f == [Top EXCEPT !.pc = "build"]
<1>1. /\ calls # <<>> /\ Top.pc = "run" /\ Top.doc \in DOMAIN Tape /\ Goto(f)
      /\ borrowed' = TRUE /\ i' = 1 /\ partials' = <<>> /\ val' = Nil
  BY DEF Parse, At
<1>2. Top \in Frame /\ FrameOK(Top) /\ ~borrowed /\ partials = <<>> /\ val = Nil
  BY <1>1, OnTop, Idle DEF Inv, Building
<1>3. f \in Frame /\ FrameOK(f) /\ f.pc = "build" /\ f.result = Nil
  BY <1>1, <1>2 DEF Frame, PCs, FrameOK, Fault, Unencoded, Building
<1> HIDE DEF f
<1>4. TypeInv' /\ StageInv' /\ WaitInv' /\ CountInv' /\ Top' = f
  BY <1>1, <1>2, <1>3, Turns DEF Inv, TypeInv, Parse, bounds, Building
<1>5. Reads(Tape[f.doc], partials', i')
  BY <1>1, ReadsStart
<1>6. TapeInv'
  BY <1>3, <1>4, <1>5 DEF TapeInv, At
<1> QED BY <1>4, <1>6 DEF Inv

LEMMA FailsKeeps ==
  ASSUME Inv, KeyFails \/ NodeFails
  PROVE  Inv'
<1> DEFINE f == [Top EXCEPT !.pc = "unwind", !.exc = "memory"]
<1>1. /\ calls # <<>> /\ Top.pc = "build" /\ Goto(f)
      /\ failures > 0 /\ failures' = failures - 1 /\ i' = i + 1
  BY DEF KeyFails, NodeFails, Fails, At
<1>2. Top \in Frame /\ FrameOK(Top) /\ (borrowed <=> Top.pc \in Building)
  BY <1>1, OnTop DEF Inv
<1>3. f \in Frame /\ FrameOK(f) /\ f.pc = "unwind" /\ f.result = Nil
  BY <1>1, <1>2 DEF Frame, PCs, Exceptions, FrameOK, Fault, Unencoded, Building
<1>4. i' \in Nat /\ failures' \in 0 .. MaxFailures /\ left \in 0 .. MaxCalls /\ borrowed \in BOOLEAN
  BY <1>1, LoadsAssumption, SMTT(60) DEF Inv, TypeInv
<1>5. UNCHANGED <<borrowed, partials, val, cache, heap, owned, results, left>>
  BY DEF KeyFails, NodeFails
<1> HIDE DEF f
<1> QED BY <1>1, <1>2, <1>3, <1>4, <1>5, Turns DEF Inv, Building

LEMMA UnwoundKeeps ==
  ASSUME Inv, Unwound
  PROVE  Inv'
<1> DEFINE f == [Top EXCEPT !.pc = "return"]
<1>1. calls # <<>> /\ Top.pc = "unwind" /\ partials = <<>> /\ Goto(f) /\ borrowed' = FALSE
  BY DEF Unwound, At
<1>2. Top \in Frame /\ FrameOK(Top)
  BY <1>1, OnTop DEF Inv
<1>3. f \in Frame /\ FrameOK(f) /\ f.pc = "return" /\ f.result = Nil
  BY <1>1, <1>2 DEF Frame, PCs, FrameOK, Fault, Unencoded, Building
<1> HIDE DEF f
<1> QED BY <1>1, <1>2, <1>3, Turns DEF Inv, TypeInv, Unwound, bounds, builder, Building

LEMMA RaiseFailsKeeps ==
  ASSUME Inv, RaiseFails
  PROVE  Inv'
<1> DEFINE f == [Top EXCEPT !.pc = "return", !.exc = "memory"]
<1>1. calls # <<>> /\ Top.pc = "raise" /\ Goto(f) /\ failures > 0 /\ failures' = failures - 1
  BY DEF RaiseFails, At
<1>2. Top \in Frame /\ FrameOK(Top) /\ ~borrowed /\ partials = <<>>
  BY <1>1, OnTop, Idle DEF Inv, Building
<1>3. f \in Frame /\ FrameOK(f) /\ f.pc = "return" /\ f.result = Nil
  BY <1>1, <1>2 DEF Frame, PCs, Exceptions, FrameOK, Fault, Unencoded, Building
<1>4. failures' \in 0 .. MaxFailures
  BY <1>1, LoadsAssumption, SMTT(60) DEF Inv, TypeInv
<1> HIDE DEF f
<1> QED BY <1>1, <1>2, <1>3, <1>4, Turns DEF Inv, TypeInv, RaiseFails, builder, Building

LEMMA MissingArgs ==
  ASSUME NEW made \in SUBSET {"msg", "pos"}
  PROVE  2 - Cardinality(made) \in Nat
<1> DEFINE S == {"msg", "pos"}
<1>1. IsFiniteSet(S) /\ Cardinality(S) = 2
  <2>1. S = {"msg"} \cup {"pos"} /\ "pos" \notin {"msg"}
    OBVIOUS
  <2>2. IsFiniteSet({"msg"}) /\ Cardinality({"msg"}) = 1
    BY FS_Singleton
  <2> QED BY <2>1, <2>2, FS_AddElement
<1>2. made \in SUBSET S
  OBVIOUS
<1> HIDE DEF S
<1>3. Cardinality(made) \in Nat /\ Cardinality(made) <= Cardinality(S)
  BY <1>1, <1>2, FS_Subset, FS_CardinalityType
<1> QED BY <1>1, <1>3

LEMMA RaiseArgsKeeps ==
  ASSUME Inv, RaiseArgs
  PROVE  Inv'
<1>1. /\ calls # <<>> /\ Top.pc = "raise"
      /\ UNCHANGED <<borrowed, i, partials, val, cache, heap, owned, results, left>>
  BY DEF RaiseArgs, At, builder
<1>2. Top \in Frame /\ FrameOK(Top) /\ ~borrowed /\ partials = <<>>
  BY <1>1, OnTop, Idle DEF Inv, Building
<1> DEFINE As(made, missing) ==
             [Top EXCEPT !.args = made \cup {"doc"},
                         !.pc  = IF missing = 0 THEN "python" ELSE "release",
                         !.exc = IF missing = 0 THEN "none" ELSE "memory"]
<1>3. PICK made \in SUBSET {"msg", "pos"} :
        /\ 2 - Cardinality(made) <= failures /\ failures' = failures - (2 - Cardinality(made))
        /\ Goto(As(made, 2 - Cardinality(made)))
  BY DEF RaiseArgs
<1> DEFINE missing == 2 - Cardinality(made)
           f == As(made, missing)
<1>4. missing \in Nat
  BY MissingArgs
<1>5. Goto(f) /\ failures' \in 0 .. MaxFailures
  <2> HIDE DEF As
  <2>1. Goto(f) /\ failures' = failures - missing /\ missing <= failures
    BY <1>3
  <2> HIDE DEF missing, f
  <2> QED BY <1>4, <2>1, LoadsAssumption DEF Inv, TypeInv
<1> HIDE DEF missing
<1>6. /\ f \in Frame /\ f.result = Top.result /\ f.source = Top.source /\ f.doc = Top.doc
      /\ f.utf8 = Top.utf8
      /\ \/ f.pc = "python" /\ f.exc = "none"
         \/ f.pc = "release" /\ f.exc = "memory"
  BY <1>2 DEF Frame, PCs, Exceptions
<1> HIDE DEF f
<1>7. FrameOK(f) /\ f.result = Nil /\ f.pc \notin Building /\ f.pc # "insert"
  BY <1>1, <1>2, <1>6 DEF FrameOK, Fault, Unencoded, Building
<1>8. f.pc # "build"
  BY <1>6
<1> QED BY <1>1, <1>2, <1>5, <1>6, <1>7, <1>8, Turns DEF Inv, TypeInv

LEMMA RaisedKeeps ==
  ASSUME Inv, Raised
  PROVE  Inv'
<1>1. calls # <<>> /\ Top.pc = "python"
  BY DEF Raised, At
<1>2. PICK e \in {"decode", "python"} : Goto([Top EXCEPT !.pc = "release", !.exc = e])
  BY DEF Raised
<1> DEFINE f == [Top EXCEPT !.pc = "release", !.exc = e]
<1>3. Top \in Frame /\ FrameOK(Top) /\ ~borrowed /\ partials = <<>>
  BY <1>1, OnTop, Idle DEF Inv, Building
<1>4. f \in Frame /\ FrameOK(f) /\ f.pc = "release" /\ f.result = Nil
  BY <1>1, <1>3 DEF Frame, PCs, Exceptions, FrameOK, Fault, Unencoded, Building
<1>5. Goto(f)
  BY <1>2
<1> HIDE DEF f
<1> QED BY <1>1, <1>3, <1>4, <1>5, Turns DEF Inv, TypeInv, Raised, bounds, builder, Building

LEMMA ReleaseArgsKeeps ==
  ASSUME Inv, ReleaseArgs
  PROVE  Inv'
<1> DEFINE f == [Top EXCEPT !.pc = "return", !.args = {}]
<1>1. calls # <<>> /\ Top.pc = "release" /\ Goto(f)
  BY DEF ReleaseArgs, At
<1>2. Top \in Frame /\ FrameOK(Top) /\ ~borrowed /\ partials = <<>>
  BY <1>1, OnTop, Idle DEF Inv, Building
<1>3. f \in Frame /\ FrameOK(f) /\ f.pc = "return" /\ f.result = Nil
  BY <1>1, <1>2 DEF Frame, PCs, FrameOK, Fault, Unencoded, Building
<1> HIDE DEF f
<1> QED BY <1>1, <1>2, <1>3, Turns DEF Inv, TypeInv, ReleaseArgs, bounds, builder, Building

-----------------------------------------------------------------------------
(* Calls and returns, and the value of a finished build. *)

LEMMA CallKeeps ==
  ASSUME Inv, NEW s \in Arguments, NEW d \in Docs, s \in BadSources => d = BlankDoc, Call(s, d)
  PROVE  Inv'
<1> DEFINE g == [source |-> s, utf8 |-> s # "surrogates", doc |-> d, pc |-> "run",
                 exc |-> "none", result |-> Nil, args |-> {}, view |-> s = "memoryview"]
           f == CASE s = "strided" -> [g EXCEPT !.pc = "return", !.exc = "buffer"]
                  [] s \in {"surrogates", "other"} -> [g EXCEPT !.pc = "raise"]
                  [] OTHER -> g
<1>1. /\ RunsPython /\ left > 0 /\ Len(calls) < MaxNesting /\ left' = left - 1
      /\ calls' = Append(calls, f)
      /\ UNCHANGED <<borrowed, i, partials, val, cache, heap, owned, results, failures>>
  BY DEF Call, builder
<1>2. s \in Sources \cup BadSources
  BY LoadsAssumption
<1>3. g \in Frame
  BY <1>2 DEF Frame, PCs, Exceptions
<1>4. /\ f \in Frame /\ f.result = Nil /\ f.args = {} /\ f.source = s /\ f.doc = d
      /\ f.utf8 <=> s # "surrogates"
      /\ \/ f.pc = "return" /\ f.exc = "buffer" /\ s = "strided"
         \/ f.pc = "raise" /\ f.exc = "none" /\ s \in {"surrogates", "other"}
         \/ f.pc = "run" /\ f.exc = "none" /\ s \notin {"strided", "surrogates", "other"}
  <2>1. CASE s = "strided"
    <3>1. f = [g EXCEPT !.pc = "return", !.exc = "buffer"]
      BY <2>1
    <3> HIDE DEF f
    <3> QED BY <1>3, <2>1, <3>1 DEF Frame, PCs, Exceptions
  <2>2. CASE s \in {"surrogates", "other"}
    <3>1. f = [g EXCEPT !.pc = "raise"]
      BY <2>2
    <3> HIDE DEF f
    <3> QED BY <1>3, <2>2, <3>1 DEF Frame, PCs, Exceptions
  <2>3. CASE s \notin {"strided", "surrogates", "other"}
    <3>1. f = g
      BY <2>3
    <3> HIDE DEF f
    <3> QED BY <1>3, <2>3, <3>1
  <2> QED BY <2>1, <2>2, <2>3
<1> HIDE DEF f, g
<1>5. FrameOK(f) /\ f.pc \notin Building /\ f.pc # "insert"
  <2>1. s \in {"strided", "surrogates", "other"} <=> s \in BadSources
    BY DEF BadSources
  <2>2. s \in BadSources \/ s \in Sources
    BY <1>2
  <2> QED BY <1>4, <2>1, <2>2 DEF FrameOK, Fault, Unencoded, Building
<1>6. /\ calls \in Seq(Frame) /\ Len(calls) \in Nat
      /\ \A n \in 1 .. Len(calls) : FrameOK(calls[n])
      /\ \A n \in 1 .. Len(calls) - 1 : Suspended(calls[n])
  BY DEF Inv, TypeInv, StageInv
<1>7. /\ calls' \in Seq(Frame) /\ Len(calls') = Len(calls) + 1 /\ calls' # <<>>
      /\ calls'[Len(calls) + 1] = f /\ \A n \in 1 .. Len(calls) : calls'[n] = calls[n]
  BY <1>1, <1>4, <1>6, Appended
<1>8. /\ calls = <<>> \/ Top.pc \notin Building
      /\ calls # <<>> => Suspended(Top)
  BY <1>1 DEF RunsPython, Suspended, Building
<1>9. ~borrowed /\ partials = <<>> /\ val = Nil
  BY <1>8, Idle DEF Inv, StageInv, At, Building
<1>10. TypeInv'
  BY <1>1, <1>6, <1>7, LoadsAssumption DEF Inv, TypeInv
<1>11. Top' = f /\ \A pc : At(pc)' <=> f.pc = pc
  BY <1>7 DEF Top, At
<1>12. StageInv'
  <2>1. \A n \in 1 .. Len(calls') : FrameOK(calls'[n])
    <3>1. \A n \in 1 .. Len(calls') : n = Len(calls) + 1 \/ n \in 1 .. Len(calls)
      BY <1>6, <1>7
    <3> QED BY <1>5, <1>6, <1>7, <3>1
  <2>2. \A n \in 1 .. Len(calls') - 1 : Suspended(calls'[n])
    <3>1. \A n \in 1 .. Len(calls') - 1 : n \in 1 .. Len(calls) /\ (n = Len(calls) \/ n \in 1 .. Len(calls) - 1)
      BY <1>6, <1>7
    <3>2. calls # <<>> \/ Len(calls) = 0
      BY <1>6
    <3>3. \A n \in 1 .. Len(calls) : calls # <<>>
      BY <1>6
    <3> QED BY <1>6, <1>7, <1>8, <3>1, <3>3 DEF Top
  <2> QED BY <1>1, <1>5, <1>7, <1>9, <1>11, <2>1, <2>2 DEF StageInv
<1>13. ASSUME NEW o \in Objects PROVE owned'[o] = Holders(o)'
  <2>1. InCalls(calls', o) = InCalls(calls, o) + Equals(f.result, o)
    BY <1>1, <1>4, <1>6, PushCall
  <2>2. Equals(f.result, o) = 0
    BY <1>4, SingletonsIn, EqualsIs
  <2>3. InCalls(calls', o) = InCalls(calls, o)
    BY <1>10, <2>1, <2>2, Exact DEF Inv, Columns
  <2> QED BY <1>1, <1>10, <2>3, Exact DEF Inv, SumOf
<1>14. CountInv'
  BY <1>1, <1>13 DEF Inv, CountInv, Used
<1>15. WaitInv' /\ TapeInv'
  BY <1>1, <1>5, <1>11 DEF Inv, WaitInv, TapeInv, Building
<1> QED BY <1>10, <1>12, <1>14, <1>15 DEF Inv
LEMMA ReturnKeeps ==
  ASSUME Inv, Return
  PROVE  Inv'
<1>1. /\ calls # <<>> /\ Top.pc = "return" /\ calls' = SubSeq(calls, 1, Len(calls) - 1)
      /\ results' = IF Top.result = Nil THEN results ELSE Append(results, <<Top.doc, Top.result>>)
      /\ UNCHANGED <<borrowed, i, partials, val, cache, heap, owned, left, failures>>
  BY DEF Return, At, builder, bounds
<1>2. /\ Top \in Frame /\ ~borrowed /\ partials = <<>> /\ val = Nil
      /\ calls \in Seq(Frame) /\ Len(calls) \in Nat /\ Len(calls) # 0 /\ results \in Seq(Docs \X Objects)
  BY <1>1, OnTop, Idle DEF Inv, Building, TypeInv
<1>3. /\ calls' \in Seq(Frame) /\ Len(calls') = Len(calls) - 1
      /\ \A k \in 1 .. Len(calls) - 1 : calls'[k] = calls[k]
  BY <1>1, <1>2, FrontOf
<1> DEFINE x == <<Top.doc, Top.result>>
<1>4. Top.result # Nil => x \in Docs \X Objects
  BY <1>2 DEF Frame
<1>5. results' \in Seq(Docs \X Objects)
  BY <1>1, <1>2, <1>4, Appended
<1>6. TypeInv'
  BY <1>1, <1>2, <1>3, <1>5, LoadsAssumption DEF Inv, TypeInv
<1>7. /\ \A n \in 1 .. Len(calls') : FrameOK(calls'[n])
      /\ \A n \in 1 .. Len(calls') : Suspended(calls'[n])
  <2>1. \A n \in 1 .. Len(calls') : n \in 1 .. Len(calls) /\ n \in 1 .. Len(calls) - 1
    BY <1>2, <1>3
  <2> QED BY <1>3, <2>1 DEF Inv, StageInv
<1>8. calls' # <<>> => Suspended(Top')
  <2>1. calls' # <<>> => Len(calls') \in 1 .. Len(calls')
    BY <1>3
  <2> QED BY <1>7, <2>1 DEF Top
<1>9. calls' # <<>> => Top'.pc \notin Building
  BY <1>8 DEF Suspended, Building
<1>10. StageInv'
  <2>1. \A n \in 1 .. Len(calls') - 1 : n \in 1 .. Len(calls')
    BY <1>2, <1>3
  <2> QED BY <1>1, <1>2, <1>7, <1>9, <2>1 DEF StageInv, At, Building
<1>11. WaitInv' /\ TapeInv'
  BY <1>1, <1>9 DEF Inv, WaitInv, TapeInv, At, Building
<1>12. ASSUME NEW o \in Objects PROVE owned'[o] = Holders(o)'
  <2>1. InCalls(calls, o) = InCalls(calls', o) + Equals(Top.result, o)
    BY <1>1, <1>2, PopCall DEF Top
  <2>2. InResults(results', o) = InResults(results, o) + Equals(Top.result, o)
    <3>1. CASE Top.result = Nil
      <4>1. results' = results /\ Equals(Top.result, o) = 0
        BY <1>1, <3>1, SingletonsIn, EqualsIs
      <4>2. InResults(results, o) \in Nat
        BY <1>6, Exact DEF Inv, Columns
      <4> QED BY <4>1, <4>2
    <3>2. CASE Top.result # Nil
      <4>1. x[2] = Top.result /\ x \in Docs \X Objects /\ results' = Append(results, x)
        BY <1>1, <1>4, <3>2
      <4> HIDE DEF x
      <4> QED BY <1>2, <4>1, PushResult, ZenonT(60)
    <3> QED BY <3>1, <3>2
  <2>3. Equals(Top.result, o) \in Nat
    BY EqualsIs
  <2>4. Columns(o) /\ Columns(o)' /\ owned[o] = SumOf(o) /\ Holders(o)' = SumOf(o)'
    BY <1>6, Exact DEF Inv
  <2> QED BY ONLY <1>1, <2>1, <2>2, <2>3, <2>4 DEF Columns, SumOf
<1>13. CountInv'
  BY <1>1, <1>12 DEF Inv, CountInv, Used
<1> QED BY <1>6, <1>10, <1>11, <1>13 DEF Inv

LEMMA BuiltKeeps ==
  ASSUME Inv, Built
  PROVE  Inv'
<1> DEFINE f == [Top EXCEPT !.pc = "return", !.result = val]
<1>1. /\ calls # <<>> /\ Top.pc = "insert" /\ partials = <<>> /\ Goto(f)
      /\ borrowed' = FALSE /\ val' = Nil
      /\ UNCHANGED <<i, partials, cache, heap, owned, results, left, failures>>
  BY DEF Built, At, bounds
<1>2. Top \in Frame /\ FrameOK(Top) /\ val # Nil /\ val \in Objects /\ Top.result = Nil
  BY <1>1, OnTop DEF Inv, TypeInv
<1>3. f \in Frame /\ FrameOK(f) /\ f.pc = "return" /\ f.result = val
  <2>1. Top.source \notin BadSources
    BY <1>1, <1>2 DEF FrameOK, Building, Sources, BadSources
  <2> QED BY <1>1, <1>2, <2>1 DEF Frame, PCs, FrameOK, Fault, Unencoded, Building
<1> HIDE DEF f
<1>4. /\ calls' \in Seq(Frame) /\ Len(calls') = Len(calls) /\ StageInv'
      /\ \A pc : At(pc)' <=> f.pc = pc
  BY <1>1, <1>3, GoesOnAs DEF Inv, Building
<1>5. TypeInv'
  BY <1>1, <1>4 DEF Inv, TypeInv
<1>6. WaitInv' /\ TapeInv'
  BY <1>1, <1>3, <1>4 DEF Inv, WaitInv, TapeInv
<1>7. ASSUME NEW o \in Objects PROVE owned'[o] = Holders(o)'
  <2>1. InCalls(calls', o) + Equals(Top.result, o) = InCalls(calls, o) + Equals(f.result, o)
    <3>1. calls' = [calls EXCEPT ![Len(calls)] = f] /\ calls \in Seq(Frame)
      BY <1>1 DEF Goto, Inv, TypeInv
    <3> QED BY <1>1, <1>3, <3>1, SetCall DEF Top
  <2>2. Equals(Top.result, o) = 0 /\ Equals(val', o) = 0
    BY <1>1, <1>2, SingletonsIn, EqualsIs
  <2>3. Columns(o) /\ Columns(o)' /\ owned[o] = SumOf(o) /\ Holders(o)' = SumOf(o)'
    BY <1>5, Exact DEF Inv
  <2> QED BY ONLY <1>1, <1>3, <2>1, <2>2, <2>3 DEF Columns, SumOf
<1>8. CountInv'
  BY <1>1, <1>7 DEF Inv, CountInv, Used
<1> QED BY <1>4, <1>5, <1>6, <1>8 DEF Inv

-----------------------------------------------------------------------------
(* References that are given up. *)

(* What nobody holds any more is freed; every holder's object is there.    *)
LEMMA Settled ==
  ASSUME NEW h \in [Objects -> PyObject], NEW own \in [Objects -> Int], Settle(h, own),
         partials' \in Seq(Partial), calls' \in Seq(Frame), results' \in Seq(Docs \X Objects),
         \A o \in Objects : own[o] = SumOf(o)',
         \A o \in Objects : own[o] > 0 \/ o \in DOMAIN Singletons => h[o].t # "unused"
  PROVE  /\ owned' = own /\ owned' \in [Objects -> Nat] /\ heap' \in [Objects -> PyObject]
         /\ \A o \in Objects : owned'[o] = Holders(o)'
         /\ \A o \in Objects : owned'[o] > 0 \/ o \in DOMAIN Singletons => Used(o)'
<1>1. /\ owned' = own /\ heap' \in [Objects -> PyObject]
      /\ \A o \in Objects : own[o] > 0 \/ o \in DOMAIN Singletons => heap'[o] = h[o]
  BY SettleKeeps
<1>2. owned' \in [Objects -> Nat] /\ \A o \in Objects : owned'[o] = Holders(o)'
  BY <1>1, Recounted
<1> QED BY <1>1, <1>2 DEF Used

LEMMA DropResultKeeps ==
  ASSUME Inv, NEW n \in DOMAIN results, DropResult(n)
  PROVE  Inv'
<1> DEFINE r == results[n][2]
           own == [owned EXCEPT ![r] = @ - 1]
<1>1. /\ results' = Without(results, n) /\ Settle(heap, own)
      /\ UNCHANGED <<calls, borrowed, i, partials, val, cache, left, failures>>
  BY DEF DropResult, Without, builder, bounds
<1>2. /\ results \in Seq(Docs \X Objects) /\ n \in 1 .. Len(results) /\ r \in Objects
      /\ heap \in [Objects -> PyObject] /\ owned \in [Objects -> Int]
      /\ partials' \in Seq(Partial) /\ calls' \in Seq(Frame)
  <2>1. results \in Seq(Docs \X Objects)
    BY DEF Inv, TypeInv
  <2>2. n \in 1 .. Len(results) /\ results[n] \in Docs \X Objects
    BY <2>1
  <2> QED BY <1>1, <2>1, <2>2 DEF Inv, TypeInv
<1>3. results' \in Seq(Docs \X Objects)
  BY <1>1, <1>2, WithoutOf
<1>4. own \in [Objects -> Int] /\ \A o \in Objects : own[o] = owned[o] - Equals(r, o)
  BY <1>2, OneLess
<1> HIDE DEF own
<1>5. ASSUME NEW o \in Objects
      PROVE  own[o] = SumOf(o)' /\ (own[o] > 0 => owned[o] > 0)
  <2>1. InResults(results, o) = InResults(results', o) + Equals(r, o)
    BY <1>1, <1>2, LoseResult
  <2>2. Columns(o) /\ owned[o] = SumOf(o)
    BY AddUp DEF Inv
  <2>3. InResults(results', o) \in Nat /\ Equals(r, o) \in Nat
    BY <1>2, <1>3, AddUpNext, EqualsIs
  <2>4. own[o] = owned[o] - Equals(r, o)
    BY <1>4
  <2> HIDE DEF r
  <2> QED BY ONLY <1>1, <2>1, <2>2, <2>3, <2>4 DEF Columns, SumOf
<1>6. \A o \in Objects : own[o] > 0 \/ o \in DOMAIN Singletons => heap[o].t # "unused"
  BY <1>5 DEF Inv, CountInv, Used
<1>7. /\ owned' = own /\ owned' \in [Objects -> Nat] /\ heap' \in [Objects -> PyObject]
      /\ \A o \in Objects : owned'[o] = Holders(o)'
      /\ \A o \in Objects : owned'[o] > 0 \/ o \in DOMAIN Singletons => Used(o)'
  BY <1>1, <1>2, <1>3, <1>4, <1>5, <1>6, Settled
<1>8. TypeInv'
  BY <1>1, <1>3, <1>7 DEF Inv, TypeInv
<1>9. CountInv'
  BY <1>1, <1>7 DEF Inv, CountInv
<1>10. StageInv' /\ WaitInv' /\ TapeInv'
  BY <1>1 DEF Inv, StageInv, WaitInv, TapeInv, At, Top, AwaitsKey, Part
<1> QED BY <1>8, <1>9, <1>10 DEF Inv

LEMMA DropPartialKeeps ==
  ASSUME Inv, DropPartial
  PROVE  Inv'
<1> DEFINE p == Head(partials)
           own1 == [owned EXCEPT ![p.obj] = @ - 1]
           own == IF p.key = Nil THEN own1 ELSE [own1 EXCEPT ![p.key] = @ - 1]
<1>1. /\ calls # <<>> /\ Top.pc = "unwind" /\ partials # <<>>
      /\ partials' = Tail(partials) /\ Settle(heap, own)
      /\ UNCHANGED <<calls, borrowed, i, val, cache, results, left, failures>>
  BY DEF DropPartial, At, bounds
<1>2. /\ partials \in Seq(Partial) /\ p \in Partial
      /\ heap \in [Objects -> PyObject] /\ owned \in [Objects -> Int]
      /\ results' \in Seq(Docs \X Objects) /\ calls' \in Seq(Frame)
  BY <1>1 DEF Inv, TypeInv
<1>3. /\ partials' \in Seq(Partial) /\ Len(partials') = Len(partials) - 1
      /\ \A k \in 1 .. Len(partials) - 1 : partials'[k] = partials[k + 1]
  BY <1>1, <1>2, TailOf
<1>4. p.obj \in Objects /\ p.key \in {Nil} \cup Objects
  BY <1>2 DEF Partial
<1>5. own \in [Objects -> Int]
      /\ \A o \in Objects : own[o] = owned[o] - Equals(p.obj, o) - Equals(p.key, o)
  <2>1. own1 \in [Objects -> Int] /\ \A o \in Objects : own1[o] = owned[o] - Equals(p.obj, o)
    BY <1>2, <1>4, OneLess
  <2>2. CASE p.key = Nil
    <3>1. \A o \in Objects : Equals(p.key, o) = 0
      BY <2>2, SingletonsIn, EqualsIs
    <3>2. own = own1
      BY <2>2
    <3>3. \A o \in Objects : own1[o] \in Int
      BY <2>1
    <3> HIDE DEF own1, own
    <3> QED BY <2>1, <3>1, <3>2, <3>3
  <2>3. CASE p.key # Nil
    <3>1. p.key \in Objects /\ own = [own1 EXCEPT ![p.key] = @ - 1]
      BY <1>4, <2>3
    <3> HIDE DEF own1
    <3> QED BY <2>1, <3>1, OneLess
  <2> QED BY <2>2, <2>3
<1> HIDE DEF own
<1>6. ASSUME NEW o \in Objects
      PROVE  own[o] = SumOf(o)' /\ (own[o] > 0 => owned[o] > 0)
  <2>1. InPartials(partials, o) = InPartials(partials', o) + Equals(p.obj, o) + Equals(p.key, o)
    BY <1>1, <1>2, PopPartial
  <2>2. Columns(o) /\ owned[o] = SumOf(o)
    BY AddUp DEF Inv
  <2>3. InPartials(partials', o) \in Nat /\ Equals(p.obj, o) \in Nat /\ Equals(p.key, o) \in Nat
    BY <1>2, <1>3, AddUpNext, EqualsIs
  <2>4. own[o] = owned[o] - Equals(p.obj, o) - Equals(p.key, o)
    BY <1>5
  <2>5. UNCHANGED <<val, cache, calls, results>>
    BY <1>1
  <2> HIDE DEF p
  <2> QED BY ONLY <2>5, <2>1, <2>2, <2>3, <2>4 DEF Columns, SumOf
<1>7. \A o \in Objects : own[o] > 0 \/ o \in DOMAIN Singletons => heap[o].t # "unused"
  BY <1>6 DEF Inv, CountInv, Used
<1>8. /\ owned' = own /\ owned' \in [Objects -> Nat] /\ heap' \in [Objects -> PyObject]
      /\ \A o \in Objects : owned'[o] = Holders(o)'
      /\ \A o \in Objects : owned'[o] > 0 \/ o \in DOMAIN Singletons => Used(o)'
  BY <1>1, <1>2, <1>3, <1>5, <1>6, <1>7, Settled
<1>9. TypeInv' /\ CountInv'
  BY <1>1, <1>3, <1>8 DEF Inv, TypeInv, CountInv
<1>10. StageInv'
  <2>1. borrowed
    BY <1>1, OnTop DEF Inv, Building
  <2> QED BY <1>1, <2>1 DEF Inv, StageInv, At, Top
<1>11. WaitInv'
  <2>1. \A k \in 1 .. Len(partials) - 1 : k + 1 \in 1 .. Len(partials)
    BY <1>2
  <2> QED BY <1>3, <2>1 DEF Inv, WaitInv
<1>12. TapeInv'
  BY <1>1 DEF TapeInv, At, Top
<1> QED BY <1>9, <1>10, <1>11, <1>12 DEF Inv

LEMMA ClearCacheKeeps ==
  ASSUME Inv, ClearCache
  PROVE  Inv'
<1> DEFINE cached == {cache[s].key : s \in Slots}
           own == [o \in Objects |-> IF o \in cached THEN owned[o] - 1 ELSE owned[o]]
<1>1. /\ calls = <<>> /\ Settle(heap, own) /\ cache' = EmptyCache
      /\ UNCHANGED <<calls, borrowed, i, partials, val, results, left, failures>>
  BY DEF ClearCache, bounds, builder
<1>2. /\ partials' \in Seq(Partial) /\ calls' \in Seq(Frame) /\ results' \in Seq(Docs \X Objects)
      /\ heap \in [Objects -> PyObject] /\ owned \in [Objects -> Nat]
  BY <1>1 DEF Inv, TypeInv
<1>3. cache' \in [Slots -> Entry] /\ \A s \in Slots : cache'[s].key = Nil
  BY <1>1 DEF EmptyCache, Entry
<1>4. own \in [Objects -> Int]
  BY <1>2
<1>5. ASSUME NEW o \in Objects PROVE InCache(cache, o) = IF o \in cached THEN 1 ELSE 0
  <2> DEFINE D == {s \in Slots : Entries(cache)[s] = o}
  <2>1. D = {s \in Slots : cache[s].key = o} /\ InCache(cache, o) = Cardinality(D)
    BY DEF Entries, InCache, Places
  <2>2. CASE o \in cached
    <3>1. PICK s \in Slots : cache[s].key = o
      BY <2>2
    <3>2. D = {s}
      BY <2>1, <3>1, SingletonsIn DEF Inv, CountInv
    <3> QED BY <2>1, <2>2, <3>2, FS_Singleton
  <2>3. CASE o \notin cached
    <3>1. D = {}
      BY <2>1, <2>3
    <3> QED BY <2>1, <2>3, <3>1, FS_EmptySet
  <2> QED BY <2>2, <2>3
<1>6. ASSUME NEW o \in Objects PROVE InCache(cache', o) = 0
  <2>1. \A s \in Slots : Entries(cache')[s] # o
    BY <1>3, SingletonsIn DEF Entries
  <2> DEFINE f == Entries(cache')
  <2>2. InCache(cache', o) = Places(f, Slots, o)
    BY DEF InCache
  <2> HIDE DEF f
  <2> QED BY <2>1, <2>2, SlotsFinite, HeldNat DEF f
<1>7. \A o \in Objects : own[o] = IF o \in cached THEN owned[o] - 1 ELSE owned[o]
  OBVIOUS
<1> HIDE DEF own, cached
<1>8. ASSUME NEW o \in Objects
      PROVE  own[o] = SumOf(o)' /\ (own[o] > 0 => owned[o] > 0)
  <2>1. Columns(o) /\ owned[o] = SumOf(o)
    BY AddUp DEF Inv
  <2>2. own[o] = owned[o] - InCache(cache, o) /\ InCache(cache, o) \in Nat /\ owned[o] \in Nat
    BY <1>2, <1>5, <1>7
  <2>3. InCache(cache', o) = 0
    BY <1>6
  <2> QED BY ONLY <1>1, <2>1, <2>2, <2>3 DEF Columns, SumOf
<1>9. \A o \in Objects : own[o] > 0 \/ o \in DOMAIN Singletons => heap[o].t # "unused"
  BY <1>8 DEF Inv, CountInv, Used
<1>10. /\ owned' = own /\ owned' \in [Objects -> Nat] /\ heap' \in [Objects -> PyObject]
       /\ \A o \in Objects : owned'[o] = Holders(o)'
       /\ \A o \in Objects : owned'[o] > 0 \/ o \in DOMAIN Singletons => Used(o)'
  BY <1>1, <1>2, <1>4, <1>8, <1>9, Settled
<1>11. TypeInv' /\ CountInv'
  BY <1>1, <1>3, <1>10 DEF Inv, TypeInv, CountInv
<1>12. StageInv' /\ WaitInv' /\ TapeInv'
  BY <1>1 DEF Inv, StageInv, WaitInv, TapeInv, At, Top
<1> QED BY <1>11, <1>12 DEF Inv

-----------------------------------------------------------------------------
(* Keys. *)

LEMMA AllWait ==
  ASSUME NEW b \in Seq(Partial), \A n \in 1 .. Len(b) : Waits(b[n]), NEW p \in Partial, Waits(p)
  PROVE  \A n \in 1 .. Len(Append(b, p)) : Waits(Append(b, p)[n])
<1> DEFINE q == Append(b, p)
<1>1. /\ Len(q) = Len(b) + 1 /\ q[Len(b) + 1] = p /\ Len(b) \in Nat
      /\ \A k \in 1 .. Len(b) : q[k] = b[k]
  BY Appended
<1> HIDE DEF q
<1>2. \A n \in 1 .. Len(q) : n = Len(b) + 1 \/ n \in 1 .. Len(b)
  BY <1>1
<1>3. \A n \in 1 .. Len(q) : Waits(q[n])
  BY <1>1, <1>2
<1> QED BY <1>3 DEF q

LEMMA BelowWait ==
  ASSUME TypeInv, WaitInv, partials # <<>>
  PROVE  \A n \in 1 .. Len(Below) : Waits(Below[n])
<1>1. /\ Len(partials) \in Nat /\ Len(Below) = Len(partials) - 1
      /\ \A k \in 1 .. Len(Below) : Below[k] = partials[k]
  BY Innermost DEF TypeInv
<1>2. \A n \in 1 .. Len(Below) : n \in 1 .. Len(partials)
  BY <1>1
<1> QED BY <1>1, <1>2 DEF WaitInv

(* The innermost container gets the key of its next member.                *)
LEMMA KeyGiven ==
  ASSUME Inv, At("build"), AwaitsKey, NEW key \in Objects, SetKey(key), i' = i + 1,
         UNCHANGED <<calls, borrowed, val>>
  PROVE  /\ partials' \in Seq(Partial) /\ i' \in Nat /\ StageInv' /\ WaitInv' /\ TapeInv'
         /\ \A o \in Objects : InPartials(partials', o) = InPartials(partials, o) + Equals(key, o)
<1> DEFINE p == [Part EXCEPT !.key = key]
           t == Tape[Top.doc]
<1>1. /\ partials # <<>> /\ ~Part.isList /\ Part.key = Nil /\ calls # <<>> /\ Top.pc = "build"
  BY DEF AwaitsKey, At
<1>2. /\ Part \in Partial /\ Waits(Part) /\ Below \in Seq(Partial) /\ partials = Append(Below, Part)
  BY <1>1, Innermost DEF Inv
<1>3. partials' = Append(Below, p)
  BY <1>1, KeySet DEF Inv
<1>4. /\ p \in Partial /\ Waits(p) /\ p.key = key /\ p.obj = Part.obj /\ p.filled = Part.filled
      /\ p.len = Part.len /\ p.isList = Part.isList
  BY <1>1, <1>2 DEF Partial, Waits
<1> HIDE DEF p, t
<1>5. partials' \in Seq(Partial)
  BY <1>2, <1>3, <1>4, Appended
<1>6. borrowed
  BY <1>1, OnTop DEF Inv, Building
<1>7. StageInv'
  BY <1>6 DEF Inv, StageInv, At, Top
<1>8. WaitInv'
  BY <1>1, <1>2, <1>3, <1>4, AllWait, BelowWait DEF Inv, WaitInv
<1>9. Top.doc \in DOMAIN Tape /\ i \in DOMAIN t /\ i \in Nat
  BY Reading DEF Inv, TypeInv, t
<1>10. TapeInv'
  <2>1. Reads(t, Append(Below, Part), i)
    BY <1>2 DEF Inv, TapeInv, t
  <2>2. Below = <<>> \/ Ready(Below[Len(Below)])
    BY <1>2, <2>1, ReadsPop
  <2>3. PICK n : Reads(t, Below, n) /\ Fills(t, n, Part, i)
    BY <1>2, <2>1, ReadsPop
  <2>4. Fills(t, n, p, i + 1)
    <3> DEFINE c == Kids(t, n)[Part.filled]
    <3>1. /\ n \in DOMAIN t /\ t[n].t = "dict" /\ Part.len = t[n].len /\ i = c + 0
      BY <1>1, <2>3 DEF Fills
    <3>2. Kids(t, n) \in [0 .. t[n].len -> 1 .. Len(t) + 1] /\ Len(t) \in Nat
      BY <1>9, <3>1, TapeOf DEF Containers, t
    <3>3. Part.filled \in 0 .. t[n].len
      BY <1>2, <3>1 DEF Partial, Waits
    <3>4. c \in Nat
      BY <3>2, <3>3
    <3> HIDE DEF c
    <3>5. i + 1 = c + 1
      BY <3>1, <3>4
    <3> QED BY <1>1, <1>4, <3>1, <3>5, SingletonsIn DEF Fills, c
  <2>5. Reads(t, partials', i')
    BY <1>2, <1>3, <1>4, <1>9, <2>2, <2>3, <2>4, ReadsPush
  <2>6. Top' = Top /\ Top'.pc = "build"
    BY <1>1 DEF Top
  <2> QED BY <2>5, <2>6 DEF TapeInv, At, t
<1>11. ASSUME NEW o \in Objects
       PROVE  InPartials(partials', o) = InPartials(partials, o) + Equals(key, o)
  <2>1. /\ InPartials(partials', o) = InPartials(Below, o) + Equals(Part.obj, o) + Equals(key, o)
        /\ InPartials(partials, o) = InPartials(Below, o) + Equals(Part.obj, o) + Equals(Part.key, o)
    BY <1>2, <1>3, <1>4, PushPartial
  <2>2. Equals(Part.key, o) = 0 /\ Equals(Part.obj, o) \in Nat /\ Equals(key, o) \in Nat
    BY <1>1, SingletonsIn, EqualsIs
  <2>3. InPartials(Below, o) \in Nat
    <3>1. calls \in Seq(Frame) /\ results \in Seq(Docs \X Objects)
      BY DEF Inv, TypeInv
    <3> QED BY <1>2, <3>1, InNat
  <2> QED BY ONLY <2>1, <2>2, <2>3
<1> QED BY <1>5, <1>7, <1>8, <1>9, <1>10, <1>11

(* A new object has its one reference.                                     *)
LEMMA Made ==
  ASSUME Inv, NEW obj \in PyObject, obj.t # "unused", New(obj)
  PROVE  /\ Fresh \in Objects /\ Fresh # Nil
         /\ heap' \in [Objects -> PyObject] /\ owned' \in [Objects -> Int]
         /\ \A o \in Objects : owned'[o] = owned[o] + Equals(Fresh, o)
         /\ \A o \in Objects : owned'[o] > 0 \/ o \in DOMAIN Singletons => Used(o)'
<1>1. Room /\ heap' = [heap EXCEPT ![Fresh] = obj] /\ owned' = [owned EXCEPT ![Fresh] = 1]
  BY DEF New
<1>2. Fresh \in Objects /\ Fresh # Nil /\ owned[Fresh] = 0
  BY <1>1, FreshIs DEF Inv
<1>3. heap \in [Objects -> PyObject] /\ owned \in [Objects -> Nat]
  BY DEF Inv, TypeInv
<1> HIDE DEF Inv
<1>4. heap' \in [Objects -> PyObject] /\ owned' \in [Objects -> Int]
  BY <1>1, <1>2, <1>3
<1>5. ASSUME NEW o \in Objects
      PROVE  /\ owned'[o] = owned[o] + Equals(Fresh, o)
             /\ owned'[o] > 0 \/ o \in DOMAIN Singletons => Used(o)'
  <2>1. CASE o = Fresh
    <3>1. Equals(Fresh, o) = 1 /\ owned'[o] = 1 /\ heap'[o] = obj
      BY <1>1, <1>2, <1>3, <2>1, EqualsIs
    <3> QED BY <1>2, <2>1, <3>1 DEF Used
  <2>2. CASE o # Fresh
    <3>1. Equals(Fresh, o) = 0 /\ owned'[o] = owned[o] /\ heap'[o] = heap[o] /\ owned[o] \in Nat
      BY <1>1, <1>2, <1>3, <2>2, EqualsIs
    <3>2. owned[o] > 0 \/ o \in DOMAIN Singletons => Used(o)
      BY DEF Inv, CountInv
    <3> QED BY <3>1, <3>2 DEF Used
  <2> QED BY <2>1, <2>2
<1> QED BY <1>2, <1>4, <1>5

LEMMA StrIs ==
  ASSUME NEW text \in STRING
  PROVE  /\ Str(text) \in PyObject /\ Str(text).t = "str"
         /\ Num(text) \in PyObject /\ Num(text).t = "num"
<1>1. <<>> \in Items
  BY DEF Items
<1> QED BY <1>1 DEF Str, Num, PyObject

LEMMA KeyUncachedKeeps ==
  ASSUME Inv, KeyUncached
  PROVE  Inv'
<1>1. /\ At("build") /\ AwaitsKey /\ New(Str(Node.text)) /\ SetKey(Fresh) /\ i' = i + 1
      /\ UNCHANGED <<calls, borrowed, val, cache, results, left, failures>>
  BY DEF KeyUncached, bounds
<1>2. Node.text \in STRING
  BY <1>1, Reading, NodeFacts DEF Inv, Node, Containers
<1>3. /\ Fresh \in Objects
      /\ heap' \in [Objects -> PyObject] /\ owned' \in [Objects -> Int]
      /\ \A o \in Objects : owned'[o] = owned[o] + Equals(Fresh, o)
      /\ \A o \in Objects : owned'[o] > 0 \/ o \in DOMAIN Singletons => Used(o)'
  BY <1>1, <1>2, StrIs, Made
<1>4. /\ partials' \in Seq(Partial) /\ i' \in Nat /\ StageInv' /\ WaitInv' /\ TapeInv'
      /\ \A o \in Objects : InPartials(partials', o) = InPartials(partials, o) + Equals(Fresh, o)
  BY <1>1, <1>3, KeyGiven
<1>5. calls' \in Seq(Frame) /\ results' \in Seq(Docs \X Objects)
  BY <1>1 DEF Inv, TypeInv
<1>6. ASSUME NEW o \in Objects PROVE owned'[o] = SumOf(o)'
  <2>1. Columns(o) /\ owned[o] = SumOf(o)
    BY AddUp DEF Inv
  <2>2. /\ owned'[o] = owned[o] + Equals(Fresh, o) /\ Equals(Fresh, o) \in Nat
        /\ InPartials(partials', o) = InPartials(partials, o) + Equals(Fresh, o)
    BY <1>3, <1>4, EqualsIs
  <2>3. UNCHANGED <<val, cache, calls, results>>
    BY <1>1
  <2> QED BY ONLY <2>1, <2>2, <2>3 DEF Columns, SumOf
<1>7. owned' \in [Objects -> Nat] /\ \A o \in Objects : owned'[o] = Holders(o)'
  BY <1>3, <1>4, <1>5, <1>6, Recounted
<1>8. TypeInv' /\ CountInv'
  BY <1>1, <1>3, <1>4, <1>7 DEF Inv, TypeInv, CountInv
<1> QED BY <1>4, <1>8 DEF Inv

(* The key in an entry of the cache is in use.                             *)
LEMMA EntryHeld ==
  ASSUME Inv, NEW s \in Slots, cache[s].key # Nil
  PROVE  cache[s].key \in Objects /\ InCache(cache, cache[s].key) >= 1 /\ owned[cache[s].key] > 0
<1> DEFINE o == cache[s].key
           f == Entries(cache)
<1>1. o \in Objects
  BY DEF Inv, TypeInv, Entry
<1>2. f[s] = o
  BY DEF Entries
<1>3. InCache(cache, o) = Places(f, Slots, o)
  BY DEF InCache
<1>4. Columns(o) /\ owned[o] = SumOf(o)
  BY <1>1, AddUp DEF Inv
<1> HIDE DEF o, f
<1>5. InCache(cache, o) >= 1
  BY <1>2, <1>3, SlotsFinite, HeldNat
<1>6. owned[o] > 0
  BY ONLY <1>4, <1>5 DEF Columns, SumOf
<1> QED BY <1>1, <1>5, <1>6 DEF o

LEMMA KeyHitKeeps ==
  ASSUME Inv, KeyHit
  PROVE  Inv'
<1> DEFINE s == Slot(Node.text)
           k == cache[s].key
<1>1. /\ At("build") /\ AwaitsKey /\ s \in Slots /\ k # Nil
      /\ owned' = [owned EXCEPT ![k] = @ + 1] /\ SetKey(k) /\ i' = i + 1
      /\ UNCHANGED <<calls, borrowed, val, cache, heap, results, left, failures>>
  BY SlotsFinite DEF KeyHit, Cached, bounds
<1> HIDE DEF s
<1>2. k \in Objects /\ owned[k] > 0
  BY <1>1, EntryHeld
<1> HIDE DEF k
<1>3. /\ owned' \in [Objects -> Int]
      /\ \A o \in Objects : owned'[o] = owned[o] + Equals(k, o)
  <2>1. owned \in [Objects -> Int]
    BY DEF Inv, TypeInv
  <2> QED BY <1>1, <1>2, <2>1, OneMore
<1>4. /\ partials' \in Seq(Partial) /\ i' \in Nat /\ StageInv' /\ WaitInv' /\ TapeInv'
      /\ \A o \in Objects : InPartials(partials', o) = InPartials(partials, o) + Equals(k, o)
  BY <1>1, <1>2, KeyGiven
<1>5. calls' \in Seq(Frame) /\ results' \in Seq(Docs \X Objects)
  BY <1>1 DEF Inv, TypeInv
<1>6. ASSUME NEW o \in Objects PROVE owned'[o] = SumOf(o)' /\ (owned'[o] > 0 => owned[o] > 0)
  <2>1. Columns(o) /\ owned[o] = SumOf(o)
    BY AddUp DEF Inv
  <2>2. /\ owned'[o] = owned[o] + Equals(k, o) /\ Equals(k, o) \in Nat
        /\ InPartials(partials', o) = InPartials(partials, o) + Equals(k, o)
    BY <1>3, <1>4, EqualsIs
  <2>3. UNCHANGED <<val, cache, calls, results>>
    BY <1>1
  <2>4. Equals(k, o) = 0 \/ owned[o] > 0
    BY <1>2, EqualsIs
  <2> QED BY ONLY <2>1, <2>2, <2>3, <2>4 DEF Columns, SumOf
<1>7. owned' \in [Objects -> Nat] /\ \A o \in Objects : owned'[o] = Holders(o)'
  BY <1>3, <1>4, <1>5, <1>6, Recounted
<1>8. TypeInv'
  BY <1>1, <1>4, <1>7 DEF Inv, TypeInv
<1>9. CountInv'
  BY <1>1, <1>6, <1>7 DEF Inv, CountInv, Used
<1> QED BY <1>4, <1>8, <1>9 DEF Inv

LEMMA KeyMissKeeps ==
  ASSUME Inv, KeyMiss
  PROVE  Inv'
<1> DEFINE s == Slot(Node.text)
           k == cache[s].key
           e == [hash |-> Hash[Node.text], key |-> Fresh]
           h == [heap EXCEPT ![Fresh] = Str(Node.text)]
           own2 == [owned EXCEPT ![Fresh] = 2]
           own == IF k = Nil THEN own2 ELSE [own2 EXCEPT ![k] = @ - 1]
<1>1. /\ At("build") /\ AwaitsKey /\ Node.text \in DOMAIN Hash /\ Room /\ s \in Slots
      /\ Settle(h, own) /\ cache' = [cache EXCEPT ![s] = e] /\ SetKey(Fresh) /\ i' = i + 1
      /\ UNCHANGED <<calls, borrowed, val, results, left, failures>>
  BY SlotsFinite DEF KeyMiss, bounds
<1>2. /\ Fresh \in Objects /\ owned[Fresh] = 0 /\ Fresh \notin DOMAIN Singletons /\ Fresh # Nil
  BY <1>1, FreshIs DEF Inv
<1>3. /\ heap \in [Objects -> PyObject] /\ owned \in [Objects -> Nat] /\ cache \in [Slots -> Entry]
      /\ calls' \in Seq(Frame) /\ results' \in Seq(Docs \X Objects)
  BY <1>1 DEF Inv, TypeInv
<1>4. Str(Node.text) \in PyObject /\ Str(Node.text).t = "str" /\ e \in Entry
  <2>1. Node.text \in STRING
    BY <1>1, Reading, NodeFacts DEF Inv, Node, Containers
  <2>2. Hash[Node.text] \in Nat
    BY <1>1, LoadsAssumption
  <2> QED BY <1>2, <2>1, <2>2, StrIs DEF Entry
<1>5. h \in [Objects -> PyObject] /\ h[Fresh] = Str(Node.text)
      /\ \A o \in Objects : o # Fresh => h[o] = heap[o]
  BY <1>2, <1>3, <1>4
<1>6. k \in {Nil} \cup Objects /\ e.key = Fresh
  BY <1>1, <1>3 DEF Entry
<1> HIDE DEF s, e, h
<1>7. own2 \in [Objects -> Int] /\ \A o \in Objects : own2[o] = owned[o] + Equals(Fresh, o) + Equals(Fresh, o)
  <2>1. \A o \in Objects : Equals(Fresh, o) = IF Fresh = o THEN 1 ELSE 0
    BY DEF Equals
  <2> QED BY <1>2, <1>3, <2>1
<1> HIDE DEF own2
<1>8. own \in [Objects -> Int] /\ \A o \in Objects : own[o] = own2[o] - Equals(k, o)
  <2>1. CASE k = Nil
    <3>1. \A o \in Objects : Equals(k, o) = 0 /\ own2[o] \in Int
      BY <1>7, <2>1, SingletonsIn, EqualsIs
    <3>2. own = own2
      BY <2>1
    <3> HIDE DEF own, k
    <3> QED BY <1>7, <3>1, <3>2
  <2>2. CASE k # Nil
    <3>1. k \in Objects /\ own = [own2 EXCEPT ![k] = @ - 1]
      BY <1>6, <2>2
    <3> HIDE DEF own, k
    <3> QED BY <1>7, <3>1, OneLess
  <2> QED BY <2>1, <2>2
<1> HIDE DEF own
<1>9. /\ partials' \in Seq(Partial) /\ i' \in Nat /\ StageInv' /\ WaitInv' /\ TapeInv'
      /\ \A o \in Objects : InPartials(partials', o) = InPartials(partials, o) + Equals(Fresh, o)
  BY <1>1, <1>2, KeyGiven
<1>10. ASSUME NEW o \in Objects
       PROVE  own[o] = SumOf(o)' /\ (own[o] > 0 => o = Fresh \/ owned[o] > 0)
  <2>1. Columns(o) /\ owned[o] = SumOf(o)
    BY AddUp DEF Inv
  <2>2. InCache(cache', o) + Equals(k, o) = InCache(cache, o) + Equals(Fresh, o)
    BY <1>1, <1>3, <1>4, <1>6, SetEntry
  <2>3. /\ own[o] = own2[o] - Equals(k, o)
        /\ own2[o] = owned[o] + Equals(Fresh, o) + Equals(Fresh, o)
        /\ InPartials(partials', o) = InPartials(partials, o) + Equals(Fresh, o)
    BY <1>7, <1>8, <1>9
  <2>4. InCache(cache', o) \in Nat /\ Equals(k, o) \in Nat /\ Equals(Fresh, o) \in Nat
    BY <1>3, <1>9, AddUpNext, EqualsIs
  <2>5. o = Fresh \/ Equals(Fresh, o) = 0
    BY EqualsIs
  <2>6. UNCHANGED <<val, calls, results>>
    BY <1>1
  <2> HIDE DEF k
  <2> QED BY ONLY <2>1, <2>2, <2>3, <2>4, <2>5, <2>6 DEF Columns, SumOf
<1>11. \A o \in Objects : own[o] > 0 \/ o \in DOMAIN Singletons => h[o].t # "unused"
  BY <1>2, <1>4, <1>5, <1>10 DEF Inv, CountInv, Used
<1>12. /\ owned' = own /\ owned' \in [Objects -> Nat] /\ heap' \in [Objects -> PyObject]
       /\ \A o \in Objects : owned'[o] = Holders(o)'
       /\ \A o \in Objects : owned'[o] > 0 \/ o \in DOMAIN Singletons => Used(o)'
  BY <1>1, <1>3, <1>5, <1>8, <1>9, <1>10, <1>11, Settled
<1>13. cache' \in [Slots -> Entry]
  BY <1>1, <1>3, <1>4
<1>14. \A x, r \in Slots : cache'[x].key # Nil /\ cache'[x].key = cache'[r].key => x = r
  <2>1. \A x \in Slots : cache[x].key # Fresh
    BY <1>2, EntryHeld
  <2>2. \A x \in Slots : cache'[x].key = IF x = s THEN Fresh ELSE cache[x].key
    BY <1>1, <1>3, <1>6
  <2>3. \A x, r \in Slots : cache[x].key # Nil /\ cache[x].key = cache[r].key => x = r
    BY DEF Inv, CountInv
  <2> QED BY <2>1, <2>2, <2>3
<1>15. TypeInv'
  BY <1>1, <1>9, <1>12, <1>13 DEF Inv, TypeInv
<1>16. CountInv'
  BY <1>12, <1>14 DEF CountInv
<1> QED BY <1>9, <1>15, <1>16 DEF Inv

-----------------------------------------------------------------------------
(* Nodes. *)

(* A value is finished that takes the tape up to i'.                       *)
LEMMA ValueReady ==
  ASSUME Inv, At("build"), ~AwaitsKey, NEW o \in Objects, Finished(o),
         i' = After(Tape[Top.doc], i), i' \in Nat, UNCHANGED <<borrowed, partials>>
  PROVE  /\ calls' \in Seq(Frame) /\ Len(calls') = Len(calls) /\ val' = o
         /\ StageInv' /\ WaitInv' /\ TapeInv'
         /\ \A q \in Objects : InCalls(calls', q) = InCalls(calls, q)
<1> DEFINE f == [Top EXCEPT !.pc = "insert"]
<1>1. calls # <<>> /\ Top.pc = "build" /\ Goto(f) /\ val' = o
  BY DEF At, Finished
<1>2. /\ Top \in Frame /\ FrameOK(Top) /\ Top.result = Nil /\ calls \in Seq(Frame)
      /\ (borrowed <=> Top.pc \in Building)
  BY <1>1, OnTop DEF Inv, TypeInv
<1>3. f \in Frame /\ FrameOK(f) /\ f.pc = "insert" /\ f.result = Nil /\ f.doc = Top.doc
  BY <1>1, <1>2 DEF Frame, PCs, FrameOK, Fault, Unencoded, Building
<1> HIDE DEF f
<1>4. /\ calls' \in Seq(Frame) /\ Len(calls') = Len(calls) /\ StageInv' /\ Top' = f
      /\ \A pc : At(pc)' <=> f.pc = pc
  BY <1>1, <1>2, <1>3, SingletonsIn, GoesOnAs DEF Inv, Building
<1>5. WaitInv'
  BY DEF Inv, WaitInv
<1>6. TapeInv'
  <2>1. Reads(Tape[f.doc], partials', i) /\ i \in DOMAIN Tape[f.doc] /\ i' = After(Tape[f.doc], i)
    BY <1>3, Reading DEF Inv, TapeInv
  <2>2. ~AwaitsKey'
    BY DEF AwaitsKey, Part
  <2> QED BY <1>3, <1>4, <2>1, <2>2 DEF TapeInv
<1>7. ASSUME NEW q \in Objects PROVE InCalls(calls', q) = InCalls(calls, q)
  <2>1. InCalls(calls', q) + Equals(Top.result, q) = InCalls(calls, q) + Equals(f.result, q)
    <3>1. calls' = [calls EXCEPT ![Len(calls)] = f]
      BY <1>1 DEF Goto
    <3> QED BY <1>1, <1>2, <1>3, <3>1, SetCall DEF Top
  <2>2. Equals(Top.result, q) = 0 /\ Equals(f.result, q) = 0
    BY <1>2, <1>3, SingletonsIn, EqualsIs
  <2>3. InCalls(calls', q) \in Nat /\ InCalls(calls, q) \in Nat
    <3>1. partials \in Seq(Partial) /\ results \in Seq(Docs \X Objects)
      BY DEF Inv, TypeInv
    <3> QED BY <1>2, <1>4, <3>1, InNat
  <2> QED BY ONLY <2>1, <2>2, <2>3
<1> QED BY <1>1, <1>4, <1>5, <1>6, <1>7

LEMMA NodeConstKeeps ==
  ASSUME Inv, NodeConst
  PROVE  Inv'
<1> DEFINE k == Singleton(Node.text)
<1>1. /\ At("build") /\ ~AwaitsKey /\ Node.t = "const" /\ Finished(k)
      /\ owned' = [owned EXCEPT ![k] = @ + 1] /\ i' = i + 1
      /\ UNCHANGED <<borrowed, partials, cache, heap, results, left, failures>>
  BY DEF NodeConst, bounds
<1>2. /\ k \in DOMAIN Singletons /\ k \in Objects /\ i' = After(Tape[Top.doc], i) /\ i' \in Nat
  <2>1. Top.doc \in DOMAIN Tape /\ i \in DOMAIN Tape[Top.doc] /\ i \in Nat
    BY <1>1, Reading DEF Inv, TypeInv
  <2>2. k \in DOMAIN Singletons /\ After(Tape[Top.doc], i) = i + 1
    BY <1>1, <2>1, NodeFacts DEF Node, Containers
  <2> QED BY <1>1, <2>1, <2>2, SingletonsIn
<1> HIDE DEF k
<1>3. /\ calls' \in Seq(Frame) /\ Len(calls') = Len(calls) /\ val' = k
      /\ StageInv' /\ WaitInv' /\ TapeInv'
      /\ \A q \in Objects : InCalls(calls', q) = InCalls(calls, q)
  BY <1>1, <1>2, ValueReady
<1>4. /\ partials' \in Seq(Partial) /\ results' \in Seq(Docs \X Objects)
      /\ owned \in [Objects -> Int] /\ val = Nil
  BY <1>1, OnTop DEF Inv, TypeInv, At
<1>5. owned' \in [Objects -> Int] /\ \A o \in Objects : owned'[o] = owned[o] + Equals(k, o)
  BY <1>1, <1>2, <1>4, OneMore
<1>6. ASSUME NEW o \in Objects
      PROVE  owned'[o] = SumOf(o)' /\ (owned'[o] > 0 => owned[o] > 0 \/ o \in DOMAIN Singletons)
  <2>1. Columns(o) /\ owned[o] = SumOf(o)
    BY AddUp DEF Inv
  <2>2. /\ owned'[o] = owned[o] + Equals(k, o) /\ Equals(k, o) \in Nat
        /\ InCalls(calls', o) = InCalls(calls, o) /\ Equals(val', o) = Equals(k, o)
    BY <1>3, <1>5, EqualsIs
  <2>3. UNCHANGED <<partials, cache, results>>
    BY <1>1
  <2>4. Equals(val, o) = 0
    BY <1>4, SingletonsIn, EqualsIs
  <2>5. Equals(k, o) = 0 \/ o \in DOMAIN Singletons
    BY <1>2, EqualsIs
  <2> QED BY ONLY <2>1, <2>2, <2>3, <2>4, <2>5 DEF Columns, SumOf
<1>7. owned' \in [Objects -> Nat] /\ \A o \in Objects : owned'[o] = Holders(o)'
  BY <1>3, <1>4, <1>5, <1>6, Recounted
<1>8. TypeInv'
  BY <1>1, <1>2, <1>3, <1>7 DEF Inv, TypeInv
<1>9. CountInv'
  BY <1>1, <1>6, <1>7 DEF Inv, CountInv, Used
<1> QED BY <1>3, <1>8, <1>9 DEF Inv

LEMMA NodeScalarKeeps ==
  ASSUME Inv, NodeScalar
  PROVE  Inv'
<1> DEFINE obj == IF Node.t = "str" THEN Str(Node.text) ELSE Num(Node.text)
<1>1. /\ At("build") /\ ~AwaitsKey /\ Node.t \in {"str", "num"} /\ New(obj) /\ Finished(Fresh)
      /\ i' = i + 1
      /\ UNCHANGED <<borrowed, partials, cache, results, left, failures>>
  BY DEF NodeScalar, bounds
<1>2. /\ i' = After(Tape[Top.doc], i) /\ i' \in Nat /\ Node.text \in STRING
  <2>1. Top.doc \in DOMAIN Tape /\ i \in DOMAIN Tape[Top.doc] /\ i \in Nat
    BY <1>1, Reading DEF Inv, TypeInv
  <2>2. Node.text \in STRING /\ After(Tape[Top.doc], i) = i + 1
    BY <1>1, <2>1, NodeFacts DEF Node, Containers
  <2> QED BY <1>1, <2>1, <2>2
<1>3. obj \in PyObject /\ obj.t # "unused"
  BY <1>2, StrIs
<1> HIDE DEF obj
<1>4. /\ Fresh \in Objects
      /\ heap' \in [Objects -> PyObject] /\ owned' \in [Objects -> Int]
      /\ \A o \in Objects : owned'[o] = owned[o] + Equals(Fresh, o)
      /\ \A o \in Objects : owned'[o] > 0 \/ o \in DOMAIN Singletons => Used(o)'
  BY <1>1, <1>3, Made
<1>5. /\ calls' \in Seq(Frame) /\ Len(calls') = Len(calls) /\ val' = Fresh
      /\ StageInv' /\ WaitInv' /\ TapeInv'
      /\ \A q \in Objects : InCalls(calls', q) = InCalls(calls, q)
  BY <1>1, <1>2, <1>4, ValueReady
<1>6. partials' \in Seq(Partial) /\ results' \in Seq(Docs \X Objects) /\ val = Nil
  BY <1>1, OnTop DEF Inv, TypeInv, At
<1>7. ASSUME NEW o \in Objects PROVE owned'[o] = SumOf(o)'
  <2>1. Columns(o) /\ owned[o] = SumOf(o)
    BY AddUp DEF Inv
  <2>2. /\ owned'[o] = owned[o] + Equals(Fresh, o) /\ Equals(Fresh, o) \in Nat
        /\ InCalls(calls', o) = InCalls(calls, o) /\ Equals(val', o) = Equals(Fresh, o)
    BY <1>4, <1>5, EqualsIs
  <2>3. UNCHANGED <<partials, cache, results>>
    BY <1>1
  <2>4. Equals(val, o) = 0
    BY <1>6, SingletonsIn, EqualsIs
  <2> QED BY ONLY <2>1, <2>2, <2>3, <2>4 DEF Columns, SumOf
<1>8. owned' \in [Objects -> Nat] /\ \A o \in Objects : owned'[o] = Holders(o)'
  BY <1>4, <1>5, <1>6, <1>7, Recounted
<1>9. TypeInv' /\ CountInv'
  BY <1>1, <1>2, <1>4, <1>5, <1>8 DEF Inv, TypeInv, CountInv
<1> QED BY <1>5, <1>9 DEF Inv

LEMMA NewIs ==
  ASSUME NEW n \in Nat
  PROVE  /\ NewList(n) \in PyObject /\ NewList(n).t = "list"
         /\ NewDict \in PyObject /\ NewDict.t = "dict"
<1> DEFINE items == [m \in 1 .. n |-> <<Nil>>]
<1>1. <<Nil>> \in Seq({Nil} \cup Objects) \ {<<>>}
  OBVIOUS
<1>2. items \in Items /\ <<>> \in Items
  BY <1>1 DEF Items
<1> QED BY <1>2 DEF NewList, NewDict, PyObject

LEMMA NodeContainerKeeps ==
  ASSUME Inv, NodeContainer
  PROVE  Inv'
<1> DEFINE obj == IF Node.t = "list" THEN NewList(Node.len) ELSE NewDict
           p == [obj |-> Fresh, isList |-> Node.t = "list", filled |-> 0, len |-> Node.len, key |-> Nil]
           t == Tape[Top.doc]
<1>1. /\ At("build") /\ ~AwaitsKey /\ Node.t \in Containers /\ New(obj) /\ i' = i + 1
      /\ IF Node.len = 0
           THEN Finished(Fresh) /\ UNCHANGED partials
           ELSE partials' = Append(partials, p) /\ UNCHANGED <<calls, val>>
      /\ UNCHANGED <<borrowed, cache, results, left, failures>>
  BY DEF NodeContainer, bounds, Containers
<1>2. /\ Top.doc \in DOMAIN Tape /\ i \in DOMAIN t /\ i \in Nat /\ i' \in Nat
      /\ calls # <<>> /\ Top.pc = "build"
  BY <1>1, Reading DEF Inv, TypeInv, At
<1>3. /\ Node = t[i] /\ t[i].len \in Nat /\ Kids(t, i)[0] = i + 1
      /\ Kids(t, i)[t[i].len] = After(t, i)
  <2>1. Node = t[i] /\ t[i].len \in Nat
    BY <1>1, <1>2, NodeFacts DEF Node
  <2>2. Children(t, i, Kids(t, i))
    BY <1>1, <1>2, <2>1, TapeOf
  <2> QED BY <2>1, <2>2 DEF Children
<1>4. obj \in PyObject /\ obj.t # "unused"
  BY <1>3, NewIs
<1> HIDE DEF obj, t
<1>5. /\ Fresh \in Objects
      /\ heap' \in [Objects -> PyObject] /\ owned' \in [Objects -> Int]
      /\ \A o \in Objects : owned'[o] = owned[o] + Equals(Fresh, o)
      /\ \A o \in Objects : owned'[o] > 0 \/ o \in DOMAIN Singletons => Used(o)'
  BY <1>1, <1>4, Made
<1>6. /\ results' \in Seq(Docs \X Objects) /\ partials \in Seq(Partial) /\ calls \in Seq(Frame)
      /\ val = Nil /\ borrowed
  BY <1>1, <1>2, OnTop DEF Inv, TypeInv, Building
<1>7. SUFFICES
        /\ partials' \in Seq(Partial) /\ calls' \in Seq(Frame) /\ Len(calls') = Len(calls)
        /\ val' \in {Nil} \cup Objects /\ StageInv' /\ WaitInv' /\ TapeInv'
        /\ \A o \in Objects : owned'[o] = SumOf(o)'
  <2>1. ASSUME partials' \in Seq(Partial), calls' \in Seq(Frame), Len(calls') = Len(calls),
               val' \in {Nil} \cup Objects, StageInv', WaitInv', TapeInv',
               \A o \in Objects : owned'[o] = SumOf(o)'
        PROVE  Inv'
    <3>1. owned' \in [Objects -> Nat] /\ \A o \in Objects : owned'[o] = Holders(o)'
      BY <1>5, <1>6, <2>1, Recounted
    <3>2. TypeInv' /\ CountInv'
      BY <1>1, <1>2, <1>5, <1>6, <2>1, <3>1 DEF Inv, TypeInv, CountInv
    <3> QED BY <2>1, <3>2 DEF Inv
  <2> QED BY <2>1
<1>8. CASE Node.len = 0
  <2>1. Finished(Fresh) /\ partials' = partials /\ i' = After(Tape[Top.doc], i)
    BY <1>1, <1>3, <1>8 DEF t
  <2>2. /\ calls' \in Seq(Frame) /\ Len(calls') = Len(calls) /\ val' = Fresh
        /\ StageInv' /\ WaitInv' /\ TapeInv'
        /\ \A q \in Objects : InCalls(calls', q) = InCalls(calls, q)
    BY <1>1, <1>2, <1>5, <2>1, ValueReady
  <2>3. ASSUME NEW o \in Objects PROVE owned'[o] = SumOf(o)'
    <3>1. Columns(o) /\ owned[o] = SumOf(o)
      BY AddUp DEF Inv
    <3>2. /\ owned'[o] = owned[o] + Equals(Fresh, o) /\ Equals(Fresh, o) \in Nat
          /\ InCalls(calls', o) = InCalls(calls, o) /\ Equals(val', o) = Equals(Fresh, o)
      BY <1>5, <2>2, EqualsIs
    <3>3. UNCHANGED <<partials, cache, results>>
      BY <1>1, <2>1
    <3>4. Equals(val, o) = 0
      BY <1>6, SingletonsIn, EqualsIs
    <3> QED BY ONLY <3>1, <3>2, <3>3, <3>4 DEF Columns, SumOf
  <2> QED BY <1>5, <1>6, <2>1, <2>2, <2>3
<1>9. CASE Node.len # 0
  <2>1. partials' = Append(partials, p) /\ UNCHANGED <<calls, val>>
    BY <1>1, <1>9
  <2>2. /\ p \in Partial /\ Waits(p) /\ p.obj = Fresh /\ p.key = Nil /\ p.filled = 0 /\ p.len = t[i].len
        /\ t[i].t = IF p.isList THEN "list" ELSE "dict"
    <3>1. Node.len \in Nat \ {0} /\ Node.len = t[i].len /\ Node.t = t[i].t
      BY <1>3, <1>9
    <3>2. /\ p.obj = Fresh /\ p.key = Nil /\ p.filled = 0 /\ p.len = Node.len
          /\ p.isList \in BOOLEAN /\ (p.isList <=> Node.t = "list")
      OBVIOUS
    <3>3. p \in Partial
      BY <1>5, <3>1 DEF Partial
    <3>4. Waits(p)
      BY <3>1, <3>2 DEF Waits
    <3>5. t[i].t = IF p.isList THEN "list" ELSE "dict"
      BY <1>1, <3>1, <3>2 DEF Containers
    <3> QED BY <3>1, <3>2, <3>3, <3>4, <3>5
  <2> HIDE DEF p
  <2>3. partials' \in Seq(Partial)
    BY <1>6, <2>1, <2>2, Appended
  <2>4. WaitInv'
    <3>1. \A n \in 1 .. Len(partials) : Waits(partials[n])
      BY DEF Inv, WaitInv
    <3> QED BY <1>6, <2>1, <2>2, <3>1, AllWait DEF WaitInv
  <2>5. StageInv'
    BY <1>1, <1>6, <2>1 DEF Inv, StageInv, At, Top
  <2>6. TapeInv'
    <3>1. Reads(t, partials, i)
      BY <1>1 DEF Inv, TapeInv, t
    <3>2. partials = <<>> \/ Ready(partials[Len(partials)])
      BY <1>1 DEF AwaitsKey, Part, Ready
    <3>3. Fills(t, i, p, i + 1)
      <4>1. i + 1 = Kids(t, i)[p.filled] + 0
        BY <1>2, <1>3, <2>2
      <4> QED BY <1>2, <2>2, <4>1 DEF Fills
    <3>4. Reads(t, partials', i')
      BY <1>1, <1>2, <1>6, <2>1, <2>2, <3>1, <3>2, <3>3, ReadsPush
    <3>5. Top' = Top /\ Top'.pc = "build"
      BY <1>2, <2>1 DEF Top
    <3> QED BY <3>4, <3>5 DEF TapeInv, At, t
  <2>7. ASSUME NEW o \in Objects PROVE owned'[o] = SumOf(o)'
    <3>1. Columns(o) /\ owned[o] = SumOf(o)
      BY AddUp DEF Inv
    <3>2. InPartials(partials', o) = InPartials(partials, o) + Equals(Fresh, o) + Equals(Nil, o)
      BY <1>6, <2>1, <2>2, PushPartial
    <3>3. Equals(Nil, o) = 0 /\ Equals(Fresh, o) \in Nat
      BY SingletonsIn, EqualsIs
    <3>4. owned'[o] = owned[o] + Equals(Fresh, o)
      BY <1>5
    <3>5. UNCHANGED <<calls, val, cache, results>>
      BY <1>1, <2>1
    <3> QED BY ONLY <3>1, <3>2, <3>3, <3>4, <3>5 DEF Columns, SumOf
  <2> QED BY <1>6, <2>1, <2>3, <2>4, <2>5, <2>6, <2>7
<1> QED BY <1>8, <1>9

-----------------------------------------------------------------------------
(* Insertions. *)

(* The innermost container takes the finished value: the value's reference *)
(* and the key's are no longer on their way.                               *)
LEMMA Taken ==
  ASSUME Inv, At("insert"), partials # <<>>, Inserted, UNCHANGED <<borrowed, i>>
  PROVE  /\ partials' \in Seq(Partial) /\ calls' \in Seq(Frame) /\ Len(calls') = Len(calls)
         /\ val' \in {Nil} \cup Objects /\ StageInv' /\ WaitInv' /\ TapeInv'
         /\ \A o \in Objects :
              /\ InPartials(partials', o) + Equals(val', o) + Equals(Part.key, o)
                   = InPartials(partials, o)
              /\ InCalls(calls', o) = InCalls(calls, o)
<1> DEFINE f == [Top EXCEPT !.pc = "build"]
           t == Tape[Top.doc]
           p == Filled(Part)
<1>1. calls # <<>> /\ Top.pc = "insert"
  BY DEF At
<1>2. /\ Top \in Frame /\ FrameOK(Top) /\ Top.result = Nil /\ calls \in Seq(Frame)
      /\ borrowed /\ Top.doc \in DOMAIN Tape /\ i \in Nat
  BY <1>1, OnTop DEF Inv, TypeInv, FrameOK, Building
<1>3. /\ Part \in Partial /\ Waits(Part) /\ Below \in Seq(Partial) /\ partials = Append(Below, Part)
  BY Innermost DEF Inv
<1>4. /\ Part.filled \in Nat /\ Part.len \in Nat /\ Part.filled < Part.len
      /\ Part.obj \in Objects /\ Part.obj # Nil
      /\ p = [Part EXCEPT !.filled = Part.filled + 1, !.key = Nil]
  BY <1>3, SingletonsIn DEF Partial, Waits, Filled
<1>5. /\ p \in Partial /\ p.obj = Part.obj /\ p.key = Nil /\ p.filled = Part.filled + 1
      /\ p.len = Part.len /\ p.isList = Part.isList
  <2> DEFINE a == Part
             k == Part.filled + 1
  <2>1. a \in Partial /\ k \in Nat /\ p = [a EXCEPT !.filled = k, !.key = Nil]
    BY <1>3, <1>4
  <2> HIDE DEF a, k, p
  <2>2. p \in Partial /\ p.obj = a.obj /\ p.key = Nil /\ p.filled = k /\ p.len = a.len /\ p.isList = a.isList
    BY <2>1 DEF Partial
  <2> QED BY <2>2 DEF a, k
<1> HIDE DEF p, t
<1>6. PICK n \in DOMAIN t : Reads(t, Append(Below, Part), n) /\ i = After(t, n)
  BY <1>3 DEF Inv, TapeInv, t
<1>7. Ready(Part)
  BY DEF Inv, TapeInv, AwaitsKey, Ready
<1>8. Below = <<>> \/ Ready(Below[Len(Below)])
  BY <1>3, <1>6, ReadsPop
<1>9. PICK m : Reads(t, Below, m) /\ Fills(t, m, Part, n)
  BY <1>3, <1>6, ReadsPop
<1>10. m \in DOMAIN t /\ Kids(t, m)[Part.filled + 1] = i /\ Kids(t, m)[Part.len] = After(t, m)
  <2>1. Fills(Tape[Top.doc], m, Part, n)
    BY <1>9 DEF t
  <2>2. /\ m \in DOMAIN t
        /\ Part.isList \/ Part.key # Nil => Kids(t, m)[Part.filled + 1] = After(t, n)
        /\ Kids(t, m)[Part.len] = After(t, m)
    <3> DEFINE d == Top.doc
               q == Part
    <3>1. d \in DOMAIN Tape /\ q \in Partial /\ Fills(Tape[d], m, q, n) /\ Waits(q)
      BY <1>2, <1>3, <2>1
    <3> HIDE DEF d, q
    <3>2. /\ m \in DOMAIN Tape[d]
          /\ q.isList \/ q.key # Nil => Kids(Tape[d], m)[q.filled + 1] = After(Tape[d], n)
          /\ Kids(Tape[d], m)[q.len] = After(Tape[d], m)
      BY <3>1, NextKid
    <3> QED BY <3>2 DEF d, q, t
  <2> QED BY <1>6, <1>7, <2>2 DEF Ready
<1>11. ASSUME NEW o \in Objects
       PROVE  /\ InPartials(partials, o) = InPartials(Below, o) + Equals(Part.obj, o) + Equals(Part.key, o)
              /\ InPartials(Below, o) \in Nat /\ Equals(Part.obj, o) \in Nat /\ Equals(Part.key, o) \in Nat
              /\ Equals(Nil, o) = 0
  <2>1. results \in Seq(Docs \X Objects)
    BY DEF Inv, TypeInv
  <2>2. InPartials(Below, o) \in Nat
    BY <1>2, <1>3, <2>1, InNat
  <2> QED BY <1>3, <2>2, PushPartial, SingletonsIn, EqualsIs
<1>12. CASE Part.filled + 1 < Part.len
  <2>1. partials' = Append(Below, p) /\ Goto(f) /\ val' = Nil
    BY <1>12 DEF Inserted, p
  <2>2. f \in Frame /\ FrameOK(f) /\ f.pc = "build" /\ f.result = Nil /\ f.doc = Top.doc
    BY <1>1, <1>2 DEF Frame, PCs, FrameOK, Fault, Unencoded, Building
  <2> HIDE DEF f
  <2>3. /\ calls' \in Seq(Frame) /\ Len(calls') = Len(calls) /\ StageInv' /\ Top' = f
        /\ \A pc : At(pc)' <=> f.pc = pc
    BY <1>1, <1>2, <2>1, <2>2, GoesOnAs DEF Inv, Building
  <2>4. Waits(p)
    BY <1>5, <1>12 DEF Waits
  <2>5. partials' \in Seq(Partial) /\ WaitInv'
    <3>1. partials' \in Seq(Partial)
      BY <1>3, <1>5, <2>1, Appended
    <3>2. \A k \in 1 .. Len(Below) : Waits(Below[k])
      BY BelowWait DEF Inv
    <3> QED BY <1>3, <1>5, <2>1, <2>4, <3>1, <3>2, AllWait DEF WaitInv
  <2>6. TapeInv'
    <3>1. Fills(t, m, p, i)
      <4>1. i = Kids(t, m)[p.filled] + 0
        BY <1>2, <1>5, <1>10
      <4> QED BY <1>5, <1>9, <4>1 DEF Fills
    <3>2. Reads(t, partials', i)
      BY <1>2, <1>3, <1>5, <1>8, <1>9, <2>1, <3>1, ReadsPush
    <3> QED BY <2>2, <2>3, <3>2 DEF TapeInv, t
  <2>7. ASSUME NEW o \in Objects
        PROVE  /\ InPartials(partials', o) + Equals(val', o) + Equals(Part.key, o) = InPartials(partials, o)
               /\ InCalls(calls', o) = InCalls(calls, o)
    <3>1. InPartials(partials', o) = InPartials(Below, o) + Equals(Part.obj, o) + Equals(Nil, o)
      BY <1>3, <1>5, <2>1, PushPartial
    <3>2. InPartials(partials', o) + Equals(val', o) + Equals(Part.key, o) = InPartials(partials, o)
      BY <1>11, <2>1, <3>1
    <3>3. InCalls(calls', o) + Equals(Top.result, o) = InCalls(calls, o) + Equals(f.result, o)
      <4>1. calls' = [calls EXCEPT ![Len(calls)] = f]
        BY <2>1 DEF Goto
      <4> QED BY <1>1, <1>2, <2>2, <4>1, SetCall DEF Top
    <3>4. Equals(Top.result, o) = 0 /\ Equals(f.result, o) = 0
      BY <1>2, <1>11, <2>2
    <3>5. InCalls(calls', o) \in Nat /\ InCalls(calls, o) \in Nat
      <4>1. results \in Seq(Docs \X Objects)
        BY DEF Inv, TypeInv
      <4> QED BY <1>2, <1>3, <2>3, <4>1, InNat
    <3>6. InCalls(calls', o) = InCalls(calls, o)
      BY ONLY <3>3, <3>4, <3>5
    <3> QED BY <3>2, <3>6
  <2> QED BY <2>1, <2>3, <2>5, <2>6, <2>7
<1>13. CASE ~(Part.filled + 1 < Part.len)
  <2>1. partials' = Below /\ val' = Part.obj /\ calls' = calls
    BY <1>13 DEF Inserted
  <2>2. Part.filled + 1 = Part.len
    BY <1>4, <1>13
  <2>3. Top' = Top /\ Top'.pc = "insert"
    BY <1>1, <2>1 DEF Top
  <2>4. StageInv'
    BY <1>1, <1>2, <1>4, <2>1, <2>3 DEF Inv, StageInv, At
  <2>5. WaitInv'
    BY <2>1, BelowWait DEF Inv, WaitInv
  <2>6. TapeInv'
    <3>1. ~AwaitsKey'
      BY <1>8, <2>1 DEF AwaitsKey, Part, Ready
    <3>2. i' = After(t, m)
      BY <1>10, <2>2
    <3> QED BY <1>9, <1>10, <2>1, <2>3, <3>1, <3>2 DEF TapeInv, At, t
  <2>7. ASSUME NEW o \in Objects
        PROVE  InPartials(partials', o) + Equals(val', o) + Equals(Part.key, o) = InPartials(partials, o)
    BY <1>11, <2>1
  <2> QED BY <1>2, <1>3, <1>4, <2>1, <2>4, <2>5, <2>6, <2>7
<1> QED BY <1>12, <1>13

(* What holds of the heap and of the counts of owned references is enough  *)
(* for a step that inserts.                                                *)
LEMMA Inserts ==
  ASSUME Inv, At("insert"), partials # <<>>, Inserted,
         UNCHANGED <<borrowed, i, cache, results, left, failures>>,
         heap' \in [Objects -> PyObject], owned' \in [Objects -> Int],
         \A o \in Objects : owned'[o] = owned[o] - Equals(val, o) - Equals(Part.key, o),
         \A o \in Objects : owned'[o] > 0 \/ o \in DOMAIN Singletons => Used(o)'
  PROVE  Inv'
<1>1. /\ partials' \in Seq(Partial) /\ calls' \in Seq(Frame) /\ Len(calls') = Len(calls)
      /\ val' \in {Nil} \cup Objects /\ StageInv' /\ WaitInv' /\ TapeInv'
      /\ \A o \in Objects :
           /\ InPartials(partials', o) + Equals(val', o) + Equals(Part.key, o) = InPartials(partials, o)
           /\ InCalls(calls', o) = InCalls(calls, o)
  BY Taken
<1>2. results' \in Seq(Docs \X Objects)
  BY DEF Inv, TypeInv
<1>3. ASSUME NEW o \in Objects PROVE owned'[o] = SumOf(o)'
  <2>1. Columns(o) /\ owned[o] = SumOf(o)
    BY AddUp DEF Inv
  <2>2. /\ InPartials(partials', o) + Equals(val', o) + Equals(Part.key, o) = InPartials(partials, o)
        /\ InCalls(calls', o) = InCalls(calls, o)
        /\ owned'[o] = owned[o] - Equals(val, o) - Equals(Part.key, o)
    BY <1>1
  <2>3. InPartials(partials', o) \in Nat /\ Equals(val', o) \in Nat /\ Equals(Part.key, o) \in Nat
    BY <1>1, <1>2, AddUpNext, EqualsIs
  <2>4. UNCHANGED <<cache, results>>
    OBVIOUS
  <2> QED BY ONLY <2>1, <2>2, <2>3, <2>4 DEF Columns, SumOf
<1>4. owned' \in [Objects -> Nat] /\ \A o \in Objects : owned'[o] = Holders(o)'
  BY <1>1, <1>2, <1>3, Recounted
<1>5. TypeInv'
  BY <1>1, <1>4 DEF Inv, TypeInv
<1>6. CountInv'
  BY <1>4 DEF Inv, CountInv
<1> QED BY <1>1, <1>5, <1>6 DEF Inv

(* What a value's holders and its key's own before the insertion.          *)
LEMMA Insertion ==
  ASSUME Inv, At("insert"), partials # <<>>
  PROVE  /\ Part \in Partial /\ val \in Objects /\ Part.obj \in Objects /\ Part.filled \in Nat
         /\ Part.isList => Part.key = Nil
         /\ ~Part.isList => Part.key \in Objects
         /\ heap \in [Objects -> PyObject] /\ owned \in [Objects -> Int]
<1>1. calls # <<>> /\ Top.pc = "insert"
  BY DEF At
<1>2. val # Nil /\ Part \in Partial /\ Waits(Part) /\ ~AwaitsKey
  BY <1>1, OnTop, Innermost DEF Inv, TapeInv
<1>3. Part.key \in {Nil} \cup Objects /\ Part.obj \in Objects /\ Part.filled \in Nat
  BY <1>2 DEF Partial
<1> QED BY <1>2, <1>3 DEF Inv, TypeInv, AwaitsKey, Waits

LEMMA InsertItemKeeps ==
  ASSUME Inv, InsertItem
  PROVE  Inv'
<1> DEFINE c == Part.obj
           k == Part.filled + 1
           x == [heap[c] EXCEPT !.items = [@ EXCEPT ![k] = <<val>>]]
<1>1. /\ At("insert") /\ partials # <<>> /\ Part.isList
      /\ heap' = [heap EXCEPT ![c] = x] /\ owned' = [owned EXCEPT ![val] = @ - 1]
      /\ Inserted /\ UNCHANGED <<borrowed, i, cache, results, left, failures>>
  BY DEF InsertItem, bounds
<1>2. /\ val \in Objects /\ c \in Objects /\ Part.key = Nil
      /\ heap \in [Objects -> PyObject] /\ owned \in [Objects -> Int]
  BY <1>1, Insertion
<1>3. x \in PyObject /\ x.t = heap[c].t
  <2> DEFINE y == heap[c]
             items == y.items
             more == [items EXCEPT ![k] = <<val>>]
  <2>1. y \in PyObject /\ items \in Items /\ y.items = items
    BY <1>2 DEF PyObject
  <2>2. <<val>> \in Seq({Nil} \cup Objects) \ {<<>>} /\ k \in Nat
    <3>1. Part.filled \in Nat
      BY <1>1, Insertion
    <3> QED BY <1>2, <3>1
  <2> HIDE DEF k, y, items
  <2>3. more \in Items
    BY <2>1, <2>2, ReplacedAt DEF Items
  <2> HIDE DEF more
  <2>4. [y EXCEPT !.items = more] \in PyObject /\ [y EXCEPT !.items = more].t = y.t
    BY <2>1, <2>3 DEF PyObject
  <2>5. x = [y EXCEPT !.items = more]
    BY DEF y, more, items
  <2> QED BY <2>4, <2>5 DEF y
<1> HIDE DEF c, x
<1>4. owned' \in [Objects -> Int] /\ \A o \in Objects : owned'[o] = owned[o] - Equals(val, o)
  BY <1>1, <1>2, OneLess
<1>5. \A o \in Objects : owned'[o] = owned[o] - Equals(val, o) - Equals(Part.key, o)
  <2>1. \A o \in Objects : Equals(Part.key, o) = 0 /\ owned'[o] \in Int
    BY <1>2, <1>4, SingletonsIn, EqualsIs
  <2> QED BY <1>4, <2>1
<1>6. heap' \in [Objects -> PyObject] /\ \A o \in Objects : heap'[o].t = heap[o].t
  BY <1>1, <1>2, <1>3
<1>7. ASSUME NEW o \in Objects, owned'[o] > 0 \/ o \in DOMAIN Singletons PROVE Used(o)'
  <2>1. owned'[o] = owned[o] - Equals(val, o) /\ owned[o] \in Int /\ Equals(val, o) \in Nat
    BY <1>2, <1>4, EqualsIs
  <2>2. owned[o] > 0 \/ o \in DOMAIN Singletons
    BY <1>7, <2>1
  <2>3. Used(o)
    BY <2>2 DEF Inv, CountInv
  <2> QED BY <1>6, <2>3 DEF Used
<1> QED BY <1>1, <1>4, <1>5, <1>6, <1>7, Inserts

(* The dict's item stays an item.                                          *)
LEMMA SetItemIs ==
  ASSUME NEW items \in Items, NEW k \in Objects, NEW v \in Objects
  PROVE  SetItem(items, k, v) \in Items
<1> DEFINE Ref == {Nil} \cup Objects
           X == Seq(Ref) \ {<<>>}
<1>1. items \in Seq(X) /\ Len(items) \in Nat /\ DOMAIN items = 1 .. Len(items)
      /\ \A n \in DOMAIN items : items[n] \in X
  BY DEF Items
<1>2. \A n \in DOMAIN items : items[n][1] \in Ref
  <2>1. \A s \in X : s[1] \in Ref
    OBVIOUS
  <2> QED BY <1>1, <2>1
<1>3. \A a, b \in Ref : <<a, b>> \in X
  OBVIOUS
<1>4. \A n \in DOMAIN items : <<items[n][1], v>> \in X
  BY <1>2, <1>3
<1>5. <<k, v>> \in X
  BY <1>3
<1> HIDE DEF X
<1>6. CASE \E n \in DOMAIN items : Same(items[n][1], k)
  <2> DEFINE m == Len(items)
             y(n) == IF Same(items[n][1], k) THEN <<items[n][1], v>> ELSE items[n]
             r == [n \in 1 .. m |-> y(n)]
  <2>1. m \in Nat /\ \A n \in 1 .. m : y(n) \in X
    BY <1>1, <1>4
  <2>2. SetItem(items, k, v) = r
    BY <1>1, <1>6 DEF SetItem
  <2> HIDE DEF m, y
  <2>3. r \in Seq(X)
    BY <2>1
  <2> QED BY <2>2, <2>3 DEF Items, X
<1>7. CASE ~(\E n \in DOMAIN items : Same(items[n][1], k))
  <2>1. SetItem(items, k, v) = Append(items, <<k, v>>)
    BY <1>7 DEF SetItem
  <2>2. Append(items, <<k, v>>) \in Seq(X)
    BY <1>1, <1>5, Appended
  <2> QED BY <2>1, <2>2 DEF Items, X
<1> QED BY <1>6, <1>7

LEMMA ReleasedIs ==
  ASSUME owned \in [Objects -> Int], NEW k \in Objects, NEW v \in Objects
  PROVE  /\ Released(k, v) \in [Objects -> Int]
         /\ \A o \in Objects : Released(k, v)[o] = owned[o] - Equals(v, o) - Equals(k, o)
<1> DEFINE r == Released(k, v)
<1>1. \A o \in Objects : Equals(k, o) = (IF k = o THEN 1 ELSE 0) /\ Equals(v, o) = (IF v = o THEN 1 ELSE 0)
  BY DEF Equals
<1>2. CASE k = v
  <2>1. r = [owned EXCEPT ![v] = @ - 2]
    BY <1>2 DEF Released
  <2> HIDE DEF r
  <2>2. r \in [Objects -> Int] /\ \A o \in Objects : r[o] = owned[o] - Equals(v, o) - Equals(k, o)
    BY <1>1, <1>2, <2>1
  <2> QED BY <2>2 DEF r
<1>3. CASE k # v
  <2>1. r = [owned EXCEPT ![v] = @ - 1, ![k] = @ - 1]
    BY <1>3 DEF Released
  <2> HIDE DEF r
  <2>2. r \in [Objects -> Int] /\ \A o \in Objects : r[o] = owned[o] - Equals(v, o) - Equals(k, o)
    BY <1>1, <1>3, <2>1
  <2> QED BY <2>2 DEF r
<1> QED BY <1>2, <1>3

LEMMA InsertMemberKeeps ==
  ASSUME Inv, InsertMember
  PROVE  Inv'
<1> DEFINE c == Part.obj
           x == [heap[c] EXCEPT !.items = SetItem(@, Part.key, val)]
           h == [heap EXCEPT ![c] = x]
           own == Released(Part.key, val)
<1>1. /\ At("insert") /\ partials # <<>> /\ ~Part.isList
      /\ Settle(h, own)
      /\ Inserted /\ UNCHANGED <<borrowed, i, cache, results, left, failures>>
  BY DEF InsertMember, bounds
<1>2. /\ val \in Objects /\ c \in Objects /\ Part.key \in Objects
      /\ heap \in [Objects -> PyObject] /\ owned \in [Objects -> Int]
  BY <1>1, Insertion
<1>3. x \in PyObject /\ x.t = heap[c].t
  <2> DEFINE y == heap[c]
             items == y.items
             more == SetItem(items, Part.key, val)
  <2>1. y \in PyObject /\ items \in Items /\ y.items = items
    BY <1>2 DEF PyObject
  <2> HIDE DEF y, items
  <2>2. more \in Items
    BY <1>2, <2>1, SetItemIs
  <2> HIDE DEF more
  <2>3. [y EXCEPT !.items = more] \in PyObject /\ [y EXCEPT !.items = more].t = y.t
    BY <2>1, <2>2 DEF PyObject
  <2>4. x = [y EXCEPT !.items = more]
    BY DEF y, more, items
  <2> QED BY <2>3, <2>4 DEF y
<1> HIDE DEF c, x
<1>4. h \in [Objects -> PyObject] /\ \A o \in Objects : h[o].t = heap[o].t
  BY <1>2, <1>3
<1>5. /\ own \in [Objects -> Int]
      /\ \A o \in Objects : own[o] = owned[o] - Equals(val, o) - Equals(Part.key, o)
  BY <1>2, ReleasedIs
<1> HIDE DEF h, own
<1>6. /\ owned' = own /\ heap' \in [Objects -> PyObject]
      /\ \A o \in Objects : own[o] > 0 \/ o \in DOMAIN Singletons => heap'[o] = h[o]
  BY <1>1, <1>4, SettleKeeps
<1>7. ASSUME NEW o \in Objects, owned'[o] > 0 \/ o \in DOMAIN Singletons PROVE Used(o)'
  <2>1. /\ owned'[o] = owned[o] - Equals(val, o) - Equals(Part.key, o) /\ owned[o] \in Int
        /\ Equals(val, o) \in Nat /\ Equals(Part.key, o) \in Nat
    BY <1>2, <1>5, <1>6, EqualsIs
  <2>2. owned[o] > 0 \/ o \in DOMAIN Singletons
    BY <1>7, <2>1
  <2>3. Used(o)
    BY <2>2 DEF Inv, CountInv
  <2> QED BY <1>4, <1>6, <1>7, <2>3 DEF Used
<1> QED BY <1>1, <1>5, <1>6, <1>7, Inserts

LEMMA InsertFailsKeeps ==
  ASSUME Inv, InsertFails
  PROVE  Inv'
<1> DEFINE own == Released(Part.key, val)
           p == [Part EXCEPT !.key = Nil]
           f == [Top EXCEPT !.pc = "unwind", !.exc = "memory"]
<1>1. /\ At("insert") /\ partials # <<>> /\ ~Part.isList
      /\ failures > 0 /\ failures' = failures - 1 /\ Goto(f)
      /\ Settle(heap, own) /\ partials' = Append(Below, p) /\ val' = Nil
      /\ UNCHANGED <<borrowed, i, cache, results, left>>
  BY DEF InsertFails, Fails
<1>2. /\ val \in Objects /\ Part.key \in Objects
      /\ heap \in [Objects -> PyObject] /\ owned \in [Objects -> Int]
  BY <1>1, Insertion
<1>3. /\ calls # <<>> /\ Top.pc = "insert" /\ Top \in Frame /\ FrameOK(Top) /\ Top.result = Nil
      /\ calls \in Seq(Frame) /\ borrowed
  BY <1>1, OnTop DEF Inv, TypeInv, At, Building
<1>4. f \in Frame /\ FrameOK(f) /\ f.pc = "unwind" /\ f.result = Nil
  BY <1>3 DEF Frame, PCs, Exceptions, FrameOK, Fault, Unencoded, Building
<1> HIDE DEF f
<1>5. /\ calls' \in Seq(Frame) /\ Len(calls') = Len(calls) /\ StageInv'
      /\ \A pc : At(pc)' <=> f.pc = pc
  BY <1>1, <1>3, <1>4, GoesOnAs DEF Inv, Building
<1>6. /\ Part \in Partial /\ Waits(Part) /\ Below \in Seq(Partial) /\ partials = Append(Below, Part)
  BY <1>1, Innermost DEF Inv
<1>7. p \in Partial /\ Waits(p) /\ p.key = Nil /\ p.obj = Part.obj
  BY <1>6 DEF Partial, Waits
<1> HIDE DEF p
<1>8. partials' \in Seq(Partial) /\ WaitInv' /\ TapeInv'
  <2>1. partials' \in Seq(Partial)
    BY <1>1, <1>6, <1>7, Appended
  <2>2. \A k \in 1 .. Len(Below) : Waits(Below[k])
    BY <1>1, BelowWait DEF Inv
  <2>3. WaitInv'
    BY <1>1, <1>6, <1>7, <2>2, AllWait DEF WaitInv
  <2> QED BY <1>4, <1>5, <2>1, <2>3 DEF TapeInv
<1>9. /\ own \in [Objects -> Int]
      /\ \A o \in Objects : own[o] = owned[o] - Equals(val, o) - Equals(Part.key, o)
  BY <1>2, ReleasedIs
<1> HIDE DEF own
<1>10. results' \in Seq(Docs \X Objects)
  BY <1>1 DEF Inv, TypeInv
<1>11. ASSUME NEW o \in Objects
       PROVE  own[o] = SumOf(o)' /\ (own[o] > 0 => owned[o] > 0)
  <2>1. Columns(o) /\ owned[o] = SumOf(o)
    BY AddUp DEF Inv
  <2>2. /\ InPartials(partials', o) = InPartials(Below, o) + Equals(Part.obj, o) + Equals(Nil, o)
        /\ InPartials(partials, o) = InPartials(Below, o) + Equals(Part.obj, o) + Equals(Part.key, o)
    BY <1>1, <1>6, <1>7, PushPartial
  <2>3. InPartials(Below, o) \in Nat
    BY <1>5, <1>6, <1>10, InNat
  <2>4. /\ Equals(Nil, o) = 0 /\ Equals(val', o) = 0 /\ Equals(val, o) \in Nat
        /\ Equals(Part.key, o) \in Nat /\ Equals(Part.obj, o) \in Nat
    BY <1>1, SingletonsIn, EqualsIs
  <2>5. InCalls(calls', o) + Equals(Top.result, o) = InCalls(calls, o) + Equals(f.result, o)
    <3>1. calls' = [calls EXCEPT ![Len(calls)] = f]
      BY <1>1 DEF Goto
    <3> QED BY <1>3, <1>4, <3>1, SetCall DEF Top
  <2>6. Equals(Top.result, o) = 0 /\ Equals(f.result, o) = 0
    BY <1>3, <1>4, <2>4
  <2>7. InCalls(calls', o) \in Nat
    BY <1>5, <1>8, <1>10, AddUpNext
  <2>8. own[o] = owned[o] - Equals(val, o) - Equals(Part.key, o)
    BY <1>9
  <2>9. UNCHANGED <<cache, results>>
    BY <1>1
  <2> QED BY ONLY <2>1, <2>2, <2>3, <2>4, <2>5, <2>6, <2>7, <2>8, <2>9 DEF Columns, SumOf
<1>12. \A o \in Objects : own[o] > 0 \/ o \in DOMAIN Singletons => heap[o].t # "unused"
  BY <1>11 DEF Inv, CountInv, Used
<1>13. /\ owned' = own /\ owned' \in [Objects -> Nat] /\ heap' \in [Objects -> PyObject]
       /\ \A o \in Objects : owned'[o] = Holders(o)'
       /\ \A o \in Objects : owned'[o] > 0 \/ o \in DOMAIN Singletons => Used(o)'
  BY <1>1, <1>2, <1>5, <1>8, <1>9, <1>10, <1>11, <1>12, Settled
<1>14. failures' \in 0 .. MaxFailures
  BY <1>1, LoadsAssumption DEF Inv, TypeInv
<1>15. TypeInv' /\ CountInv'
  BY <1>1, <1>5, <1>8, <1>13, <1>14 DEF Inv, TypeInv, CountInv
<1> QED BY <1>5, <1>8, <1>15 DEF Inv

-----------------------------------------------------------------------------
(* The invariant holds, and the theorems. *)

LEMMA InitInv ==
  ASSUME Init
  PROVE  Inv
<1>1. /\ calls = <<>> /\ borrowed = FALSE /\ i = 1 /\ partials = <<>> /\ val = Nil
      /\ cache = EmptyCache /\ owned = [o \in Objects |-> 0] /\ results = <<>>
      /\ left = MaxCalls /\ failures = MaxFailures
      /\ heap = [o \in Objects |-> IF o \in DOMAIN Singletons THEN Num(Singletons[o]) ELSE Unused]
  BY DEF Init
<1>2. cache \in [Slots -> Entry] /\ \A s \in Slots : cache[s].key = Nil
  BY <1>1 DEF EmptyCache, Entry
<1>3. \A o \in DOMAIN Singletons : Num(Singletons[o]) \in PyObject /\ Num(Singletons[o]).t = "num"
  <2>1. \A o \in DOMAIN Singletons : Singletons[o] \in STRING
    BY LoadsAssumption
  <2> QED BY <2>1, StrIs
<1>4. Unused \in PyObject
  <2>1. <<>> \in Items
    BY DEF Items
  <2> QED BY <2>1 DEF Unused, PyObject
<1>5. heap \in [Objects -> PyObject] /\ \A o \in DOMAIN Singletons : Used(o)
  <2>1. \A o \in DOMAIN Singletons : heap[o] = Num(Singletons[o])
    BY <1>1, SingletonsIn
  <2>2. \A o \in DOMAIN Singletons : heap[o].t = "num"
    BY <1>3, <2>1
  <2> QED BY <1>1, <1>3, <1>4, <2>2 DEF Used
<1>6. TypeInv
  <2>1. calls \in Seq(Frame) /\ partials \in Seq(Partial) /\ results \in Seq(Docs \X Objects)
    BY <1>1
  <2>2. Len(calls) <= MaxNesting
    BY <1>1, LoadsAssumption
  <2>3. owned \in [Objects -> Nat] /\ left \in 0 .. MaxCalls /\ failures \in 0 .. MaxFailures
    BY <1>1, LoadsAssumption
  <2>4. borrowed \in BOOLEAN /\ i \in Nat /\ val \in {Nil} \cup Objects
    BY <1>1
  <2> QED BY <1>2, <1>5, <2>1, <2>2, <2>3, <2>4 DEF TypeInv
<1>7. StageInv
  BY <1>1 DEF StageInv, At
<1>8. WaitInv /\ TapeInv
  BY <1>1 DEF WaitInv, TapeInv, At
<1>9. ASSUME NEW o \in Objects PROVE owned[o] = 0 /\ Holders(o) = 0
  <2>1. IsFiniteSet({}) /\ Cardinality({}) = 0
    BY FS_EmptySet
  <2>2. /\ {n \in DOMAIN partials : partials[n].obj = o} = {}
        /\ {n \in DOMAIN partials : partials[n].key = o} = {}
        /\ {s \in Slots : cache[s].key = o} = {}
        /\ {n \in DOMAIN calls : calls[n].result = o} = {}
        /\ {n \in DOMAIN results : results[n][2] = o} = {}
    BY <1>1, <1>2, SingletonsIn
  <2>3. val # o
    BY <1>1, SingletonsIn
  <2>4. /\ Cardinality({n \in DOMAIN partials : partials[n].obj = o}) = 0
        /\ Cardinality({n \in DOMAIN partials : partials[n].key = o}) = 0
        /\ Cardinality({s \in Slots : cache[s].key = o}) = 0
        /\ Cardinality({n \in DOMAIN calls : calls[n].result = o}) = 0
        /\ Cardinality({n \in DOMAIN results : results[n][2] = o}) = 0
    BY <2>1, <2>2
  <2>5. Holders(o) = 0
    BY ONLY <2>3, <2>4 DEF Holders
  <2> QED BY <1>1, <2>5
<1>10. CountInv
  BY <1>2, <1>5, <1>9 DEF CountInv
<1> QED BY <1>6, <1>7, <1>8, <1>10 DEF Inv

LEMMA NextInv ==
  ASSUME Inv, [Next]_vars
  PROVE  Inv'
<1>1. CASE Native
  <2>1. CASE EncodeFails \/ Blank \/ Parse \/ Reject
    BY <2>1, EncodeFailsKeeps, BlankKeeps, ParseKeeps, RejectKeeps
  <2>2. CASE KeyHit \/ KeyMiss \/ KeyUncached \/ KeyFails
    BY <2>2, KeyHitKeeps, KeyMissKeeps, KeyUncachedKeeps, FailsKeeps
  <2>3. CASE NodeConst \/ NodeScalar \/ NodeContainer \/ NodeFails
    BY <2>3, NodeConstKeeps, NodeScalarKeeps, NodeContainerKeeps, FailsKeeps
  <2>4. CASE InsertItem \/ InsertMember \/ InsertFails
    BY <2>4, InsertItemKeeps, InsertMemberKeeps, InsertFailsKeeps
  <2>5. CASE Built \/ DropPartial \/ Unwound
    BY <2>5, BuiltKeeps, DropPartialKeeps, UnwoundKeeps
  <2>6. CASE RaiseFails \/ RaiseArgs \/ Raised \/ ReleaseArgs \/ Return
    BY <2>6, RaiseFailsKeeps, RaiseArgsKeeps, RaisedKeeps, ReleaseArgsKeeps, ReturnKeeps
  <2> QED BY <1>1, <2>1, <2>2, <2>3, <2>4, <2>5, <2>6 DEF Native
<1>2. ASSUME NEW s \in Arguments, NEW d \in Docs, s \in BadSources => d = BlankDoc, Call(s, d)
      PROVE  Inv'
  BY <1>2, CallKeeps
<1>3. ASSUME NEW n \in DOMAIN results, DropResult(n)
      PROVE  Inv'
  BY <1>3, DropResultKeeps
<1>4. CASE ClearCache
  BY <1>4, ClearCacheKeeps
<1>5. CASE UNCHANGED vars
  <2>1. UNCHANGED <<calls, borrowed, i, partials, val, cache, heap, owned, results, left, failures>>
    BY <1>5 DEF vars
  <2>2. TypeInv' /\ StageInv' /\ WaitInv'
    BY <2>1 DEF Inv, TypeInv, StageInv, WaitInv, At, Top
  <2>3. CountInv'
    BY <2>1 DEF Inv, CountInv, Holders, Used
  <2>4. TapeInv'
    BY <2>1 DEF Inv, TapeInv, At, Top, AwaitsKey, Part
  <2> QED BY <2>2, <2>3, <2>4 DEF Inv
<1>6. Python => Inv'
  BY <1>2, <1>3, <1>4 DEF Python
<1> QED BY <1>1, <1>5, <1>6 DEF Next

(* Every variable keeps its type, and the count of an object's references  *)
(* never falls below zero.                                                 *)
THEOREM TypeCorrect == Spec => []TypeOK
<1>1. Inv => TypeOK
  <2>1. ASSUME Inv, NEW o \in Objects
        PROVE  /\ heap[o].t \in {"str", "num", "list", "dict", "unused"}
               /\ Contents(heap[o]) \subseteq Objects
    <3>1. heap[o] \in PyObject
      BY <2>1 DEF Inv, TypeInv
    <3> QED BY <3>1, ContentsIn DEF PyObject
  <2>2. ASSUME Inv PROVE TypeOK
    <3>1. \A n \in DOMAIN results : results[n] \in Docs \X Objects
      BY <2>2 DEF Inv, TypeInv
    <3> QED BY <2>1, <2>2, <3>1 DEF Inv, TypeInv, TypeOK, Entry
  <2> QED BY <2>2
<1> QED BY <1>1, InitInv, NextInv, PTL DEF Spec

(* The counts are exact: whatever is cached, evicted, stolen, replaced or  *)
(* half built when an allocation fails, every reference is released once,  *)
(* and what is referred to is not freed.                                   *)
THEOREM AlwaysExact == Spec => []RefsExact
<1>1. Inv => RefsExact
  <2>1. ASSUME Inv, NEW o \in Objects PROVE owned[o] = Holders(o) /\ (Holders(o) > 0 => heap[o] # Unused)
    <3>1. owned[o] = Holders(o) /\ (owned[o] > 0 => heap[o].t # "unused")
      BY <2>1 DEF Inv, CountInv, Used
    <3>2. Unused.t = "unused"
      BY DEF Unused
    <3> QED BY <3>1, <3>2
  <2> QED BY <2>1 DEF RefsExact
<1> QED BY <1>1, InitInv, NextInv, PTL DEF Spec

(* "The scratch is borrowed only while no Python code can run."            *)
THEOREM AlwaysFree == Spec => []ScratchFree
<1>1. Inv => ScratchFree
  BY DEF Inv, StageInv, ScratchFree, Building
<1> QED BY <1>1, InitInv, NextInv, PTL DEF Spec

(* build never reads past the tape and never fills past a container, takes *)
(* a string where a name is due, and has read all of the tape at its end.  *)
THEOREM AlwaysInBounds == Spec => []InBounds
<1>1. ASSUME Inv PROVE InBounds
  <2>1. At("build") => i \in DOMAIN Tape[Top.doc] /\ (AwaitsKey => Node.t = "str")
    BY <1>1, Reading DEF Inv
  <2>2. \A n \in DOMAIN partials : partials[n].filled < partials[n].len
    <3>1. DOMAIN partials = 1 .. Len(partials)
      BY <1>1 DEF Inv, TypeInv
    <3> QED BY <1>1, <3>1 DEF Inv, WaitInv, Waits
  <2>3. ASSUME At("insert"), partials = <<>> PROVE i = Len(Tape[Top.doc]) + 1
    <3>1. PICK n \in DOMAIN Tape[Top.doc] : Reads(Tape[Top.doc], partials, n) /\ i = After(Tape[Top.doc], n)
      BY <1>1, <2>3 DEF Inv, TapeInv
    <3>2. n = 1
      BY <2>3, <3>1, ReadsStart
    <3>3. Top.doc \in DOMAIN Tape
      BY <1>1, <2>3, OnTop DEF Inv, At, FrameOK, Building
    <3> QED BY <3>1, <3>2, <3>3, TapeOf
  <2> QED BY <2>1, <2>2, <2>3 DEF InBounds
<1> QED BY <1>1, InitInv, NextInv, PTL DEF Spec

(* A call without the UTF-8 of its str has seen an allocation fail: no     *)
(* step forgets that one did, and none but EncodeFails makes such a call.  *)
EncodeInv == \A n \in 1 .. Len(calls) : Unencoded(calls[n]) => failures < MaxFailures

LEMMA EncodeOnTop ==
  ASSUME Inv, Inv', EncodeInv, calls # <<>>, NEW f, Goto(f), failures' <= failures,
         Unencoded(f) => Unencoded(Top) \/ failures' < failures
  PROVE  EncodeInv'
<1>1. /\ calls \in Seq(Frame) /\ calls' \in Seq(Frame) /\ calls' = [calls EXCEPT ![Len(calls)] = f]
      /\ failures \in 0 .. MaxFailures /\ failures' \in 0 .. MaxFailures /\ MaxFailures \in Nat
  BY LoadsAssumption DEF Inv, TypeInv, Goto
<1>2. /\ DOMAIN calls = 1 .. Len(calls) /\ DOMAIN calls' = 1 .. Len(calls')
      /\ Len(calls) \in 1 .. Len(calls)
  BY <1>1
<1>3. /\ 1 .. Len(calls') = 1 .. Len(calls) /\ calls'[Len(calls)] = f
      /\ \A n \in 1 .. Len(calls) : n # Len(calls) => calls'[n] = calls[n]
  BY <1>1, <1>2
<1>4. Unencoded(f) => failures' < MaxFailures
  BY <1>1, <1>2 DEF EncodeInv, Top
<1>5. ASSUME NEW n \in 1 .. Len(calls), Unencoded(calls[n]) PROVE failures' < MaxFailures
  BY <1>1, <1>5 DEF EncodeInv
<1>6. ASSUME NEW n \in 1 .. Len(calls'), Unencoded(calls'[n]) PROVE failures' < MaxFailures
  BY <1>3, <1>4, <1>5, <1>6
<1> QED BY <1>1, <1>6 DEF EncodeInv

LEMMA EncodeGoesOn ==
  ASSUME Inv, Inv', EncodeInv, calls # <<>>, NEW f, Goto(f), failures' <= failures,
         f.source = Top.source, f.utf8 = Top.utf8
  PROVE  EncodeInv'
BY EncodeOnTop DEF Unencoded

LEMMA EncodeNext ==
  ASSUME Inv, Inv', EncodeInv, [Next]_vars
  PROVE  EncodeInv'
<1>1. /\ calls \in Seq(Frame) /\ (calls # <<>> => Top \in Frame)
      /\ failures \in 0 .. MaxFailures /\ MaxFailures \in Nat
  BY OnTop, LoadsAssumption DEF Inv, TypeInv
<1>2. CASE calls' = calls /\ failures' = failures
  BY <1>2 DEF EncodeInv
<1>3. CASE EncodeFails
  <2>1. /\ calls # <<>> /\ Goto([Top EXCEPT !.pc = "raise", !.utf8 = FALSE])
        /\ failures' < failures /\ failures' <= failures
    BY <1>1, <1>3 DEF EncodeFails, At
  <2> QED BY <2>1, EncodeOnTop
<1>4. CASE Blank \/ Reject
  <2> DEFINE f == [Top EXCEPT !.pc = "raise"]
  <2>1. calls # <<>> /\ Goto(f) /\ failures' = failures
    BY <1>4 DEF Blank, Reject, At, bounds
  <2>2. f.source = Top.source /\ f.utf8 = Top.utf8
    BY <1>1, <2>1 DEF Frame
  <2> HIDE DEF f
  <2> QED BY <1>1, <2>1, <2>2, EncodeGoesOn
<1>5. CASE Parse
  <2> DEFINE f == [Top EXCEPT !.pc = "build"]
  <2>1. calls # <<>> /\ Goto(f) /\ failures' = failures
    BY <1>5 DEF Parse, At, bounds
  <2>2. f.source = Top.source /\ f.utf8 = Top.utf8
    BY <1>1, <2>1 DEF Frame
  <2> HIDE DEF f
  <2> QED BY <1>1, <2>1, <2>2, EncodeGoesOn
<1>6. CASE KeyHit \/ KeyMiss \/ KeyUncached \/ DropPartial
  BY <1>2, <1>6 DEF KeyHit, KeyMiss, KeyUncached, DropPartial, bounds
<1>7. CASE KeyFails \/ NodeFails \/ InsertFails
  <2> DEFINE f == [Top EXCEPT !.pc = "unwind", !.exc = "memory"]
  <2>1. calls # <<>> /\ Goto(f) /\ failures' = failures - 1
    BY <1>7 DEF KeyFails, NodeFails, InsertFails, Fails, At
  <2>2. f.source = Top.source /\ f.utf8 = Top.utf8
    BY <1>1, <2>1 DEF Frame
  <2> HIDE DEF f
  <2> QED BY <1>1, <2>1, <2>2, EncodeGoesOn
<1>8. CASE NodeConst \/ NodeScalar
  <2> DEFINE f == [Top EXCEPT !.pc = "insert"]
  <2>1. calls # <<>> /\ Goto(f) /\ failures' = failures
    BY <1>8 DEF NodeConst, NodeScalar, Finished, At, bounds
  <2>2. f.source = Top.source /\ f.utf8 = Top.utf8
    BY <1>1, <2>1 DEF Frame
  <2> HIDE DEF f
  <2> QED BY <1>1, <2>1, <2>2, EncodeGoesOn
<1>9. CASE NodeContainer
  <2> DEFINE f == [Top EXCEPT !.pc = "insert"]
  <2>1. calls # <<>> /\ (Goto(f) \/ calls' = calls) /\ failures' = failures
    BY <1>9 DEF NodeContainer, Finished, At, bounds
  <2>2. f.source = Top.source /\ f.utf8 = Top.utf8
    BY <1>1, <2>1 DEF Frame
  <2> HIDE DEF f
  <2> QED BY <1>1, <1>2, <2>1, <2>2, EncodeGoesOn
<1>10. CASE InsertItem \/ InsertMember
  <2> DEFINE f == [Top EXCEPT !.pc = "build"]
  <2>1. calls # <<>> /\ (Goto(f) \/ calls' = calls) /\ failures' = failures
    BY <1>10 DEF InsertItem, InsertMember, Inserted, At, bounds
  <2>2. f.source = Top.source /\ f.utf8 = Top.utf8
    BY <1>1, <2>1 DEF Frame
  <2> HIDE DEF f
  <2> QED BY <1>1, <1>2, <2>1, <2>2, EncodeGoesOn
<1>11. CASE Built
  <2> DEFINE f == [Top EXCEPT !.pc = "return", !.result = val]
  <2>1. calls # <<>> /\ Goto(f) /\ failures' = failures
    BY <1>11 DEF Built, At, bounds
  <2>2. f.source = Top.source /\ f.utf8 = Top.utf8
    BY <1>1, <2>1 DEF Frame
  <2> HIDE DEF f
  <2> QED BY <1>1, <2>1, <2>2, EncodeGoesOn
<1>12. CASE Unwound
  <2> DEFINE f == [Top EXCEPT !.pc = "return"]
  <2>1. calls # <<>> /\ Goto(f) /\ failures' = failures
    BY <1>12 DEF Unwound, At, bounds
  <2>2. f.source = Top.source /\ f.utf8 = Top.utf8
    BY <1>1, <2>1 DEF Frame
  <2> HIDE DEF f
  <2> QED BY <1>1, <2>1, <2>2, EncodeGoesOn
<1>13. CASE RaiseArgs
  <2> DEFINE As(made, missing) ==
               [Top EXCEPT !.args = made \cup {"doc"},
                           !.pc  = IF missing = 0 THEN "python" ELSE "release",
                           !.exc = IF missing = 0 THEN "none" ELSE "memory"]
  <2>1. PICK made \in SUBSET {"msg", "pos"} :
          failures' = failures - (2 - Cardinality(made)) /\ Goto(As(made, 2 - Cardinality(made)))
    BY <1>13 DEF RaiseArgs
  <2> DEFINE missing == 2 - Cardinality(made)
             f == As(made, missing)
  <2>2. failures' = failures - missing /\ Goto(f) /\ missing \in Nat
    BY <2>1, MissingArgs
  <2>3. calls # <<>>
    BY <1>13 DEF RaiseArgs, At
  <2> HIDE DEF missing
  <2>4. f.source = Top.source /\ f.utf8 = Top.utf8
    BY <1>1, <2>3 DEF Frame
  <2> HIDE DEF f
  <2>5. failures' <= failures
    BY <1>1, <2>2
  <2> HIDE DEF As
  <2> QED BY <2>2, <2>3, <2>4, <2>5, EncodeGoesOn
<1>14. CASE Raised
  <2>1. PICK e \in {"decode", "python"} : Goto([Top EXCEPT !.pc = "release", !.exc = e])
    BY <1>14 DEF Raised
  <2> DEFINE f == [Top EXCEPT !.pc = "release", !.exc = e]
  <2>2. calls # <<>> /\ Goto(f) /\ failures' = failures
    BY <1>14, <2>1 DEF Raised, At, bounds
  <2>3. f.source = Top.source /\ f.utf8 = Top.utf8
    BY <1>1, <2>2 DEF Frame
  <2> HIDE DEF f
  <2> QED BY <1>1, <2>2, <2>3, EncodeGoesOn
<1>15. CASE ReleaseArgs
  <2> DEFINE f == [Top EXCEPT !.pc = "return", !.args = {}]
  <2>1. calls # <<>> /\ Goto(f) /\ failures' = failures
    BY <1>15 DEF ReleaseArgs, At, bounds
  <2>2. f.source = Top.source /\ f.utf8 = Top.utf8
    BY <1>1, <2>1 DEF Frame
  <2> HIDE DEF f
  <2> QED BY <1>1, <2>1, <2>2, EncodeGoesOn
<1>16. CASE RaiseFails
  <2> DEFINE f == [Top EXCEPT !.pc = "return", !.exc = "memory"]
  <2>1. calls # <<>> /\ Goto(f) /\ failures' = failures - 1
    BY <1>16 DEF RaiseFails, At
  <2>2. f.source = Top.source /\ f.utf8 = Top.utf8
    BY <1>1, <2>1 DEF Frame
  <2> HIDE DEF f
  <2> QED BY <1>1, <2>1, <2>2, EncodeGoesOn
<1>17. CASE Return
  <2>1. failures' = failures /\ calls' = SubSeq(calls, 1, Len(calls) - 1) /\ calls # <<>>
    BY <1>17 DEF Return, At, bounds
  <2>2. Len(calls') = Len(calls) - 1 /\ \A n \in 1 .. Len(calls) - 1 : calls'[n] = calls[n]
    BY <1>1, <2>1, FrontOf
  <2> QED BY <1>1, <2>1, <2>2 DEF EncodeInv
<1>18. ASSUME NEW s \in Arguments, NEW d \in Docs, Call(s, d) PROVE EncodeInv'
  <2> DEFINE g == [source |-> s, utf8 |-> s # "surrogates", doc |-> d, pc |-> "run",
                   exc |-> "none", result |-> Nil, args |-> {}, view |-> s = "memoryview"]
             f == CASE s = "strided" -> [g EXCEPT !.pc = "return", !.exc = "buffer"]
                    [] s \in {"surrogates", "other"} -> [g EXCEPT !.pc = "raise"]
                    [] OTHER -> g
  <2>1. calls' = Append(calls, f) /\ f.source = s /\ (f.utf8 <=> s # "surrogates")
    <3>1. calls' = Append(calls, f)
      BY <1>18 DEF Call
    <3>2. CASE s = "strided"
      BY <3>1, <3>2
    <3>3. CASE s \in {"surrogates", "other"}
      BY <3>1, <3>3
    <3>4. CASE s \notin {"strided", "surrogates", "other"}
      BY <3>1, <3>4
    <3> QED BY <3>2, <3>3, <3>4
  <2> HIDE DEF f, g
  <2>2. failures' = failures
    BY <1>18 DEF Call
  <2>3. /\ Len(calls') = Len(calls) + 1 /\ calls'[Len(calls) + 1] = f
        /\ \A n \in 1 .. Len(calls) : calls'[n] = calls[n]
    BY <1>1, <2>1
  <2>4. ~Unencoded(f)
    BY <2>1 DEF Unencoded
  <2> QED BY <1>1, <2>2, <2>3, <2>4 DEF EncodeInv
<1>19. CASE UNCHANGED vars
  BY <1>2, <1>19 DEF vars
<1>20. ASSUME NEW n \in DOMAIN results, DropResult(n) PROVE EncodeInv'
  BY <1>2, <1>20 DEF DropResult, bounds
<1>21. CASE ClearCache
  BY <1>2, <1>21 DEF ClearCache, bounds
<1>22. Native => EncodeInv'
  BY <1>3, <1>4, <1>5, <1>6, <1>7, <1>8, <1>9, <1>10, <1>11, <1>12, <1>13, <1>14, <1>15, <1>16, <1>17
     DEF Native
<1>23. Python => EncodeInv'
  BY <1>18, <1>20, <1>21 DEF Python
<1> QED BY <1>19, <1>22, <1>23 DEF Next

(* loads returns NULL exactly with an exception set, a value never for a   *)
(* document that is not JSON, and JSONDecodeError for one that is only if  *)
(* the UTF-8 of a str could not be allocated.                              *)
THEOREM AlwaysAnswers == Spec => []Answer
<1> DEFINE Both == Inv /\ EncodeInv
<1>1. ASSUME Both PROVE Answer
  <2>1. ASSUME calls # <<>>
        PROVE FrameOK(Top) /\ (Unencoded(Top) => failures < MaxFailures)
    BY <1>1, <2>1, OnTop DEF Inv, EncodeInv, Top
  <2>2. ASSUME At("return")
        PROVE  /\ (Top.result = Nil) = (Top.exc # "none")
               /\ Top.exc = "decode" => Fault(Top) \/ (Unencoded(Top) /\ failures < MaxFailures)
               /\ Top.result # Nil => ~Fault(Top) /\ Top.utf8
               /\ Top.args = {}
    BY <2>1, <2>2 DEF At, FrameOK
  <2>3. At("python") => Top.exc = "none"
    BY <2>1 DEF At, FrameOK
  <2> QED BY <2>2, <2>3 DEF Answer
<1>2. Init => Both
  <2>1. Init => EncodeInv
    BY DEF Init, EncodeInv
  <2> QED BY <2>1, InitInv
<1>3. Both /\ [Next]_vars => Both'
  BY NextInv, EncodeNext
<1> HIDE DEF Both
<1> QED BY <1>1, <1>2, <1>3, PTL DEF Spec
=============================================================================
