--------------------------- MODULE EncoderProofs ---------------------------
(***************************************************************************)
(* Theorems about Encoder, for every heap, every option set, every default *)
(* and every limit: what the variables are (TypeInv), where the walk       *)
(* stands (ShapeInv), that a failure stays one, what the two depths count  *)
(* (DepthInv), and that the text is a JSON document (TextInv).             *)
(***************************************************************************)
EXTENDS EncoderGrammar, SequenceTheorems, SetFacts, TLAPS

-----------------------------------------------------------------------------
(* Reachability. *)

(* Whatever is a root is reached.                                          *)
LEMMA ReachRoots ==
  ASSUME NEW R, NEW it, NEW via
  PROVE  R \subseteq Reach(R, it, via)
  BY DEF Reach

(* What is reached is closed under the contents of the boxes.              *)
LEMMA ReachStep ==
  ASSUME NEW R, NEW it, NEW via, NEW o \in Reach(R, it, via) \cap via
  PROVE  Contents(it, o) \subseteq Reach(R, it, via)
<1> DEFINE closed == {K \in SUBSET via :
                        /\ R \cap via \subseteq K
                        /\ \A p \in K : Contents(it, p) \cap via \subseteq K}
           core == {p \in via : \A K \in closed : p \in K}
<1>1. Reach(R, it, via) = R \cup UNION {Contents(it, p) : p \in core}
  BY DEF Reach
<1> HIDE DEF core
<1>2. o \in core
  <2>1. ASSUME NEW K \in closed PROVE o \in K
    <3>1. CASE o \in R
      BY <3>1
    <3>2. CASE o \notin R
      <4>1. PICK p \in core : o \in Contents(it, p)
        BY <1>1, <3>2
      <4>2. p \in K
        BY <4>1, <2>1 DEF core
      <4> QED BY <4>1, <4>2
    <3> QED BY <3>1, <3>2
  <2> QED BY <2>1 DEF core
<1> QED BY <1>1, <1>2

(* It is the least such set.                                               *)
LEMMA ReachLeast ==
  ASSUME NEW R, NEW it, NEW via, NEW S, R \subseteq S,
         \A o \in S \cap via : Contents(it, o) \subseteq S
  PROVE  Reach(R, it, via) \subseteq S
<1> DEFINE closed == {K \in SUBSET via :
                        /\ R \cap via \subseteq K
                        /\ \A p \in K : Contents(it, p) \cap via \subseteq K}
           core == {p \in via : \A K \in closed : p \in K}
<1>1. Reach(R, it, via) = R \cup UNION {Contents(it, p) : p \in core}
  BY DEF Reach
<1>2. S \cap via \in closed
  OBVIOUS
<1>3. core \subseteq S
  BY <1>2
<1>4. core \subseteq via
  OBVIOUS
<1> HIDE DEF core, closed
<1> QED BY <1>1, <1>3, <1>4

(* More roots, more boxes to go through and the same contents in the old   *)
(* ones reach at least as much.                                            *)
LEMMA ReachMonotone ==
  ASSUME NEW R, NEW it, NEW via, NEW R2, NEW it2, NEW via2,
         R \subseteq R2, via \subseteq via2,
         \A o \in via : Contents(it, o) = Contents(it2, o)
  PROVE  Reach(R, it, via) \subseteq Reach(R2, it2, via2)
<1> DEFINE S == Reach(R2, it2, via2)
<1>1. R \subseteq S
  BY ReachRoots
<1>2. \A o \in S \cap via : Contents(it, o) \subseteq S
  BY ReachStep
<1> HIDE DEF S
<1>3. Reach(R, it, via) \subseteq S
  BY <1>1, <1>2, ReachLeast
<1> QED BY <1>3 DEF S

-----------------------------------------------------------------------------
(* Stacks and text. *)

(* A frame is about an object of its own kind, and a sorted frame's order  *)
(* points at entries of its snapshot.                                      *)
FrameOK(f) ==
  /\ f.fn \in {"list", "tuple"} => Kind[f.obj] \in {"list", "tuple"}
  /\ f.fn \in {"dict", "sorted", "release"} => Kind[f.obj] = "dict"
  /\ f.fn = "sorted" => \A p \in DOMAIN f.order : f.order[p] \in Filled(f.snap)

GoodFrame == {f \in Frame : FrameOK(f)}

LEMMA Pushed ==
  ASSUME NEW S, NEW s \in Seq(S), NEW f \in S
  PROVE  /\ Append(s, f) \in Seq(S)
         /\ Len(Append(s, f)) = Len(s) + 1
         /\ \A l \in 1 .. Len(s) : Append(s, f)[l] = s[l]
         /\ Append(s, f)[Len(s) + 1] = f
  OBVIOUS

LEMMA Popped ==
  ASSUME NEW S, NEW s \in Seq(S), Len(s) > 0
  PROVE  /\ SubSeq(s, 1, Len(s) - 1) \in Seq(S)
         /\ Len(SubSeq(s, 1, Len(s) - 1)) = Len(s) - 1
         /\ \A l \in 1 .. Len(s) - 1 : SubSeq(s, 1, Len(s) - 1)[l] = s[l]
         /\ s[Len(s)] \in S
<1> DEFINE n == Len(s) - 1
<1>1. Len(s) \in Nat /\ n \in Int /\ n >= 0
  BY LenProperties
<1>2. \A i \in 1 .. Len(s) : s[i] \in S
  BY ElementOfSeq
<1>3. \A i \in 1 .. n : s[i] \in S
  BY <1>1, <1>2
<1>4. s[Len(s)] \in S
  BY <1>1, <1>2
<1> DEFINE t == SubSeq(s, 1, n)
<1> HIDE DEF n
<1>5. /\ t \in Seq(S)
      /\ Len(t) = IF 1 <= n THEN n - 1 + 1 ELSE 0
      /\ \A i \in 1 .. n - 1 + 1 : t[i] = s[1 + i - 1]
  BY <1>1, <1>3, SubSeqProperties
<1> HIDE DEF t
<1>6. Len(t) = n
  BY <1>1, <1>5
<1>7. ASSUME NEW i \in 1 .. n PROVE t[i] = s[i]
  <2>1. i \in 1 .. n - 1 + 1 /\ 1 + i - 1 = i
    BY <1>1
  <2> QED BY <2>1, <1>5
<1>8. t \in Seq(S) /\ Len(t) = n /\ \A i \in 1 .. n : t[i] = s[i]
  BY <1>5, <1>6, <1>7
<1> QED BY <1>4, <1>8 DEF t, n

LEMMA Replaced ==
  ASSUME NEW S, NEW s \in Seq(S), Len(s) > 0, NEW f \in S
  PROVE  /\ [s EXCEPT ![Len(s)] = f] \in Seq(S)
         /\ Len([s EXCEPT ![Len(s)] = f]) = Len(s)
         /\ \A l \in 1 .. Len(s) - 1 : [s EXCEPT ![Len(s)] = f][l] = s[l]
         /\ [s EXCEPT ![Len(s)] = f][Len(s)] = f
  OBVIOUS

LEMMA CallFrame ==
  ASSUME NEW f \in Fns, NEW o \in Obj
  PROVE  /\ Call(f, o) \in Frame
         /\ Call(f, o).fn = f /\ Call(f, o).obj = o
  BY DEF Call, Frame

LEMMA EmitType ==
  ASSUME NEW marks \in Seq(Marks), NEW o \in Obj, out \in Seq(Marks \X Obj)
  PROVE  Emit(marks, o) \in Seq(Marks \X Obj)
<1>1. [i \in DOMAIN marks |-> <<marks[i], o>>] \in Seq(Marks \X Obj)
  <2>1. DOMAIN marks = 1 .. Len(marks) /\ Len(marks) \in Nat
    OBVIOUS
  <2>2. [i \in DOMAIN marks |-> <<marks[i], o>>] \in [1 .. Len(marks) -> Marks \X Obj]
    BY <2>1
  <2> QED BY <2>1, <2>2
<1> QED BY <1>1 DEF Emit

-----------------------------------------------------------------------------
(* Types.  The counters are only known to be integers here: that depth is  *)
(* never below zero is a matter of the frames (Counts, below).             *)

EncShape == [opts : SUBSET Options, default : BOOLEAN, guard : BOOLEAN, dt : BOOLEAN,
             depth : Int, ddepth : Int, rechecked : BOOLEAN]

HeapType(it) ==
  it \in [Obj -> Seq(Entry)] /\ \A o \in Obj : it[o] \in Seq(EntryOf(o))

(* Whoever called Python is on top, and an array that is being written     *)
(* knows where its text began.                                             *)
TopOK(p, s, t) ==
  /\ p \in {"python", "rollback"} => Len(s) > 0
  /\ p = "rollback" => s[Len(s)].fn = "array"
  /\ p \in {"python", "rollback"} /\ s[Len(s)].fn = "array" => s[Len(s)].pos <= Len(t)

TypeInv ==
  /\ HeapType(items)
  /\ fresh \subseteq Obj
  /\ sysdt \in BOOLEAN
  /\ budget \in 0 .. MaxMutations
  /\ refs \subseteq Nat \X Nat \X Nat \X Obj
  /\ stack \in Seq(GoodFrame)
  /\ pc \in {"call", "step", "ret", "rollback", "python", "done"}
  /\ arg \in Obj
  /\ ok \in BOOLEAN
  /\ enc \in EncShape
  /\ out \in Seq(Marks \X Obj)
  /\ TopOK(pc, stack, out)

LEMMA EntryTypes ==
  ASSUME NEW it, HeapType(it), NEW o \in Obj
  PROVE  /\ Contents(it, o) \subseteq Obj
         /\ Kind[o] \in {"list", "tuple"} =>
              \A i \in DOMAIN it[o] : it[o][i][1] \in Obj /\ DOMAIN it[o][i] = {1}
         /\ Kind[o] = "dict" =>
              \A i \in Filled(it[o]) : /\ it[o][i][1] \in Obj /\ it[o][i][2] \in Obj
                                       /\ DOMAIN it[o][i] = {1, 2}
         /\ DOMAIN it[o] = 1 .. Len(it[o]) /\ Len(it[o]) \in Nat
         /\ \A i \in DOMAIN it[o] : it[o][i] \in EntryOf(o)
<1>1. it[o] \in Seq(EntryOf(o))
  BY DEF HeapType
<1>2. DOMAIN it[o] = 1 .. Len(it[o]) /\ Len(it[o]) \in Nat
  BY <1>1
<1>3. \A i \in DOMAIN it[o] : it[o][i] \in EntryOf(o)
  BY <1>1, <1>2, ElementOfSeq
<1>4. ASSUME NEW e \in Single PROVE e[1] \in Obj /\ DOMAIN e = {1}
  <2>1. PICK x \in Obj : e = <<x>>
    BY DEF Single
  <2> QED BY <2>1
<1>5. ASSUME NEW e \in Pair, e # <<>>
      PROVE  e[1] \in Obj /\ e[2] \in Obj /\ DOMAIN e = {1, 2}
  <2>1. PICK x \in Obj, y \in Obj : e = <<x, y>>
    BY <1>5 DEF Pair
  <2> QED BY <2>1
<1>6. Kind[o] \in {"list", "tuple"} =>
        \A i \in DOMAIN it[o] : it[o][i][1] \in Obj /\ DOMAIN it[o][i] = {1}
  BY <1>3, <1>4 DEF EntryOf
<1>7. Kind[o] = "dict" =>
        \A i \in Filled(it[o]) : /\ it[o][i][1] \in Obj /\ it[o][i][2] \in Obj
                                 /\ DOMAIN it[o][i] = {1, 2}
  BY <1>3, <1>5 DEF EntryOf, Filled
<1>8. Contents(it, o) \subseteq Obj
  <2> SUFFICES ASSUME NEW i \in DOMAIN it[o], NEW j \in DOMAIN it[o][i]
               PROVE  it[o][i][j] \in Obj
    BY DEF Contents
  <2>1. CASE it[o][i] \in Single
    BY <2>1, <1>4
  <2>2. CASE it[o][i] \in Pair /\ it[o][i] # <<>>
    BY <2>2, <1>5
  <2>3. CASE it[o][i] = <<>>
    BY <2>3
  <2> QED BY <2>1, <2>2, <2>3, <1>3 DEF EntryOf
<1> QED BY <1>2, <1>3, <1>6, <1>7, <1>8

(* What is reached from objects through boxes is objects.                  *)
LEMMA ReachType ==
  ASSUME NEW it, HeapType(it), NEW R \in SUBSET Obj, NEW via \in SUBSET Obj
  PROVE  Reach(R, it, via) \subseteq Obj
  BY EntryTypes, ReachLeast

LEMMA HeldType ==
  ASSUME TypeInv, NEW rs, rs \subseteq Nat \X Nat \X Nat \X Obj
  PROVE  Held(rs) \subseteq Obj
<1>1. \A t \in rs : t[4] \in Obj
  OBVIOUS
<1> QED BY <1>1, EncoderAssumption DEF Held

LEMMA AliveType ==
  ASSUME TypeInv
  PROVE  Alive \subseteq Obj /\ PyValues \subseteq Obj /\ Mutable \subseteq Obj
<1>1. Held(refs) \subseteq Obj
  BY HeldType DEF TypeInv
<1>2. Alive \subseteq Obj
  BY <1>1, ReachType DEF Alive, Boxes, TypeInv
<1> QED BY <1>2 DEF PyValues, Mutable, TypeInv

LEMMA StackFacts ==
  ASSUME TypeInv
  PROVE  /\ Height \in Nat
         /\ \A f \in GoodFrame : /\ Append(stack, f) \in Seq(GoodFrame)
                                 /\ Len(Append(stack, f)) = Height + 1
         /\ Height > 0 =>
              /\ Top \in Frame /\ FrameOK(Top)
              /\ Below \in Seq(GoodFrame) /\ Len(Below) = Height - 1
              /\ \A f \in GoodFrame :
                   /\ SetTop(f) \in Seq(GoodFrame) /\ Len(SetTop(f)) = Height
                   /\ Append(Below, f) \in Seq(GoodFrame) /\ Len(Append(Below, f)) = Height
<1>1. stack \in Seq(GoodFrame) /\ Height \in Nat
  BY DEF TypeInv, Height
<1>2. \A f \in GoodFrame : /\ Append(stack, f) \in Seq(GoodFrame)
                           /\ Len(Append(stack, f)) = Height + 1
  BY <1>1, Pushed DEF Height
<1>3. ASSUME Height > 0
      PROVE  /\ Top \in Frame /\ FrameOK(Top)
             /\ Below \in Seq(GoodFrame) /\ Len(Below) = Height - 1
  BY <1>1, <1>3, Popped DEF Height, Top, Below, GoodFrame
<1>4. ASSUME Height > 0, NEW f \in GoodFrame
      PROVE  /\ SetTop(f) \in Seq(GoodFrame) /\ Len(SetTop(f)) = Height
             /\ Append(Below, f) \in Seq(GoodFrame) /\ Len(Append(Below, f)) = Height
  <2>1. SetTop(f) \in Seq(GoodFrame) /\ Len(SetTop(f)) = Height
    BY <1>1, <1>4, Replaced DEF Height, SetTop
  <2>2. Append(Below, f) \in Seq(GoodFrame) /\ Len(Append(Below, f)) = Len(Below) + 1
    BY <1>3, <1>4, Pushed
  <2> QED BY <2>1, <2>2, <1>1, <1>3, <1>4
<1> QED BY <1>1, <1>2, <1>3, <1>4

LEMMA CallGood ==
  ASSUME NEW f \in Fns \ {"sorted"}, NEW o \in Obj,
         f \in {"list", "tuple"} => Kind[o] \in {"list", "tuple"},
         f \in {"dict", "release"} => Kind[o] = "dict"
  PROVE  Call(f, o) \in GoodFrame
  BY CallFrame DEF GoodFrame, FrameOK

(* Updating one field keeps a record in its type.                          *)
LEMMA FrameUpdates ==
  ASSUME NEW f \in Frame
  PROVE  /\ \A x \in {"ret", "step"} : /\ [f EXCEPT !.next = x] \in Frame
                                       /\ [f EXCEPT !.next = x].fn = f.fn
         /\ \A x \in Nat : /\ [f EXCEPT !.pos = x] \in Frame
                           /\ [f EXCEPT !.pos = x].fn = f.fn
                           /\ [f EXCEPT !.pos = x].pos = x
         /\ \A x \in Seq(Pair) : /\ [f EXCEPT !.snap = x] \in Frame
                                 /\ [f EXCEPT !.snap = x].fn = f.fn
                                 /\ [f EXCEPT !.snap = x].obj = f.obj
         /\ \A x \in Nat, b \in BOOLEAN : [f EXCEPT !.pos = x, !.first = b] \in Frame
         /\ \A b \in BOOLEAN : [f EXCEPT !.first = b] \in Frame
  BY DEF Frame

LEMMA EncUpdates ==
  ASSUME NEW e \in EncShape
  PROVE  /\ e.depth \in Int /\ e.ddepth \in Int
         /\ \A x \in Int : [e EXCEPT !.depth = x] \in EncShape
         /\ \A x \in Int : [e EXCEPT !.ddepth = x] \in EncShape
         /\ [e EXCEPT !.dt = TRUE] \in EncShape
         /\ [e EXCEPT !.rechecked = TRUE] \in EncShape
  BY DEF EncShape

LEMMA PushFrame ==
  ASSUME NEW s \in Seq(GoodFrame), NEW f \in GoodFrame, f.fn # "array"
  PROVE  /\ Append(s, f) \in Seq(GoodFrame)
         /\ \A t : TopOK("python", Append(s, f), t)
<1>1. /\ Append(s, f) \in Seq(GoodFrame)
      /\ Len(Append(s, f)) > 0
      /\ Append(s, f)[Len(Append(s, f))] = f
  BY Pushed
<1> QED BY <1>1 DEF TopOK

LEMMA PushCall ==
  ASSUME NEW s \in Seq(GoodFrame), NEW f \in Fns \ {"sorted", "array"}, NEW o \in Obj,
         f \in {"list", "tuple"} => Kind[o] \in {"list", "tuple"},
         f \in {"dict", "release"} => Kind[o] = "dict"
  PROVE  /\ Append(s, Call(f, o)) \in Seq(GoodFrame)
         /\ \A t : TopOK("python", Append(s, Call(f, o)), t)
<1>1. Call(f, o) \in GoodFrame
  BY CallGood
<1>2. Call(f, o).fn # "array"
  BY CallFrame
<1> QED BY <1>1, <1>2, PushFrame

LEMMA DecrefType ==
  ASSUME TypeInv, NEW drop, NEW s \in Seq(GoodFrame),
         NEW next \in {"ret", "step"}, Decref(drop, s, next)
  PROVE  /\ refs' \subseteq Nat \X Nat \X Nat \X Obj
         /\ stack' \in Seq(GoodFrame)
         /\ pc' \in {"ret", "step", "python"}
         /\ TopOK(pc', stack', out)
<1> DEFINE f == [Call("del", Root) EXCEPT !.next = next]
<1>0. Call("del", Root) \in Frame /\ Call("del", Root).fn = "del"
  BY CallFrame, EncoderAssumption DEF Fns
<1>1. f \in GoodFrame /\ f.fn # "array"
  <2>1. f \in Frame /\ f.fn = "del"
    BY <1>0, FrameUpdates
  <2> HIDE DEF f
  <2> QED BY <2>1 DEF GoodFrame, FrameOK
<1> HIDE DEF f
<1>2. Append(s, f) \in Seq(GoodFrame) /\ TopOK("python", Append(s, f), out)
  BY <1>1, PushFrame
<1>3. refs' \subseteq refs
  BY DEF Decref
<1>4. \/ pc' = next /\ stack' = s
      \/ pc' = "python" /\ stack' = Append(s, f)
  BY DEF Decref, f
<1>5. refs' \subseteq Nat \X Nat \X Nat \X Obj
  BY <1>3 DEF TypeInv
<1>6. TopOK(next, s, out)
  BY DEF TopOK
<1>7. /\ stack' \in Seq(GoodFrame)
      /\ pc' \in {"ret", "step", "python"}
      /\ TopOK(pc', stack', out)
  BY <1>2, <1>4, <1>6
<1> QED BY <1>5, <1>7

LEMMA ShortSeqs ==
  ASSUME NEW S, NEW x \in S, NEW y \in S
  PROVE  /\ <<>> \in Seq(S) /\ <<x>> \in Seq(S) /\ <<x, y>> \in Seq(S)
         /\ <<>> \o <<x>> \in Seq(S) /\ <<y>> \o <<x>> \in Seq(S)
  OBVIOUS

LEMMA MarkSeqs ==
  /\ \A m \in Marks : <<m>> \in Seq(Marks)
  /\ \A o : Brackets(o) \in Seq(Marks) /\ Brackets(o)[1] \in Marks
  /\ \A b \in BOOLEAN : Comma(b) \in Seq(Marks) /\ KeyMarks(b) \in Seq(Marks)
<1>1. "[" \in Marks /\ "]" \in Marks /\ "{" \in Marks /\ "}" \in Marks
      /\ "," \in Marks /\ "k" \in Marks
  BY DEF Marks
<1> HIDE DEF Marks
<1> QED BY <1>1, ShortSeqs DEF Brackets, Comma, KeyMarks

LEMMA InvokeDefaultType ==
  ASSUME TypeInv, NEW o \in Obj, NEW s \in Seq(GoodFrame), InvokeDefault(o, s)
  PROVE  /\ stack' \in Seq(GoodFrame) /\ pc' \in {"ret", "python"} /\ ok' \in BOOLEAN
         /\ \A t : TopOK(pc', stack', t)
<1>1. Append(s, Call("default", o)) \in Seq(GoodFrame)
      /\ \A t : TopOK("python", Append(s, Call("default", o)), t)
  BY PushCall DEF Fns
<1>2. \A t : TopOK("ret", s, t)
  BY DEF TopOK
<1> QED BY <1>1, <1>2 DEF InvokeDefault, Return, TypeInv

(* Outside Python and rollback nothing is asked of the top frame.          *)
LEMMA TopFree ==
  ASSUME NEW p \in {"call", "step", "ret", "done"}
  PROVE  \A s, t : TopOK(p, s, t)
  BY DEF TopOK

LEMMA EmitMark ==
  ASSUME TypeInv, NEW o \in Obj
  PROVE  /\ \A m \in Seq(Marks) : Emit(m, o) \in Seq(Marks \X Obj)
         /\ Emit(<<"v">>, o) \in Seq(Marks \X Obj)
<1>1. <<"v">> \in Seq(Marks)
  <2>1. "v" \in Marks
    BY DEF Marks
  <2> QED BY <2>1, MarkSeqs
<1>2. \A m \in Seq(Marks) : Emit(m, o) \in Seq(Marks \X Obj)
  BY EmitType DEF TypeInv
<1> QED BY <1>1, <1>2

LEMMA OpeningType ==
  ASSUME TypeInv, Opening
  PROVE  enc' \in EncShape /\ out' \in Seq(Marks \X Obj)
<1>1. <<Brackets(arg)[1]>> \in Seq(Marks)
  BY MarkSeqs
<1>2. out' \in Seq(Marks \X Obj)
  BY <1>1, EmitMark DEF Opening, TypeInv
<1>3. enc' = [enc EXCEPT !.depth = enc.depth + 1] /\ enc \in EncShape
  BY DEF Opening, TypeInv
<1>4. enc.depth \in Int
  BY <1>3, EncUpdates
<1>5. enc.depth + 1 \in Int
  BY <1>4
<1> QED BY <1>2, <1>3, <1>5, EncUpdates

LEMMA TypeOpenSorted ==
  ASSUME TypeInv, OpenSorted
  PROVE  TypeInv'
<1> DEFINE es == items[arg]
           g(f) == [Call("sorted", arg) EXCEPT !.snap = es, !.order = f]
           h == [Call("release", arg) EXCEPT !.snap = es]
<1>1. Kind[arg] = "dict" /\ arg \in Obj
  BY DEF OpenSorted, DictLike, TypeInv
<1>2. es \in Seq(Pair)
  BY <1>1 DEF TypeInv, HeapType, EntryOf
<1>3. /\ DOMAIN es = 1 .. Len(es) /\ Len(es) \in Nat
      /\ \A i \in Filled(es) : es[i][1] \in Obj /\ es[i][2] \in Obj
  BY <1>1, EntryTypes DEF TypeInv
<1>4. Filled(es) \subseteq 1 .. Len(es)
  BY <1>3 DEF Filled
<1>5. refs' \subseteq Nat \X Nat \X Nat \X Obj
  <2> HIDE DEF es
  <2>1. ASSUME NEW t \in SnapRefs(Height + 1, es)
        PROVE  t \in Nat \X Nat \X Nat \X Obj
    <3>1. PICK i \in Filled(es), j \in {1, 2} : t = <<Height + 1, i, j, es[i][j]>>
      BY <2>1 DEF SnapRefs
    <3>2. i \in Nat /\ j \in Nat /\ es[i][j] \in Obj /\ Height + 1 \in Nat
      BY <1>3, <1>4, StackFacts
    <3> QED BY <3>1, <3>2
  <2>2. refs' = refs \cup SnapRefs(Height + 1, es)
    BY DEF OpenSorted, es
  <2> QED BY <2>1, <2>2 DEF TypeInv
<1>6. Filled(es) \subseteq Nat /\ Cardinality(Filled(es)) \in Nat
  <2>1. IsFiniteSet(1 .. Len(es))
    BY <1>3, FS_Interval
  <2>2. IsFiniteSet(Filled(es))
    BY <2>1, <1>4, FS_Subset
  <2> QED BY <2>2, <1>3, <1>4, FS_CardinalityType
<1>7. ASSUME NEW f \in Sorted(es) PROVE g(f) \in GoodFrame /\ g(f).fn = "sorted"
  <2>1. f \in [1 .. Cardinality(Filled(es)) -> Filled(es)]
    BY <1>7 DEF Sorted
  <2>2. f \in Seq(Nat)
    BY <2>1, <1>6
  <2>3. \A p \in DOMAIN f : f[p] \in Filled(es)
    BY <2>1
  <2>4. g(f) \in Frame /\ g(f).fn = "sorted" /\ g(f).snap = es /\ g(f).order = f
        /\ g(f).obj = arg
    BY <2>2, <1>1, <1>2 DEF Call, Frame, Fns
  <2> HIDE DEF g, es
  <2> QED BY <2>3, <2>4, <1>1 DEF GoodFrame, FrameOK
<1>8. h \in GoodFrame /\ h.fn = "release"
  <2>1. Call("release", arg) \in Frame /\ Call("release", arg).fn = "release"
        /\ Call("release", arg).obj = arg
    BY <1>1, CallFrame DEF Fns
  <2>2. h \in Frame /\ h.fn = "release" /\ h.obj = arg
    BY <2>1, <1>2, FrameUpdates
  <2> HIDE DEF h
  <2> QED BY <2>2, <1>1 DEF GoodFrame, FrameOK
<1>9. stack' \in Seq(GoodFrame) /\ ok' \in BOOLEAN
  <2>1. \/ \E f \in Sorted(es) : stack' = Append(stack, g(f)) /\ UNCHANGED ok
        \/ stack' = Append(stack, h) /\ ok' = FALSE
    BY DEF OpenSorted
  <2> HIDE DEF g, h, es
  <2> QED BY <2>1, <1>7, <1>8, StackFacts DEF TypeInv
<1>10. enc' \in EncShape /\ out' \in Seq(Marks \X Obj)
  BY OpeningType DEF OpenSorted
<1>11. pc' = "step" /\ UNCHANGED <<pyVars, arg>>
  BY DEF OpenSorted
<1> QED BY <1>5, <1>9, <1>10, <1>11, TopFree DEF TypeInv, pyVars

LEMMA TypeSerialize ==
  ASSUME TypeInv, Serialize
  PROVE  TypeInv'
<1> USE EncoderAssumption
<1>0. arg \in Obj /\ stack \in Seq(GoodFrame) /\ enc \in EncShape
  BY DEF TypeInv
<1>1. CASE WriteScalar
  BY <1>1, EmitMark, TopFree DEF TypeInv, WriteScalar, pyVars, Return
<1>2. CASE RejectScalar
  BY <1>2, TopFree DEF TypeInv, RejectScalar, pyVars, Return
<1>3. CASE WriteHugeInt
  <2>1. /\ Append(stack, Call("digits", arg)) \in Seq(GoodFrame)
        /\ TopOK("python", Append(stack, Call("digits", arg)), out)
    BY <1>0, PushCall DEF Fns
  <2> QED BY <1>3, <2>1 DEF TypeInv, WriteHugeInt, pyVars
<1>4. CASE EnterTooDeep
  BY <1>4, TopFree DEF TypeInv, EnterTooDeep, pyVars, Return
<1>5. CASE WriteEmpty
  <2>1. out' \in Seq(Marks \X Obj)
    BY <1>0, <1>5, EmitMark, MarkSeqs DEF WriteEmpty
  <2> QED BY <1>5, <2>1, TopFree DEF TypeInv, WriteEmpty, pyVars, Return
<1>6. CASE Open
  <2> DEFINE f == IF DictLike(arg) THEN "dict" ELSE IF ListLike(arg) THEN "list" ELSE "tuple"
  <2>1. f \in Fns \ {"sorted", "array"}
    BY DEF Fns
  <2>2. /\ f \in {"list", "tuple"} => Kind[arg] \in {"list", "tuple"}
        /\ f \in {"dict", "release"} => Kind[arg] = "dict"
    BY <1>6 DEF Open, Opening, Container, DictLike, ListLike, TupleLike
  <2>3. stack' = Append(stack, Call(f, arg)) /\ pc' = "step"
        /\ UNCHANGED <<pyVars, refs, arg, ok>>
    BY <1>6 DEF Open
  <2> HIDE DEF f
  <2>4. stack' \in Seq(GoodFrame)
    BY <1>0, <2>1, <2>2, <2>3, PushCall
  <2>5. enc' \in EncShape /\ out' \in Seq(Marks \X Obj)
    BY <1>6, OpeningType DEF Open
  <2> QED BY <2>3, <2>4, <2>5, TopFree DEF TypeInv, pyVars
<1>7. CASE OpenSorted
  BY <1>7, TypeOpenSorted
<1>8. CASE WriteDate
  BY <1>8, EmitMark, TopFree DEF TypeInv, WriteDate, pyVars, Return
<1>9. CASE CallUtcoffset
  <2>1. /\ Append(stack, Call("utcoffset", arg)) \in Seq(GoodFrame)
        /\ TopOK("python", Append(stack, Call("utcoffset", arg)), out)
    BY <1>0, PushCall DEF Fns
  <2> QED BY <1>9, <2>1 DEF TypeInv, CallUtcoffset, pyVars
<1>10. CASE LateDatetime
  <2>1. enc' \in EncShape
    BY <1>0, <1>10, EncUpdates DEF LateDatetime
  <2> QED BY <1>10, <2>1 DEF TypeInv, LateDatetime, pyVars
<1>11. CASE LateDatetimeFails
  BY <1>11, TopFree DEF TypeInv, LateDatetimeFails, pyVars, Return
<1>12. CASE NumpyHit
  <2> DEFINE f == [Call("array", arg) EXCEPT !.pos = Len(out)]
  <2>1. Len(out) \in Nat
    BY DEF TypeInv
  <2>2. f \in Frame /\ f.fn = "array" /\ f.pos = Len(out)
    <3>1. Call("array", arg) \in Frame /\ Call("array", arg).fn = "array"
      BY <1>0, CallFrame DEF Fns
    <3> QED BY <3>1, <2>1, FrameUpdates, ZenonT(60)
  <2>3. stack' = Append(stack, f) /\ pc' = "python"
        /\ UNCHANGED <<pyVars, refs, arg, ok, enc, out>>
    BY <1>12 DEF NumpyHit
  <2> HIDE DEF f
  <2>4. f \in GoodFrame
    BY <2>2 DEF GoodFrame, FrameOK
  <2>5. /\ stack' \in Seq(GoodFrame) /\ Len(stack') > 0 /\ stack'[Len(stack')] = f
    BY <1>0, <2>3, <2>4, Pushed
  <2>6. TopOK(pc', stack', out')
    BY <2>1, <2>2, <2>3, <2>5 DEF TopOK
  <2> QED BY <2>3, <2>5, <2>6 DEF TypeInv, pyVars
<1>13. CASE NumpyProbe
  <2>1. /\ Append(stack, Call("probe", arg)) \in Seq(GoodFrame)
        /\ TopOK("python", Append(stack, Call("probe", arg)), out)
    BY <1>0, PushCall DEF Fns
  <2>2. enc' \in EncShape
    BY <1>0, <1>13, EncUpdates DEF NumpyProbe
  <2> QED BY <1>13, <2>1, <2>2 DEF TypeInv, NumpyProbe, pyVars
<1>14. CASE CallDefault
  <2>1. InvokeDefault(arg, stack) /\ UNCHANGED <<pyVars, refs, arg, enc, out>>
    BY <1>14 DEF CallDefault
  <2>2. /\ stack' \in Seq(GoodFrame) /\ pc' \in {"ret", "python"} /\ ok' \in BOOLEAN
        /\ TopOK(pc', stack', out)
    BY <1>0, <2>1, InvokeDefaultType
  <2> QED BY <2>1, <2>2 DEF TypeInv, pyVars
<1>15. CASE Rollback
  <2>1. /\ pc = "rollback" /\ out' = SubSeq(out, 1, Top.pos)
        /\ InvokeDefault(Top.obj, Below) /\ UNCHANGED <<pyVars, refs, arg, enc>>
    BY <1>15 DEF Rollback
  <2>2. Height > 0 /\ Top.fn = "array" /\ Top.pos <= Len(out)
    BY <2>1 DEF TypeInv, TopOK, Height, Top
  <2>3. Top.pos \in Nat /\ Top.obj \in Obj /\ Below \in Seq(GoodFrame)
    BY <2>2, StackFacts DEF Frame
  <2>4. out' \in Seq(Marks \X Obj)
    <3>1. \A i \in 1 .. Top.pos : out[i] \in Marks \X Obj
      BY <2>2, <2>3, ElementOfSeq DEF TypeInv
    <3> QED BY <2>1, <2>3, <3>1, SubSeqProperties
  <2>5. /\ stack' \in Seq(GoodFrame) /\ pc' \in {"ret", "python"} /\ ok' \in BOOLEAN
        /\ TopOK(pc', stack', out')
    BY <2>1, <2>3, InvokeDefaultType
  <2> QED BY <2>1, <2>4, <2>5 DEF TypeInv, pyVars
<1> QED BY <1>1, <1>2, <1>3, <1>4, <1>5, <1>6, <1>7, <1>8, <1>9, <1>10, <1>11, <1>12, <1>13,
           <1>14, <1>15 DEF Serialize

(* Moving a frame along its loop keeps it about the same object.           *)
LEMMA FrameMoves ==
  ASSUME NEW f \in GoodFrame
  PROVE  /\ \A x \in Nat : [f EXCEPT !.pos = x] \in GoodFrame
         /\ \A x \in Nat, b \in BOOLEAN : [f EXCEPT !.pos = x, !.first = b] \in GoodFrame
         /\ \A x \in Nat, b \in BOOLEAN : [f EXCEPT !.first = b, !.pos = x] \in GoodFrame
         /\ \A b \in BOOLEAN : [f EXCEPT !.first = b] \in GoodFrame
         /\ f.fn \in {"sorted", "release"} => Releasing(f) \in GoodFrame
<1>1. f \in Frame /\ FrameOK(f)
  BY DEF GoodFrame
<1>2. ASSUME NEW x \in Nat PROVE [f EXCEPT !.pos = x] \in GoodFrame
  <2> DEFINE g == [f EXCEPT !.pos = x]
  <2>1. g \in Frame /\ g.fn = f.fn /\ g.obj = f.obj /\ g.snap = f.snap /\ g.order = f.order
    BY <1>1 DEF Frame
  <2> HIDE DEF g
  <2>2. g \in GoodFrame
    BY <1>1, <2>1 DEF GoodFrame, FrameOK
  <2> QED BY <2>2 DEF g
<1>3. ASSUME NEW b \in BOOLEAN PROVE [f EXCEPT !.first = b] \in GoodFrame
  <2> DEFINE g == [f EXCEPT !.first = b]
  <2>1. g \in Frame /\ g.fn = f.fn /\ g.obj = f.obj /\ g.snap = f.snap /\ g.order = f.order
    BY <1>1 DEF Frame
  <2> HIDE DEF g
  <2>2. g \in GoodFrame
    BY <1>1, <2>1 DEF GoodFrame, FrameOK
  <2> QED BY <2>2 DEF g
<1>4. ASSUME NEW x \in Nat, NEW b \in BOOLEAN
      PROVE  [f EXCEPT !.pos = x, !.first = b] \in GoodFrame
  <2> DEFINE g == [f EXCEPT !.pos = x, !.first = b]
  <2>1. g \in Frame /\ g.fn = f.fn /\ g.obj = f.obj /\ g.snap = f.snap /\ g.order = f.order
    BY <1>1 DEF Frame
  <2> HIDE DEF g
  <2>2. g \in GoodFrame
    BY <1>1, <2>1 DEF GoodFrame, FrameOK
  <2> QED BY <2>2 DEF g
<1>5. ASSUME NEW x \in Nat, NEW b \in BOOLEAN
      PROVE  [f EXCEPT !.first = b, !.pos = x] \in GoodFrame
  <2>1. [f EXCEPT !.first = b, !.pos = x] = [f EXCEPT !.pos = x, !.first = b]
    BY <1>1 DEF Frame
  <2> QED BY <2>1, <1>4
<1>6. ASSUME f.fn \in {"sorted", "release"} PROVE Releasing(f) \in GoodFrame
  <2> DEFINE g == Releasing(f)
  <2>1. g \in Frame /\ g.fn = "release" /\ g.obj = f.obj
    BY <1>1 DEF Frame, Releasing, Fns
  <2>2. Kind[f.obj] = "dict"
    BY <1>1, <1>6 DEF FrameOK
  <2> HIDE DEF g
  <2>3. g \in GoodFrame
    BY <2>1, <2>2 DEF GoodFrame, FrameOK
  <2> QED BY <2>3 DEF g
<1> QED BY <1>2, <1>3, <1>4, <1>5, <1>6

LEMMA VisitType ==
  ASSUME TypeInv, NEW x \in Obj, NEW h, NEW s \in Seq(GoodFrame), Visit(x, h, s)
  PROVE  /\ stack' \in Seq(GoodFrame) /\ pc' = "call" /\ arg' \in Obj
         /\ refs' \subseteq Nat \X Nat \X Nat \X Obj
<1>1. Append(s, Call("hold", x)) \in Seq(GoodFrame)
  BY PushCall DEF Fns
<1>2. Len(s) + 1 \in Nat
  OBVIOUS
<1>3. <<Len(s) + 1, 0, 0, x>> \in Nat \X Nat \X Nat \X Obj
  BY <1>2
<1> QED BY <1>1, <1>3 DEF Visit, TypeInv

LEMMA CloseType ==
  ASSUME TypeInv, NEW f \in Frame, Close(f)
  PROVE  enc' \in EncShape /\ out' \in Seq(Marks \X Obj)
<1>1. enc' = [enc EXCEPT !.depth = enc.depth - 1] /\ enc \in EncShape
  BY DEF Close, TypeInv
<1>2. enc.depth \in Int
  BY <1>1, EncUpdates
<1>3. enc.depth - 1 \in Int
  BY <1>2
<1>4. <<IF f.fn \in {"list", "tuple"} THEN "]" ELSE "}">> \in Seq(Marks)
  <2>1. "]" \in Marks /\ "}" \in Marks
    BY DEF Marks
  <2> QED BY <2>1, MarkSeqs
<1>5. f.obj \in Obj
  BY DEF Frame
<1> QED BY <1>1, <1>3, <1>4, <1>5, EmitMark, EncUpdates DEF Close

(* The snapshot entries a sorted or releasing frame reads are pairs.       *)
LEMMA SnapTypes ==
  ASSUME NEW f \in Frame
  PROVE  /\ DOMAIN f.snap = 1 .. Len(f.snap) /\ Len(f.snap) \in Nat
         /\ \A i \in Filled(f.snap), j \in {1, 2} : f.snap[i][j] \in Obj
<1>1. f.snap \in Seq(Pair)
  BY DEF Frame
<1>2. \A i \in DOMAIN f.snap : f.snap[i] \in Pair
  BY <1>1, ElementOfSeq
<1>3. ASSUME NEW e \in Pair, e # <<>> PROVE e[1] \in Obj /\ e[2] \in Obj
  <2>1. PICK x \in Obj, y \in Obj : e = <<x, y>>
    BY <1>3 DEF Pair
  <2> QED BY <2>1
<1>4. \A i \in Filled(f.snap), j \in {1, 2} : f.snap[i][j] \in Obj
  BY <1>2, <1>3 DEF Filled
<1> QED BY <1>1, <1>4

LEMMA TypeLoop ==
  ASSUME TypeInv, Loop
  PROVE  TypeInv'
<1>1. Height > 0 /\ pc = "step"
  BY DEF Loop, NextItem, CloseList, NextPair, BadKey, CloseDict, NextSorted, EndSorted,
         SkipHole, ReleaseStep, EndRelease, Running
<1>2. /\ Top \in Frame /\ FrameOK(Top) /\ Top \in GoodFrame /\ Top.obj \in Obj
      /\ Top.pos \in Nat /\ Top.pos + 1 \in Nat
      /\ Below \in Seq(GoodFrame) /\ Height \in Nat
  BY <1>1, StackFacts DEF Frame, GoodFrame
<1>3. \A f \in GoodFrame : SetTop(f) \in Seq(GoodFrame) /\ Len(SetTop(f)) = Height
  BY <1>1, StackFacts
<1>4. [Top EXCEPT !.pos = Top.pos + 1] \in GoodFrame
  BY <1>2, FrameMoves
<1>5. CASE NextItem
  <2> DEFINE x == items[Top.obj][Top.pos + 1][1]
             s == SetTop([Top EXCEPT !.pos = Top.pos + 1])
  <2>1. Kind[Top.obj] \in {"list", "tuple"} /\ Top.pos < Len(items[Top.obj])
    BY <1>2, <1>5 DEF NextItem, Running, FrameOK
  <2>2. Top.pos + 1 \in DOMAIN items[Top.obj]
    BY <1>2, <2>1, EntryTypes DEF TypeInv
  <2>3. x \in Obj
    BY <1>2, <2>1, <2>2, EntryTypes DEF TypeInv
  <2>4. Visit(x, Top.fn = "list" /\ Guarded(x), s)
    BY <1>5 DEF NextItem
  <2>5. out' = Emit(Comma(Top.pos = 0), Top.obj) /\ UNCHANGED <<pyVars, ok, enc>>
    BY <1>5 DEF NextItem
  <2>6. s \in Seq(GoodFrame)
    BY <1>3, <1>4
  <2> HIDE DEF x, s
  <2>7. /\ stack' \in Seq(GoodFrame) /\ pc' = "call" /\ arg' \in Obj
        /\ refs' \subseteq Nat \X Nat \X Nat \X Obj
    BY <2>3, <2>4, <2>6, VisitType
  <2>8. out' \in Seq(Marks \X Obj)
    BY <1>2, <2>5, EmitMark, MarkSeqs
  <2> QED BY <2>5, <2>7, <2>8, TopFree DEF TypeInv, pyVars
<1>6. CASE CloseList
  <2>1. enc' \in EncShape /\ out' \in Seq(Marks \X Obj)
    BY <1>2, <1>6, CloseType DEF CloseList
  <2> QED BY <1>2, <1>6, <2>1, TopFree DEF CloseList, TypeInv, pyVars, Return
<1>7. CASE NextPair
  <2> DEFINE k(i) == items[Top.obj][i][1]
             v(i) == items[Top.obj][i][2]
             s(i) == SetTop([Top EXCEPT !.pos = i, !.first = FALSE])
  <2>1. PICK i \in NextEntry(Top.obj, Top.pos) :
          /\ out' = Emit(KeyMarks(Top.first), k(i))
          /\ pc' = "call" /\ arg' = v(i)
          /\ \/ /\ stack' = s(i) \o <<Call("hold", k(i)), Call("hold", v(i))>>
                /\ refs' = refs \cup {<<Height + 1, 0, 0, k(i)>>, <<Height + 2, 0, 0, v(i)>>}
             \/ stack' = s(i) /\ refs' = refs
    BY <1>7 DEF NextPair
  <2>2. UNCHANGED <<pyVars, ok, enc>>
    BY <1>7 DEF NextPair
  <2>3. Kind[Top.obj] = "dict"
    BY <1>2, <1>7 DEF NextPair, Running, FrameOK
  <2>4. i \in Filled(items[Top.obj]) /\ i \in Nat
    BY <1>2, EntryTypes DEF NextEntry, Filled, TypeInv
  <2>5. k(i) \in Obj /\ v(i) \in Obj
    BY <1>2, <2>3, <2>4, EntryTypes DEF TypeInv
  <2>6. s(i) \in Seq(GoodFrame) /\ Len(s(i)) = Height
    <3>1. [Top EXCEPT !.pos = i, !.first = FALSE] \in GoodFrame
      BY <1>2, <2>4, FrameMoves
    <3> QED BY <3>1, <1>3
  <2> HIDE DEF k, v, s
  <2>7. Call("hold", k(i)) \in GoodFrame /\ Call("hold", v(i)) \in GoodFrame
    BY <2>5, CallGood DEF Fns
  <2>8. s(i) \o <<Call("hold", k(i)), Call("hold", v(i))>> \in Seq(GoodFrame)
    BY <2>6, <2>7, ShortSeqs, ConcatProperties
  <2>9. refs' \subseteq Nat \X Nat \X Nat \X Obj
    <3>1. Height + 1 \in Nat /\ Height + 2 \in Nat
      BY <1>2
    <3> QED BY <2>1, <2>5, <3>1 DEF TypeInv
  <2>10. out' \in Seq(Marks \X Obj)
    <3>1. Top.first \in BOOLEAN
      BY <1>2 DEF Frame
    <3> QED BY <2>1, <2>5, <3>1, EmitMark, MarkSeqs
  <2> QED BY <2>1, <2>2, <2>5, <2>6, <2>8, <2>9, <2>10, TopFree DEF TypeInv, pyVars
<1>8. CASE BadKey
  BY <1>2, <1>8, TopFree DEF BadKey, TypeInv, pyVars, Return
<1>9. CASE CloseDict
  <2>1. enc' \in EncShape /\ out' \in Seq(Marks \X Obj)
    BY <1>2, <1>9, CloseType DEF CloseDict
  <2> QED BY <1>2, <1>9, <2>1, TopFree DEF CloseDict, TypeInv, pyVars, Return
<1>10. CASE NextSorted
  <2> DEFINE e == Top.snap[Top.order[Top.pos + 1]]
             s == SetTop([Top EXCEPT !.pos = Top.pos + 1])
  <2>1. Top.pos < Len(Top.order) /\ Top.fn = "sorted"
    BY <1>10 DEF NextSorted, Running
  <2>2. Top.pos + 1 \in DOMAIN Top.order
    <3>1. Top.order \in Seq(Nat)
      BY <1>2 DEF Frame
    <3> QED BY <1>2, <2>1, <3>1
  <2>3. e[1] \in Obj /\ e[2] \in Obj
    <3>1. Top.order[Top.pos + 1] \in Filled(Top.snap)
      BY <1>2, <2>1, <2>2 DEF FrameOK
    <3> QED BY <1>2, <3>1, SnapTypes
  <2>4. /\ Visit(e[2], FALSE, s) /\ out' = Emit(KeyMarks(Top.pos = 0), e[1])
        /\ UNCHANGED <<pyVars, ok, enc>>
    BY <1>10 DEF NextSorted
  <2>5. s \in Seq(GoodFrame)
    BY <1>3, <1>4
  <2> HIDE DEF e, s
  <2>6. /\ stack' \in Seq(GoodFrame) /\ pc' = "call" /\ arg' \in Obj
        /\ refs' \subseteq Nat \X Nat \X Nat \X Obj
    BY <2>3, <2>4, <2>5, VisitType
  <2>7. out' \in Seq(Marks \X Obj)
    BY <2>3, <2>4, EmitMark, MarkSeqs
  <2> QED BY <2>4, <2>6, <2>7, TopFree DEF TypeInv, pyVars
<1>11. CASE EndSorted
  <2>1. SetTop(Releasing(Top)) \in Seq(GoodFrame)
    BY <1>2, <1>3, <1>11, FrameMoves DEF EndSorted, Running
  <2> QED BY <1>1, <1>11, <2>1, TopFree DEF EndSorted, TypeInv, pyVars
<1>12. CASE SkipHole
  <2>1. SetTop([Top EXCEPT !.pos = Top.pos + 1]) \in Seq(GoodFrame)
    BY <1>3, <1>4
  <2> QED BY <1>1, <1>12, <2>1, TopFree DEF SkipHole, TypeInv, pyVars
<1>13. CASE ReleaseStep
  <2> DEFINE i == Top.pos + 1
             j == IF Top.first THEN 2 ELSE 1
             f == IF Top.first THEN [Top EXCEPT !.first = FALSE]
                               ELSE [Top EXCEPT !.first = TRUE, !.pos = Top.pos + 1]
  <2>1. Decref({<<Height, i, j, Top.snap[i][j]>>}, SetTop(f), "step")
        /\ UNCHANGED <<pyVars, arg, ok, enc, out>>
    BY <1>13 DEF ReleaseStep
  <2>2. f \in GoodFrame
    BY <1>2, FrameMoves
  <2> HIDE DEF f, i, j
  <2>3. SetTop(f) \in Seq(GoodFrame)
    BY <2>2, <1>3
  <2>4. /\ refs' \subseteq Nat \X Nat \X Nat \X Obj
        /\ stack' \in Seq(GoodFrame)
        /\ pc' \in {"ret", "step", "python"}
        /\ TopOK(pc', stack', out)
    BY <2>1, <2>3, DecrefType
  <2> QED BY <2>1, <2>4 DEF TypeInv, pyVars
<1>14. CASE EndRelease
  <2>1. enc' \in EncShape /\ out' \in Seq(Marks \X Obj)
    BY <1>2, <1>14, CloseType DEF EndRelease, TypeInv
  <2> QED BY <1>2, <1>14, <2>1, TopFree DEF EndRelease, TypeInv, pyVars, Return
<1> QED BY <1>5, <1>6, <1>7, <1>8, <1>9, <1>10, <1>11, <1>12, <1>13, <1>14 DEF Loop

LEMMA TypeReturned ==
  ASSUME TypeInv, Returned
  PROVE  TypeInv'
<1>1. Height > 0 => /\ Top \in Frame /\ Top \in GoodFrame /\ Top.obj \in Obj
                    /\ Below \in Seq(GoodFrame)
                    /\ \A f \in GoodFrame : SetTop(f) \in Seq(GoodFrame)
  BY StackFacts DEF Frame, GoodFrame
<1>2. CASE ReturnToLoop
  BY <1>1, <1>2, TopFree DEF ReturnToLoop, TypeInv, pyVars, Return
<1>3. CASE ReturnToSorted
  <2>1. stack' \in Seq(GoodFrame)
    BY <1>1, <1>3, FrameMoves DEF ReturnToSorted, Running, TypeInv
  <2> QED BY <1>3, <2>1, TopFree DEF ReturnToSorted, TypeInv, pyVars
<1>4. CASE ReturnToHold
  <2>1. /\ Decref({<<Height, 0, 0, Top.obj>>}, Below, "ret") /\ Height > 0
        /\ UNCHANGED <<pyVars, arg, ok, enc, out>>
    BY <1>4 DEF ReturnToHold, Running
  <2>2. /\ refs' \subseteq Nat \X Nat \X Nat \X Obj /\ stack' \in Seq(GoodFrame)
        /\ pc' \in {"ret", "step", "python"} /\ TopOK(pc', stack', out)
    BY <1>1, <2>1, DecrefType
  <2> QED BY <2>1, <2>2 DEF TypeInv, pyVars
<1>5. CASE ReturnToResult
  <2>1. /\ Decref({<<Height, 0, 0, Top.obj>>}, Below, "ret") /\ Height > 0
        /\ enc' = [enc EXCEPT !.ddepth = enc.ddepth - 1]
        /\ UNCHANGED <<pyVars, arg, ok, out>>
    BY <1>5 DEF ReturnToResult, Running
  <2>2. /\ refs' \subseteq Nat \X Nat \X Nat \X Obj /\ stack' \in Seq(GoodFrame)
        /\ pc' \in {"ret", "step", "python"} /\ TopOK(pc', stack', out)
    BY <1>1, <2>1, DecrefType
  <2>3. enc' \in EncShape
    <3>1. enc \in EncShape
      BY DEF TypeInv
    <3>2. enc.ddepth \in Int
      BY <3>1, EncUpdates
    <3>3. enc.ddepth - 1 \in Int
      BY <3>2
    <3> QED BY <2>1, <3>1, <3>3, EncUpdates
  <2> QED BY <2>1, <2>2, <2>3 DEF TypeInv, pyVars
<1>6. CASE Finish
  BY <1>6, TopFree DEF Finish, TypeInv, pyVars
<1> QED BY <1>2, <1>3, <1>4, <1>5, <1>6 DEF Returned

(* Python puts only entries of the right kind into a container.            *)
LEMMA ChangeType ==
  ASSUME TypeInv, pc = "python", NEW o \in Obj, NEW es \in Seq(EntryOf(o)), PyChange(o, es),
         budget > 0, fresh' \subseteq Obj
  PROVE  TypeInv'
<1>1. items' = [items EXCEPT ![o] = es] /\ budget' = budget - 1
      /\ UNCHANGED <<sysdt, rustVars>>
  BY DEF PyChange
<1>2. HeapType(items)
  BY DEF TypeInv
<1>3. es \in Seq(Entry)
  <2>1. EntryOf(o) \subseteq Entry
    BY DEF EntryOf, Entry
  <2>2. Len(es) \in Nat /\ es \in [1 .. Len(es) -> EntryOf(o)]
    OBVIOUS
  <2>3. es \in [1 .. Len(es) -> Entry]
    BY <2>1, <2>2
  <2> QED BY <2>2, <2>3
<1>4. HeapType(items')
  <2>1. items' \in [Obj -> Seq(Entry)]
    BY <1>1, <1>2, <1>3 DEF HeapType
  <2>2. \A p \in Obj : items'[p] \in Seq(EntryOf(p))
    BY <1>1, <1>2 DEF HeapType
  <2> QED BY <2>1, <2>2 DEF HeapType
<1>5. budget' \in 0 .. MaxMutations
  BY <1>1, EncoderAssumption DEF TypeInv
<1>6. sysdt' \in BOOLEAN /\ TopOK(pc', stack', out')
  BY <1>1 DEF TypeInv, rustVars
<1> QED BY <1>1, <1>4, <1>5, <1>6 DEF TypeInv, rustVars

LEMMA TypePython ==
  ASSUME TypeInv, Python
  PROVE  TypeInv'
<1>1. pc = "python" /\ Height > 0
  BY DEF Python, PyClear, PyDelete, PyAppend, PyRebuild, PyImport, PyRaise, DefaultReturns,
         TextReturns, OffsetInvalid, ArrayWritten, ArrayDeclined, ProbeReturns,
         FinalizerReturns, TypeInv, TopOK, Height
<1>2. /\ Top \in Frame /\ Top \in GoodFrame /\ Top.obj \in Obj
      /\ Below \in Seq(GoodFrame) /\ Len(Below) = Height - 1 /\ Height \in Nat
      /\ \A f \in GoodFrame : SetTop(f) \in Seq(GoodFrame) /\ Len(SetTop(f)) = Height
  BY <1>1, StackFacts DEF Frame, GoodFrame
<1>3. CASE PyClear
  <2>1. PICK o \in Mutable : PyChange(o, <<>>)
    BY <1>3 DEF PyClear
  <2>2. o \in Obj /\ <<>> \in Seq(EntryOf(o)) /\ budget > 0 /\ fresh' \subseteq Obj
    BY <1>3, AliveType DEF PyClear, TypeInv
  <2> QED BY <1>1, <2>1, <2>2, ChangeType
<1>4. CASE PyDelete
  <2> DEFINE es(o, i) == IF Kind[o] = "dict"
                           THEN [items[o] EXCEPT ![i] = <<>>]
                           ELSE SubSeq(items[o], 1, i - 1)
                                \o SubSeq(items[o], i + 1, Len(items[o]))
  <2>1. PICK o \in Mutable : \E i \in Filled(items[o]) : PyChange(o, es(o, i))
    BY <1>4 DEF PyDelete
  <2>2. PICK i \in Filled(items[o]) : PyChange(o, es(o, i))
    BY <2>1
  <2>3. o \in Obj /\ budget > 0 /\ fresh' \subseteq Obj
    BY <1>4, AliveType DEF PyDelete, TypeInv
  <2>4. /\ items[o] \in Seq(EntryOf(o)) /\ Len(items[o]) \in Nat
        /\ DOMAIN items[o] = 1 .. Len(items[o])
        /\ i \in 1 .. Len(items[o])
        /\ \A j \in DOMAIN items[o] : items[o][j] \in EntryOf(o)
    BY <2>3, EntryTypes DEF TypeInv, HeapType, Filled
  <2>5. es(o, i) \in Seq(EntryOf(o))
    <3>1. CASE Kind[o] = "dict"
      <4>1. <<>> \in EntryOf(o)
        BY <3>1 DEF EntryOf, Pair
      <4> QED BY <2>4, <3>1, <4>1
    <3>2. CASE Kind[o] # "dict"
      <4>1. SubSeq(items[o], 1, i - 1) \in Seq(EntryOf(o))
        BY <2>4, SubSeqProperties
      <4>2. SubSeq(items[o], i + 1, Len(items[o])) \in Seq(EntryOf(o))
        BY <2>4, SubSeqProperties
      <4> QED BY <3>2, <4>1, <4>2, ConcatProperties
    <3> QED BY <3>1, <3>2
  <2> HIDE DEF es
  <2> QED BY <1>1, <2>2, <2>3, <2>5, ChangeType
<1>5. CASE PyAppend
  <2>1. PICK o \in Mutable : \E e \in Entries(o) :
                               /\ PyChange(o, Append(items[o], e))
                               /\ fresh' = fresh \ Reach({e[i] : i \in DOMAIN e}, items, Boxes)
    BY <1>5 DEF PyAppend
  <2>2. PICK e \in Entries(o) :
               /\ PyChange(o, Append(items[o], e))
               /\ fresh' = fresh \ Reach({e[i] : i \in DOMAIN e}, items, Boxes)
    BY <2>1
  <2>3. o \in Obj /\ budget > 0 /\ fresh' \subseteq Obj
    BY <1>5, <2>2, AliveType DEF PyAppend, TypeInv
  <2>4. e \in EntryOf(o)
    <3>1. PyValues \subseteq Obj
      BY AliveType
    <3> QED BY <2>2, <3>1 DEF Entries, EntryOf, Pair, Single
  <2>5. items[o] \in Seq(EntryOf(o))
    BY <2>3 DEF TypeInv, HeapType
  <2>6. Append(items[o], e) \in Seq(EntryOf(o))
    BY <2>4, <2>5
  <2> QED BY <1>1, <2>2, <2>3, <2>6, ChangeType
<1>6. CASE PyRebuild
  <2>1. PICK o \in Mutable : \E f \in [1 .. Size(o) -> Filled(items[o])] :
                               PyChange(o, [i \in DOMAIN f |-> items[o][f[i]]])
    BY <1>6 DEF PyRebuild
  <2>2. PICK f \in [1 .. Size(o) -> Filled(items[o])] :
               PyChange(o, [i \in DOMAIN f |-> items[o][f[i]]])
    BY <2>1
  <2>3. o \in Obj /\ budget > 0 /\ fresh' \subseteq Obj
    BY <1>6, AliveType DEF PyRebuild, TypeInv
  <2>4. Size(o) \in Nat
    <3>1. DOMAIN items[o] = 1 .. Len(items[o]) /\ Len(items[o]) \in Nat
      BY <2>3, EntryTypes DEF TypeInv
    <3>2. IsFiniteSet(DOMAIN items[o])
      BY <3>1, FS_Interval
    <3>3. IsFiniteSet({i \in DOMAIN items[o] : items[o][i] # <<>>})
      BY <3>2, FS_Subset
    <3> QED BY <3>3, FS_CardinalityType DEF Size
  <2>5. [i \in DOMAIN f |-> items[o][f[i]]] \in Seq(EntryOf(o))
    <3>1. \A i \in 1 .. Size(o) : items[o][f[i]] \in EntryOf(o)
      BY <2>3, EntryTypes DEF TypeInv, Filled
    <3>2. DOMAIN f = 1 .. Size(o)
      OBVIOUS
    <3>3. [i \in DOMAIN f |-> items[o][f[i]]] \in [1 .. Size(o) -> EntryOf(o)]
      BY <3>1, <3>2
    <3> QED BY <2>4, <3>3
  <2> QED BY <1>1, <2>2, <2>3, <2>5, ChangeType
<1>7. CASE PyImport
  BY <1>7 DEF PyImport, TypeInv, rustVars
<1>8. CASE PyRaise
  BY <1>2, <1>8, TopFree DEF PyRaise, TypeInv, pyVars, Return
<1>9. CASE DefaultReturns
  <2>1. PICK r \in PyValues : /\ stack' = Append(Below, Call("result", r))
                              /\ refs' = refs \cup {<<Height, 0, 0, r>>}
                              /\ fresh' = fresh \ Reach({r}, items, Boxes)
                              /\ arg' = r
    BY <1>9 DEF DefaultReturns
  <2>2. r \in Obj
    BY AliveType
  <2>3. stack' \in Seq(GoodFrame)
    BY <1>2, <2>1, <2>2, PushCall DEF Fns
  <2>4. enc' \in EncShape
    <3>1. enc' = [enc EXCEPT !.ddepth = enc.ddepth + 1] /\ enc \in EncShape
      BY <1>9 DEF DefaultReturns, TypeInv
    <3>2. enc.ddepth \in Int
      BY <3>1, EncUpdates
    <3>3. enc.ddepth + 1 \in Int
      BY <3>2
    <3> QED BY <3>1, <3>3, EncUpdates
  <2>5. pc' = "call" /\ UNCHANGED <<items, sysdt, budget, ok, out>>
    BY <1>9 DEF DefaultReturns
  <2> QED BY <1>2, <2>1, <2>2, <2>3, <2>4, <2>5, TopFree DEF TypeInv
<1>10. CASE TextReturns
  BY <1>2, <1>10, EmitMark, TopFree DEF TextReturns, TypeInv, pyVars, Return
<1>11. CASE OffsetInvalid
  <2> DEFINE f == [Top EXCEPT !.pos = 1]
  <2>1. f \in GoodFrame
    BY <1>2, FrameMoves
  <2>2. f.fn = Top.fn
    BY <1>2 DEF Frame
  <2>3. Top.fn = "utcoffset" /\ stack' = SetTop(f)
        /\ UNCHANGED <<pyVars, refs, pc, arg, ok, enc, out>>
    BY <1>11 DEF OffsetInvalid, Running
  <2> HIDE DEF f
  <2>4. stack' \in Seq(GoodFrame) /\ Len(stack') = Height /\ stack'[Height] = f
    BY <1>1, <1>2, <2>1, <2>3, Replaced DEF TypeInv, Height, SetTop
  <2>5. TopOK(pc', stack', out')
    BY <1>1, <2>2, <2>3, <2>4 DEF TopOK
  <2> QED BY <2>3, <2>4, <2>5 DEF TypeInv, pyVars
<1>12. CASE ArrayWritten
  <2>1. PICK t \in ArrayTexts : out' = Emit(t, Top.obj)
    BY <1>12 DEF ArrayWritten
  <2>2. out' \in Seq(Marks \X Obj)
    BY <1>2, <2>1, EmitMark, EncoderAssumption
  <2> QED BY <1>2, <1>12, <2>2, TopFree DEF ArrayWritten, TypeInv, pyVars, Return
<1>13. CASE ArrayDeclined
  <2>1. PICK t \in ArrayTexts : \E n \in 0 .. Len(t) - 1 : out' = Emit(SubSeq(t, 1, n), Top.obj)
    BY <1>13 DEF ArrayDeclined
  <2>2. PICK n \in 0 .. Len(t) - 1 : out' = Emit(SubSeq(t, 1, n), Top.obj)
    BY <2>1
  <2>3. SubSeq(t, 1, n) \in Seq(Marks)
    <3>1. t \in Seq(Marks) /\ Len(t) \in Nat /\ \A i \in 1 .. Len(t) : t[i] \in Marks
      BY EncoderAssumption, ElementOfSeq
    <3> QED BY <3>1, SubSeqProperties
  <2>4. out' \in Seq(Marks \X Obj) /\ Len(out) <= Len(out')
    <3> DEFINE u == [i \in DOMAIN SubSeq(t, 1, n) |-> <<SubSeq(t, 1, n)[i], Top.obj>>]
    <3>1. out' \in Seq(Marks \X Obj)
      BY <1>2, <2>2, <2>3, EmitMark
    <3>2. out' = out \o u /\ out \in Seq(Marks \X Obj)
      BY <2>2 DEF Emit, TypeInv
    <3>3. u \in Seq(Marks \X Obj)
      <4> DEFINE w == SubSeq(t, 1, n)
      <4>1. Len(w) \in Nat /\ DOMAIN w = 1 .. Len(w) /\ \A i \in 1 .. Len(w) : w[i] \in Marks
        BY <2>3, ElementOfSeq
      <4> HIDE DEF w
      <4>2. [i \in DOMAIN w |-> <<w[i], Top.obj>>] \in Seq(Marks \X Obj)
        BY <4>1, <1>2
      <4> QED BY <4>2 DEF w
    <3> HIDE DEF u
    <3>4. Len(out') = Len(out) + Len(u) /\ Len(out) \in Nat /\ Len(u) \in Nat
      BY <3>2, <3>3
    <3> QED BY <3>1, <3>4
  <2>5. /\ pc' = "rollback" /\ Top.fn = "array"
        /\ UNCHANGED <<pyVars, refs, stack, arg, ok, enc>>
    BY <1>13 DEF ArrayDeclined, Running
  <2>6. Top.pos <= Len(out')
    <3>1. Top.pos <= Len(out) /\ Top.pos \in Nat /\ Len(out) \in Nat /\ Len(out') \in Nat
      BY <1>1, <1>2, <2>4, <2>5, SMTT(60) DEF TypeInv, TopOK, Top, Height, Frame
    <3> QED BY <2>4, <3>1
  <2>7. TopOK(pc', stack', out')
    BY <1>1, <2>5, <2>6 DEF TopOK, Top, Height
  <2> QED BY <2>4, <2>5, <2>7 DEF TypeInv, pyVars
<1>14. CASE ProbeReturns
  <2>1. UNCHANGED <<pyVars, refs, arg, enc, out>>
    BY <1>14 DEF ProbeReturns
  <2>2. CASE InvokeDefault(Top.obj, Below)
    <3>1. /\ stack' \in Seq(GoodFrame) /\ pc' \in {"ret", "python"} /\ ok' \in BOOLEAN
          /\ TopOK(pc', stack', out)
      BY <1>2, <2>2, InvokeDefaultType
    <3> QED BY <2>1, <3>1 DEF TypeInv, pyVars
  <2>3. CASE /\ stack' = SetTop([Call("array", Top.obj) EXCEPT !.pos = Len(out)])
             /\ UNCHANGED <<pc, ok>>
    <3> DEFINE f == [Call("array", Top.obj) EXCEPT !.pos = Len(out)]
    <3>1. Len(out) \in Nat
      BY DEF TypeInv
    <3>2. f \in Frame /\ f.fn = "array" /\ f.pos = Len(out)
      <4>1. Call("array", Top.obj) \in Frame /\ Call("array", Top.obj).fn = "array"
        BY <1>2, CallFrame DEF Fns
      <4> QED BY <3>1, <4>1, FrameUpdates
    <3>3. stack' = SetTop(f)
      BY <2>3
    <3> HIDE DEF f
    <3>4. f \in GoodFrame
      BY <3>2 DEF GoodFrame, FrameOK
    <3>5. stack' \in Seq(GoodFrame) /\ Len(stack') = Height /\ stack'[Height] = f
      BY <1>1, <3>3, <3>4, Replaced DEF TypeInv, Height, SetTop
    <3>6. TopOK(pc', stack', out')
      BY <1>1, <2>1, <2>3, <3>1, <3>2, <3>5 DEF TopOK
    <3> QED BY <2>1, <2>3, <3>5, <3>6 DEF TypeInv, pyVars
  <2> QED BY <1>14, <2>2, <2>3 DEF ProbeReturns
<1>15. CASE FinalizerReturns
  <2>1. Top.next \in {"ret", "step"}
    BY <1>2 DEF Frame
  <2> QED BY <1>2, <1>15, <2>1, TopFree DEF FinalizerReturns, TypeInv, pyVars
<1> QED BY <1>3, <1>4, <1>5, <1>6, <1>7, <1>8, <1>9, <1>10, <1>11, <1>12, <1>13, <1>14,
           <1>15 DEF Python

LEMMA TypeInit ==
  ASSUME Init
  PROVE  TypeInv
<1>1. HeapType(items)
  BY EncoderAssumption DEF Init, HeapType
<1>2. enc \in EncShape
  <2>1. PICK o \in OptSets, d \in Defaults :
          enc = [opts |-> o, default |-> d, guard |-> Guard(o, d, sysdt), dt |-> sysdt,
                 depth |-> 0, ddepth |-> 0, rechecked |-> FALSE]
    BY DEF Init
  <2>2. o \in SUBSET Options /\ d \in BOOLEAN /\ sysdt \in BOOLEAN
        /\ Guard(o, d, sysdt) \in BOOLEAN
    BY EncoderAssumption DEF Init, Guard
  <2> QED BY <2>1, <2>2 DEF EncShape
<1>3. /\ fresh \subseteq Obj /\ sysdt \in BOOLEAN /\ budget \in 0 .. MaxMutations
      /\ refs \subseteq Nat \X Nat \X Nat \X Obj
      /\ stack \in Seq(GoodFrame) /\ out \in Seq(Marks \X Obj)
      /\ pc = "call" /\ arg \in Obj /\ ok \in BOOLEAN
  BY EncoderAssumption DEF Init
<1> QED BY <1>1, <1>2, <1>3, TopFree DEF TypeInv

LEMMA TypeStep ==
  ASSUME TypeInv, [Next]_vars
  PROVE  TypeInv'
<1>1. CASE UNCHANGED vars
  BY <1>1 DEF vars, TypeInv
<1>2. CASE Terminated
  BY <1>2 DEF Terminated, vars, TypeInv
<1> QED BY <1>1, <1>2, TypeSerialize, TypeLoop, TypeReturned, TypePython DEF Next

LEMMA Typing == Spec => []TypeInv
<1>1. Init => TypeInv
  BY TypeInit
<1>2. TypeInv /\ [Next]_vars => TypeInv'
  BY TypeStep
<1> QED BY <1>1, <1>2, PTL DEF Spec

-----------------------------------------------------------------------------
(* The calls into Python: there is at most one, on top, while Python runs. *)
Transient == {"default", "utcoffset", "array", "probe", "digits", "del"}

Settled(s) == \A l \in DOMAIN s : s[l].fn \notin Transient

(* Where the walk stands.  A failure travels down the stack: nothing but   *)
(* the release of a snapshot and finalizers still run after it.            *)
Shape(p, s, o) ==
  /\ \A l \in DOMAIN s : s[l].fn \in Transient => l = Len(s) /\ p \in {"python", "rollback"}
  /\ p \in {"python", "rollback"} => Len(s) > 0 /\ s[Len(s)].fn \in Transient
  /\ p \in {"call", "rollback"} => o
  /\ p = "step" => /\ Len(s) > 0 /\ s[Len(s)].fn \in Containers
                   /\ o \/ s[Len(s)].fn = "release"
  /\ p = "python" => o \/ s[Len(s)].fn = "del"
  /\ p = "python" /\ s[Len(s)].fn = "del" /\ s[Len(s)].next = "step" =>
       Len(s) > 1 /\ s[Len(s) - 1].fn = "release"

ShapeInv == TypeInv /\ Shape(pc, stack, ok)

-----------------------------------------------------------------------------

LEMMA StackMoves ==
  ASSUME TypeInv, Height > 0
  PROVE  /\ stack = Append(Below, Top)
         /\ \A f \in GoodFrame : SetTop(f) = Append(Below, f)
         /\ \A l \in 1 .. Height - 1 : Below[l] = stack[l]
         /\ DOMAIN Below = 1 .. Height - 1 /\ DOMAIN stack = 1 .. Height
<1>1. stack \in Seq(GoodFrame) /\ Len(stack) > 0 /\ Height = Len(stack) /\ Height \in Nat
  BY DEF TypeInv, Height
<1>2. /\ Below \in Seq(GoodFrame) /\ Len(Below) = Height - 1 /\ Top \in GoodFrame
      /\ \A l \in 1 .. Height - 1 : Below[l] = stack[l]
  BY <1>1, Popped DEF Below, Top
<1>3. ASSUME NEW f \in GoodFrame, NEW s \in Seq(GoodFrame), Len(s) = Height,
             \A l \in 1 .. Height - 1 : s[l] = stack[l], s[Height] = f
      PROVE  s = Append(Below, f)
  <2> DEFINE t == Append(Below, f)
  <2>1. /\ t \in Seq(GoodFrame) /\ Len(t) = Height
        /\ \A l \in 1 .. Height - 1 : t[l] = Below[l]
        /\ t[Height] = f
    BY <1>1, <1>2, Pushed
  <2> HIDE DEF t
  <2>2. \A l \in 1 .. Height : s[l] = t[l]
    BY <1>1, <1>2, <1>3, <2>1
  <2>3. s = t
    BY <1>1, <1>3, <2>1, <2>2, SeqEqual
  <2> QED BY <2>3 DEF t
<1>4. stack = Append(Below, Top)
  BY <1>1, <1>2, <1>3 DEF Top
<1>5. ASSUME NEW f \in GoodFrame PROVE SetTop(f) = Append(Below, f)
  <2> DEFINE s == SetTop(f)
  <2>1. /\ s \in Seq(GoodFrame) /\ Len(s) = Height /\ s[Height] = f
        /\ \A l \in 1 .. Height - 1 : s[l] = stack[l]
    BY <1>1, Replaced DEF SetTop
  <2> HIDE DEF s
  <2>2. s = Append(Below, f)
    BY <2>1, <1>3
  <2> QED BY <2>2 DEF s
<1> QED BY <1>1, <1>2, <1>4, <1>5

LEMMA ShapeMoves ==
  ASSUME NEW s \in Seq(GoodFrame), Settled(s)
  PROVE  /\ \A o \in BOOLEAN : Shape("ret", s, o) /\ Shape("done", s, o)
         /\ Shape("call", s, TRUE)
         /\ \A o \in BOOLEAN : /\ Len(s) > 0 /\ s[Len(s)].fn \in Containers
                               /\ o \/ s[Len(s)].fn = "release"
                               => Shape("step", s, o)
         /\ \A f \in GoodFrame : f.fn \notin Transient => Settled(Append(s, f))
         /\ \A f \in GoodFrame : f.fn \in Transient => Shape("python", Append(s, f), TRUE)
                                 \/ f.fn = "del"
         /\ \A f \in GoodFrame, o \in BOOLEAN :
              /\ f.fn = "del"
              /\ f.next = "step" => Len(s) > 0 /\ s[Len(s)].fn = "release"
              => Shape("python", Append(s, f), o)
<1>1. DOMAIN s = 1 .. Len(s) /\ Len(s) \in Nat
  OBVIOUS
<1>2. /\ \A o \in BOOLEAN : Shape("ret", s, o) /\ Shape("done", s, o)
      /\ Shape("call", s, TRUE)
      /\ \A o \in BOOLEAN : /\ Len(s) > 0 /\ s[Len(s)].fn \in Containers
                            /\ o \/ s[Len(s)].fn = "release"
                            => Shape("step", s, o)
  BY DEF Shape, Settled
<1>3. ASSUME NEW f \in GoodFrame
      PROVE  /\ f.fn \notin Transient => Settled(Append(s, f))
             /\ f.fn \in Transient => Shape("python", Append(s, f), TRUE) \/ f.fn = "del"
             /\ \A o \in BOOLEAN :
                  /\ f.fn = "del"
                  /\ f.next = "step" => Len(s) > 0 /\ s[Len(s)].fn = "release"
                  => Shape("python", Append(s, f), o)
  <2> DEFINE t == Append(s, f)
  <2>1. /\ t \in Seq(GoodFrame) /\ Len(t) = Len(s) + 1
        /\ \A l \in 1 .. Len(s) : t[l] = s[l]
        /\ t[Len(s) + 1] = f
    BY Pushed
  <2>2. DOMAIN t = 1 .. Len(s) + 1
    BY <2>1
  <2> HIDE DEF t
  <2>3. \A l \in DOMAIN t : l = Len(t) \/ t[l].fn \notin Transient
    BY <1>1, <2>1, <2>2 DEF Settled
  <2>4. f.fn \notin Transient => Settled(t)
    BY <2>1, <2>3 DEF Settled
  <2>5. f.fn \in Transient => Shape("python", t, TRUE) \/ f.fn = "del"
    BY <1>1, <2>1, <2>3 DEF Shape
  <2>6. ASSUME NEW o \in BOOLEAN, f.fn = "del",
               f.next = "step" => Len(s) > 0 /\ s[Len(s)].fn = "release"
        PROVE  Shape("python", t, o)
    <3>1. f.next = "step" => Len(t) > 1 /\ t[Len(t) - 1].fn = "release"
      BY <1>1, <2>1, <2>6
    <3> QED BY <1>1, <2>1, <2>3, <2>6, <3>1 DEF Shape, Transient
  <2> QED BY <2>4, <2>5, <2>6 DEF t
<1> QED BY <1>2, <1>3

(* While the encoder runs no frame is a call into Python; while Python     *)
(* runs only the top one is.                                               *)
LEMMA ShapeFacts ==
  ASSUME ShapeInv
  PROVE  /\ pc \notin {"python", "rollback"} => Settled(stack)
         /\ Height > 0 => Settled(Below)
         /\ pc \in {"call", "rollback"} => ok
         /\ pc = "step" => Height > 0 /\ Top.fn \in Containers /\ (ok \/ Top.fn = "release")
         /\ pc \in {"python", "rollback"} => Height > 0 /\ Top.fn \in Transient
         /\ pc = "python" => ok \/ Top.fn = "del"
         /\ pc = "python" /\ Top.fn = "del" /\ Top.next = "step" =>
              Height > 1 /\ stack[Height - 1].fn = "release"
<1>1. stack \in Seq(GoodFrame) /\ Height = Len(stack) /\ Height \in Nat
  BY DEF ShapeInv, TypeInv, Height
<1>2. Height > 0 => Settled(Below)
  <2> SUFFICES ASSUME Height > 0, NEW l \in DOMAIN Below PROVE Below[l].fn \notin Transient
    BY DEF Settled
  <2>1. l \in 1 .. Height - 1 /\ Below[l] = stack[l] /\ l \in DOMAIN stack /\ l # Len(stack)
    BY <1>1, StackMoves DEF ShapeInv
  <2> QED BY <2>1 DEF ShapeInv, Shape
<1>3. pc \notin {"python", "rollback"} => Settled(stack)
  BY DEF ShapeInv, Shape, Settled
<1> QED BY <1>1, <1>2, <1>3 DEF ShapeInv, Shape, Top, Height

LEMMA DecrefShape ==
  ASSUME NEW s \in Seq(GoodFrame), Settled(s), NEW drop, NEW next \in {"ret", "step"},
         next = "step" => Len(s) > 0 /\ s[Len(s)].fn = "release",
         Decref(drop, s, next)
  PROVE  \A o \in BOOLEAN : Shape(pc', stack', o)
<1> DEFINE f == [Call("del", Root) EXCEPT !.next = next]
<1>1. f \in GoodFrame /\ f.fn = "del" /\ f.next = next
  <2>1. Call("del", Root) \in Frame /\ Call("del", Root).fn = "del"
    BY CallFrame, EncoderAssumption DEF Fns
  <2>2. f \in Frame /\ f.fn = "del" /\ f.next = next
    BY <2>1 DEF Frame
  <2> HIDE DEF f
  <2> QED BY <2>2 DEF GoodFrame, FrameOK
<1>2. \/ pc' = next /\ stack' = s
      \/ pc' = "python" /\ stack' = Append(s, f)
  BY DEF Decref
<1> HIDE DEF f
<1>3. \A o \in BOOLEAN : Shape("python", Append(s, f), o)
  BY <1>1, ShapeMoves
<1>4. \A o \in BOOLEAN : Shape(next, s, o)
  BY ShapeMoves DEF Containers
<1> QED BY <1>2, <1>3, <1>4

LEMMA InvokeDefaultShape ==
  ASSUME NEW s \in Seq(GoodFrame), Settled(s), NEW o \in Obj, ok = TRUE, InvokeDefault(o, s)
  PROVE  Shape(pc', stack', ok')
<1>1. Call("default", o) \in GoodFrame /\ Call("default", o).fn = "default"
  BY CallGood, CallFrame DEF Fns
<1>2. Shape("python", Append(s, Call("default", o)), TRUE)
  BY <1>1, ShapeMoves DEF Transient
<1>3. Shape("ret", s, FALSE)
  BY ShapeMoves
<1> QED BY <1>2, <1>3 DEF InvokeDefault, Return

LEMMA VisitShape ==
  ASSUME NEW s \in Seq(GoodFrame), Settled(s), NEW x \in Obj, NEW h, Visit(x, h, s)
  PROVE  Shape(pc', stack', TRUE)
<1>1. Call("hold", x) \in GoodFrame /\ Call("hold", x).fn = "hold"
  BY CallGood, CallFrame DEF Fns
<1>2. Settled(Append(s, Call("hold", x))) /\ Append(s, Call("hold", x)) \in Seq(GoodFrame)
  BY <1>1, ShapeMoves, Pushed DEF Transient
<1>3. Shape("call", s, TRUE) /\ Shape("call", Append(s, Call("hold", x)), TRUE)
  BY <1>2, ShapeMoves
<1> QED BY <1>3 DEF Visit

LEMMA ShapeSerialize ==
  ASSUME ShapeInv, Serialize
  PROVE  Shape(pc', stack', ok')
<1>1. pc \in {"call", "rollback"}
  BY DEF Serialize, WriteScalar, RejectScalar, WriteHugeInt, EnterTooDeep, WriteEmpty, Open,
         OpenSorted, Opening, WriteDate, CallUtcoffset, LateDatetime, LateDatetimeFails,
         NumpyHit, NumpyProbe, CallDefault, PastDatetime, Rollback
<1>2. /\ ok = TRUE /\ arg \in Obj /\ stack \in Seq(GoodFrame)
      /\ pc = "call" => Settled(stack)
  BY <1>1, ShapeFacts DEF ShapeInv, TypeInv
<1>3. CASE pc = "call" /\ pc' = "ret" /\ stack' = stack /\ ok' \in BOOLEAN
  BY <1>2, <1>3, ShapeMoves
<1>4. CASE WriteHugeInt \/ CallUtcoffset \/ NumpyProbe
  <2>1. \A g \in {"digits", "utcoffset", "probe"} :
          Call(g, arg) \in GoodFrame /\ Call(g, arg).fn = g /\ g \in Transient
    BY <1>2, CallGood, CallFrame DEF Fns, Transient
  <2>2. /\ pc = "call" /\ pc' = "python" /\ ok' = ok
        /\ \E g \in {"digits", "utcoffset", "probe"} : stack' = Append(stack, Call(g, arg))
    BY <1>4 DEF WriteHugeInt, CallUtcoffset, NumpyProbe, PastDatetime
  <2> QED BY <1>2, <2>1, <2>2, ShapeMoves
<1>5. CASE NumpyHit
  <2> DEFINE f == [Call("array", arg) EXCEPT !.pos = Len(out)]
  <2>1. f \in Frame /\ f.fn = "array"
    <3>1. Call("array", arg) \in Frame /\ Call("array", arg).fn = "array"
      BY <1>2, CallFrame DEF Fns
    <3>2. Len(out) \in Nat
      BY DEF ShapeInv, TypeInv
    <3> QED BY <3>1, <3>2, FrameUpdates
  <2>2. pc = "call" /\ pc' = "python" /\ ok' = ok /\ stack' = Append(stack, f)
    BY <1>5 DEF NumpyHit, PastDatetime
  <2> HIDE DEF f
  <2>3. f \in GoodFrame
    BY <2>1 DEF GoodFrame, FrameOK
  <2> QED BY <1>2, <2>1, <2>2, <2>3, ShapeMoves DEF Transient
<1>6. CASE Open \/ OpenSorted
  <2>1. stack' \in Seq(GoodFrame)
    BY <1>6, TypeSerialize DEF Serialize, ShapeInv, TypeInv
  <2>2. \E f : /\ stack' = Append(stack, f)
               /\ f.fn \in Containers
               /\ ok' \/ f.fn = "release"
               /\ ok' \in BOOLEAN
    <3>1. CASE Open
      <4>1. \A g \in {"dict", "list", "tuple"} : Call(g, arg).fn = g
        BY DEF Call
      <4> QED BY <1>2, <3>1, <4>1 DEF Open, Containers
    <3>2. CASE OpenSorted
      <4> DEFINE es == items[arg]
                 g(f) == [Call("sorted", arg) EXCEPT !.snap = es, !.order = f]
                 h == [Call("release", arg) EXCEPT !.snap = es]
      <4>1. \/ \E f \in Sorted(es) : stack' = Append(stack, g(f)) /\ UNCHANGED ok
            \/ stack' = Append(stack, h) /\ ok' = FALSE
        BY <3>2 DEF OpenSorted
      <4>2. h.fn = "release" /\ \A f : g(f).fn = "sorted"
        BY DEF Call
      <4> HIDE DEF g, h, es
      <4> QED BY <1>2, <4>1, <4>2 DEF Containers
    <3> QED BY <1>6, <3>1, <3>2
  <2>3. PICK f : /\ stack' = Append(stack, f) /\ f.fn \in Containers
                 /\ ok' \/ f.fn = "release"
                 /\ ok' \in BOOLEAN
    BY <2>2
  <2>4. Len(stack') = Len(stack) + 1 /\ stack'[Len(stack')] = f /\ Len(stack) \in Nat
        /\ DOMAIN stack' = 1 .. Len(stack) + 1
        /\ \A l \in 1 .. Len(stack) : stack'[l] = stack[l]
    BY <1>2, <2>3
  <2>5. Settled(stack) /\ pc' = "step"
    BY <1>2, <1>6 DEF Open, OpenSorted, Opening
  <2>6. Settled(stack')
    BY <1>2, <2>3, <2>4, <2>5 DEF Settled, Containers, Transient
  <2>7. Len(stack') > 0 /\ stack'[Len(stack')].fn \in Containers
        /\ (ok' \/ stack'[Len(stack')].fn = "release")
    BY <2>3, <2>4
  <2>8. Shape("step", stack', ok')
    BY <2>1, <2>3, <2>6, <2>7, ShapeMoves
  <2> QED BY <2>5, <2>8
<1>7. CASE LateDatetime
  BY <1>2, <1>7 DEF LateDatetime, ShapeInv
<1>8. CASE CallDefault
  BY <1>2, <1>8, InvokeDefaultShape DEF CallDefault, PastDatetime
<1>9. CASE Rollback
  <2>1. Height > 0 /\ Settled(Below) /\ Top.obj \in Obj /\ Below \in Seq(GoodFrame)
    BY <1>9, ShapeFacts, StackFacts DEF Rollback, ShapeInv, Frame
  <2> QED BY <1>2, <1>9, <2>1, InvokeDefaultShape DEF Rollback
<1> QED BY <1>3, <1>4, <1>5, <1>6, <1>7, <1>8, <1>9
       DEF Serialize, WriteScalar, RejectScalar, EnterTooDeep, WriteEmpty, WriteDate,
           LateDatetimeFails, Return

LEMMA ShapeLoop ==
  ASSUME ShapeInv, Loop
  PROVE  Shape(pc', stack', ok')
<1>1. pc = "step"
  BY DEF Loop, NextItem, CloseList, NextPair, BadKey, CloseDict, NextSorted, EndSorted,
         SkipHole, ReleaseStep, EndRelease
<1>2. /\ Height > 0 /\ Settled(Below) /\ Below \in Seq(GoodFrame)
      /\ Top \in GoodFrame /\ Top \in Frame /\ Top.obj \in Obj
      /\ Top.pos \in Nat /\ Top.pos + 1 \in Nat
      /\ Top.fn \in Containers /\ (ok \/ Top.fn = "release")
      /\ ok \in BOOLEAN /\ Settled(stack)
  <2>1. TypeInv /\ ok \in BOOLEAN
    BY DEF ShapeInv, TypeInv
  <2>2. /\ Height > 0 /\ Settled(Below) /\ Settled(stack)
        /\ Top.fn \in Containers /\ (ok \/ Top.fn = "release")
    BY <1>1, ShapeFacts
  <2>3. Top \in Frame /\ FrameOK(Top) /\ Below \in Seq(GoodFrame)
    BY <2>1, <2>2, StackFacts
  <2>4. Top.obj \in Obj /\ Top.pos \in Nat
    BY <2>3 DEF Frame
  <2> QED BY <2>1, <2>2, <2>3, <2>4 DEF GoodFrame
<1>3. ASSUME NEW f \in GoodFrame, f.fn \in Containers
      PROVE  /\ SetTop(f) \in Seq(GoodFrame) /\ Settled(SetTop(f)) /\ Len(SetTop(f)) > 0
             /\ SetTop(f)[Len(SetTop(f))] = f
  <2>1. SetTop(f) = Append(Below, f)
    BY <1>2, StackMoves DEF ShapeInv
  <2>2. Settled(Append(Below, f))
    BY <1>2, <1>3, ShapeMoves DEF Containers, Transient
  <2>3. Len(Append(Below, f)) > 0 /\ Append(Below, f)[Len(Append(Below, f))] = f
        /\ Append(Below, f) \in Seq(GoodFrame)
    BY <1>2, Pushed
  <2> QED BY <2>1, <2>2, <2>3
<1>4. [Top EXCEPT !.pos = Top.pos + 1] \in GoodFrame
      /\ [Top EXCEPT !.pos = Top.pos + 1].fn = Top.fn
  BY <1>2, FrameMoves DEF Frame
<1>5. CASE pc' = "ret" /\ stack' = Below /\ ok' \in BOOLEAN
  BY <1>2, <1>5, ShapeMoves
<1>6. CASE NextItem
  <2> DEFINE x == items[Top.obj][Top.pos + 1][1]
             s == SetTop([Top EXCEPT !.pos = Top.pos + 1])
  <2>1. Top.fn \in {"list", "tuple"} /\ Top.pos < Len(items[Top.obj])
        /\ Visit(x, Top.fn = "list" /\ Guarded(x), s) /\ ok' = ok
    BY <1>6 DEF NextItem, Running
  <2>2. x \in Obj
    <3>1. Kind[Top.obj] \in {"list", "tuple"}
      BY <1>2, <2>1, StackFacts DEF FrameOK, ShapeInv
    <3>2. Top.pos + 1 \in DOMAIN items[Top.obj]
      BY <1>2, <2>1, EntryTypes DEF ShapeInv, TypeInv
    <3> QED BY <1>2, <3>1, <3>2, EntryTypes DEF ShapeInv, TypeInv
  <2>3. s \in Seq(GoodFrame) /\ Settled(s)
    BY <1>2, <1>3, <1>4
  <2>4. ok' = TRUE
    BY <1>2, <2>1
  <2> HIDE DEF x, s
  <2> QED BY <2>1, <2>2, <2>3, <2>4, VisitShape
<1>7. CASE NextPair
  <2> DEFINE k(i) == items[Top.obj][i][1]
             v(i) == items[Top.obj][i][2]
             s(i) == SetTop([Top EXCEPT !.pos = i, !.first = FALSE])
  <2>1. PICK i \in NextEntry(Top.obj, Top.pos) :
          \/ stack' = s(i) \o <<Call("hold", k(i)), Call("hold", v(i))>>
          \/ stack' = s(i)
    BY <1>7 DEF NextPair
  <2>2. pc' = "call" /\ ok' = ok /\ Top.fn = "dict"
    BY <1>7 DEF NextPair, Running
  <2>3. Kind[Top.obj] = "dict"
    BY <1>2, <2>2, StackFacts DEF FrameOK, ShapeInv
  <2>4. i \in Filled(items[Top.obj]) /\ i \in Nat
    BY <1>2, EntryTypes DEF NextEntry, Filled, ShapeInv, TypeInv
  <2>5. k(i) \in Obj /\ v(i) \in Obj
    BY <1>2, <2>3, <2>4, EntryTypes DEF ShapeInv, TypeInv
  <2>6. s(i) \in Seq(GoodFrame) /\ Settled(s(i))
    <3>1. [Top EXCEPT !.pos = i, !.first = FALSE] \in GoodFrame
      BY <1>2, <2>4, FrameMoves
    <3>2. [Top EXCEPT !.pos = i, !.first = FALSE].fn = Top.fn
      BY <1>2 DEF Frame
    <3> QED BY <1>2, <1>3, <3>1, <3>2
  <2> HIDE DEF k, v, s
  <2> DEFINE a == Call("hold", k(i))
             b == Call("hold", v(i))
  <2>7. a \in GoodFrame /\ b \in GoodFrame /\ a.fn = "hold" /\ b.fn = "hold"
    BY <2>5, CallGood, CallFrame DEF Fns
  <2> HIDE DEF a, b
  <2>8. s(i) \o <<a, b>> = Append(Append(s(i), a), b)
    BY <2>6, <2>7
  <2>9. Append(s(i), a) \in Seq(GoodFrame) /\ Settled(Append(s(i), a))
    BY <2>6, <2>7, ShapeMoves, Pushed DEF Transient
  <2>10. Append(Append(s(i), a), b) \in Seq(GoodFrame) /\ Settled(Append(Append(s(i), a), b))
    BY <2>7, <2>9, ShapeMoves, Pushed DEF Transient
  <2>11. Shape("call", s(i), TRUE) /\ Shape("call", Append(Append(s(i), a), b), TRUE)
    BY <2>6, <2>10, ShapeMoves
  <2> QED BY <1>2, <2>1, <2>2, <2>8, <2>11 DEF a, b
<1>8. CASE NextSorted
  <2> DEFINE e == Top.snap[Top.order[Top.pos + 1]]
             s == SetTop([Top EXCEPT !.pos = Top.pos + 1])
  <2>1. Top.pos < Len(Top.order) /\ Top.fn = "sorted" /\ Visit(e[2], FALSE, s) /\ ok' = ok
    BY <1>8 DEF NextSorted, Running
  <2>2. e[2] \in Obj
    <3>1. Top.order \in Seq(Nat)
      BY <1>2 DEF Frame
    <3>2. Top.pos + 1 \in DOMAIN Top.order
      BY <1>2, <2>1, <3>1
    <3>3. Top.order[Top.pos + 1] \in Filled(Top.snap)
      BY <1>2, <2>1, <3>2, StackFacts DEF FrameOK, ShapeInv
    <3> QED BY <1>2, <3>3, SnapTypes
  <2>3. s \in Seq(GoodFrame) /\ Settled(s)
    BY <1>2, <1>3, <1>4
  <2>4. ok' = TRUE
    BY <1>2, <2>1
  <2> HIDE DEF e, s
  <2> QED BY <2>1, <2>2, <2>3, <2>4, VisitShape
<1>9. CASE EndSorted
  <2>1. Top.fn = "sorted" /\ stack' = SetTop(Releasing(Top)) /\ pc' = "step" /\ ok' = TRUE
    BY <1>1, <1>9 DEF EndSorted, Running
  <2>2. Releasing(Top) \in GoodFrame /\ Releasing(Top).fn = "release"
    BY <1>2, <2>1, FrameMoves DEF Releasing, Frame
  <2> QED BY <1>3, <2>1, <2>2, ShapeMoves DEF Containers
<1>10. CASE SkipHole
  <2>1. Top.fn = "release" /\ stack' = SetTop([Top EXCEPT !.pos = Top.pos + 1])
        /\ pc' = "step" /\ ok' = ok
    BY <1>1, <1>10 DEF SkipHole, Running
  <2> QED BY <1>2, <1>3, <1>4, <2>1, ShapeMoves DEF Containers
<1>11. CASE ReleaseStep
  <2> DEFINE f == IF Top.first THEN [Top EXCEPT !.first = FALSE]
                               ELSE [Top EXCEPT !.first = TRUE, !.pos = Top.pos + 1]
             d == {<<Height, Top.pos + 1, IF Top.first THEN 2 ELSE 1,
                     Top.snap[Top.pos + 1][IF Top.first THEN 2 ELSE 1]>>}
  <2>1. Decref(d, SetTop(f), "step") /\ ok' = ok /\ Top.fn = "release"
    BY <1>11 DEF ReleaseStep, Running
  <2>2. f \in GoodFrame
    BY <1>2, FrameMoves
  <2>3. f.fn = "release"
    BY <1>2, <2>1 DEF Frame
  <2> HIDE DEF f, d
  <2>4. SetTop(f) \in Seq(GoodFrame) /\ Settled(SetTop(f)) /\ Len(SetTop(f)) > 0
        /\ SetTop(f)[Len(SetTop(f))].fn = "release"
    BY <1>3, <2>2, <2>3 DEF Containers
  <2> QED BY <1>2, <2>1, <2>4, DecrefShape
<1> QED BY <1>2, <1>5, <1>6, <1>7, <1>8, <1>9, <1>10, <1>11
       DEF Loop, CloseList, CloseDict, BadKey, EndRelease, Return

LEMMA ShapeReturned ==
  ASSUME ShapeInv, Returned
  PROVE  Shape(pc', stack', ok')
<1>1. pc = "ret"
  BY DEF Returned, ReturnToLoop, ReturnToSorted, ReturnToHold, ReturnToResult, Finish
<1>2. /\ Settled(stack) /\ stack \in Seq(GoodFrame) /\ ok \in BOOLEAN
      /\ Height > 0 => Settled(Below) /\ Below \in Seq(GoodFrame) /\ Top \in GoodFrame
  BY <1>1, ShapeFacts, StackFacts DEF ShapeInv, TypeInv, GoodFrame
<1>3. CASE ReturnToLoop
  <2>1. Height > 0 /\ Top.fn \in {"list", "tuple", "dict"}
    BY <1>3 DEF ReturnToLoop
  <2>2. ok => Shape("step", stack, ok)
    BY <1>2, <2>1, ShapeMoves DEF Height, Top, Containers
  <2>3. Shape("ret", Below, FALSE)
    BY <1>2, <2>1, ShapeMoves
  <2> QED BY <1>3, <2>2, <2>3 DEF ReturnToLoop, Return
<1>4. CASE ReturnToSorted
  <2>1. Height > 0 /\ Top.fn = "sorted" /\ pc' = "step" /\ ok' = ok
        /\ stack' = IF ok THEN stack ELSE SetTop(Releasing(Top))
    BY <1>4 DEF ReturnToSorted, Running
  <2>2. ok => Shape("step", stack, ok)
    BY <1>2, <2>1, ShapeMoves DEF Height, Top, Containers
  <2>3. Releasing(Top) \in GoodFrame /\ Releasing(Top).fn = "release"
    BY <1>2, <2>1, FrameMoves DEF Releasing, Frame, GoodFrame
  <2> DEFINE s == Append(Below, Releasing(Top))
  <2>4. /\ s \in Seq(GoodFrame) /\ Len(s) > 0 /\ s[Len(s)] = Releasing(Top) /\ Settled(s)
    <3> DEFINE r == Releasing(Top)
    <3>1. r \in GoodFrame /\ r.fn = "release" /\ Below \in Seq(GoodFrame) /\ Settled(Below)
      BY <1>2, <2>1, <2>3
    <3> HIDE DEF r
    <3>2. /\ Append(Below, r) \in Seq(GoodFrame) /\ Len(Append(Below, r)) = Len(Below) + 1
          /\ Append(Below, r)[Len(Below) + 1] = r
      BY <3>1, Pushed
    <3>3. r.fn \notin Transient
      BY <3>1 DEF Transient
    <3>4. Settled(Append(Below, r))
      BY <3>1, <3>3, ShapeMoves
    <3>5. Len(Below) \in Nat
      BY <3>1
    <3> QED BY <3>2, <3>4, <3>5 DEF r
  <2>5. SetTop(Releasing(Top)) = s
    BY <2>1, <2>3, StackMoves DEF ShapeInv
  <2> HIDE DEF s
  <2>6. Shape("step", s, ok)
    BY <1>2, <2>3, <2>4, ShapeMoves DEF Containers
  <2> QED BY <2>1, <2>2, <2>5, <2>6
<1>5. CASE ReturnToHold \/ ReturnToResult
  <2>1. Height > 0 /\ Decref({<<Height, 0, 0, Top.obj>>}, Below, "ret") /\ ok' = ok
    BY <1>5 DEF ReturnToHold, ReturnToResult, Running
  <2> QED BY <1>2, <2>1, DecrefShape
<1>6. CASE Finish
  BY <1>2, <1>6, ShapeMoves DEF Finish
<1> QED BY <1>3, <1>4, <1>5, <1>6 DEF Returned

LEMMA ShapePython ==
  ASSUME ShapeInv, Python
  PROVE  Shape(pc', stack', ok')
<1>1. pc = "python"
  BY DEF Python, PyClear, PyDelete, PyAppend, PyRebuild, PyImport, PyRaise, DefaultReturns,
         TextReturns, OffsetInvalid, ArrayWritten, ArrayDeclined, ProbeReturns, FinalizerReturns
<1>2. /\ Height > 0 /\ Settled(Below) /\ Below \in Seq(GoodFrame) /\ Len(Below) = Height - 1
      /\ Top \in GoodFrame /\ Top \in Frame /\ Top.obj \in Obj /\ Top.fn \in Transient
      /\ ok \/ Top.fn = "del"
      /\ ok \in BOOLEAN /\ stack \in Seq(GoodFrame) /\ Height \in Nat
  BY <1>1, ShapeFacts, StackFacts DEF ShapeInv, TypeInv, Frame, GoodFrame
<1>3. CASE UNCHANGED <<stack, pc, ok>>
  BY <1>3 DEF ShapeInv
<1>4. CASE pc' = "ret" /\ stack' = Below /\ ok' \in BOOLEAN
  BY <1>2, <1>4, ShapeMoves
<1>5. CASE DefaultReturns
  <2>1. PICK r \in PyValues : stack' = Append(Below, Call("result", r))
    BY <1>5 DEF DefaultReturns
  <2>2. r \in Obj
    BY AliveType DEF ShapeInv
  <2>3. Call("result", r) \in GoodFrame /\ Call("result", r).fn = "result"
    BY <2>2, CallGood, CallFrame DEF Fns
  <2>4. stack' \in Seq(GoodFrame) /\ Settled(stack')
    BY <1>2, <2>1, <2>3, Pushed, ShapeMoves DEF Transient
  <2>5. pc' = "call" /\ ok' = ok /\ Top.fn = "default"
    BY <1>5 DEF DefaultReturns, Running
  <2>6. ok' = TRUE
    BY <1>2, <2>5
  <2> QED BY <2>4, <2>5, <2>6, ShapeMoves
<1>6. ASSUME NEW f \in GoodFrame, f.fn \in Transient \ {"del"}, stack' = SetTop(f), pc' = pc,
             ok' = ok, Top.fn # "del"
      PROVE  Shape(pc', stack', ok')
  <2>1. SetTop(f) = Append(Below, f)
    BY <1>2, <1>6, StackMoves DEF ShapeInv
  <2> QED BY <1>1, <1>2, <1>6, <2>1, ShapeMoves
<1>7. CASE OffsetInvalid
  <2> DEFINE f == [Top EXCEPT !.pos = 1]
  <2>1. f \in GoodFrame /\ f.fn = Top.fn
    BY <1>2, FrameMoves DEF Frame
  <2>2. Top.fn = "utcoffset" /\ stack' = SetTop(f) /\ pc' = pc /\ ok' = ok
    BY <1>7 DEF OffsetInvalid, Running
  <2> HIDE DEF f
  <2> QED BY <1>6, <2>1, <2>2 DEF Transient
<1>8. CASE ArrayDeclined
  <2>1. Top.fn = "array" /\ stack' = stack /\ ok' = ok /\ pc' = "rollback"
    BY <1>8 DEF ArrayDeclined, Running
  <2>2. Top = stack[Len(stack)] /\ Len(stack) > 0
    BY <1>2 DEF Top, Height
  <2> QED BY <1>1, <1>2, <2>1, <2>2 DEF Shape, ShapeInv
<1>9. CASE ProbeReturns
  <2>1. Top.fn = "probe" /\ ok = TRUE
    BY <1>2, <1>9 DEF ProbeReturns, Running
  <2>2. CASE InvokeDefault(Top.obj, Below)
    BY <1>2, <2>1, <2>2, InvokeDefaultShape
  <2>3. CASE /\ stack' = SetTop([Call("array", Top.obj) EXCEPT !.pos = Len(out)])
             /\ UNCHANGED <<pc, ok>>
    <3> DEFINE f == [Call("array", Top.obj) EXCEPT !.pos = Len(out)]
    <3>1. f \in Frame /\ f.fn = "array"
      <4>1. Call("array", Top.obj) \in Frame /\ Call("array", Top.obj).fn = "array"
        BY <1>2, CallFrame DEF Fns
      <4>2. Len(out) \in Nat
        BY DEF ShapeInv, TypeInv
      <4> QED BY <4>1, <4>2, FrameUpdates
    <3>2. stack' = SetTop(f) /\ pc' = pc /\ ok' = ok
      BY <2>3
    <3> HIDE DEF f
    <3>3. f \in GoodFrame
      BY <3>1 DEF GoodFrame, FrameOK
    <3> QED BY <1>6, <2>1, <3>1, <3>2, <3>3 DEF Transient
  <2> QED BY <1>9, <2>2, <2>3 DEF ProbeReturns
<1>10. CASE FinalizerReturns
  <2>1. Top.fn = "del" /\ stack' = Below /\ pc' = Top.next /\ ok' = ok
    BY <1>10 DEF FinalizerReturns, Running
  <2>2. CASE Top.next = "ret"
    BY <1>2, <2>1, <2>2, ShapeMoves
  <2>3. CASE Top.next = "step"
    <3>1. Height > 1 /\ stack[Height - 1].fn = "release"
      BY <1>1, <2>1, <2>3, ShapeFacts
    <3>2. Below[Len(Below)].fn = "release" /\ Len(Below) > 0
      BY <1>2, <3>1, StackMoves DEF ShapeInv
    <3> QED BY <1>2, <2>1, <2>3, <3>2, ShapeMoves DEF Containers
  <2> QED BY <1>2, <2>2, <2>3 DEF Frame
<1>11. CASE PyClear \/ PyDelete \/ PyAppend \/ PyRebuild \/ PyImport
  BY <1>3, <1>11 DEF PyClear, PyDelete, PyAppend, PyRebuild, PyImport, PyChange, rustVars
<1> QED BY <1>4, <1>5, <1>7, <1>8, <1>9, <1>10, <1>11
       DEF Python, PyRaise, TextReturns, ArrayWritten, Return

LEMMA ShapeStep ==
  ASSUME ShapeInv, [Next]_vars
  PROVE  ShapeInv'
<1>1. TypeInv'
  BY TypeStep DEF ShapeInv
<1>2. CASE UNCHANGED vars \/ Terminated
  BY <1>2, <1>1 DEF Terminated, vars, ShapeInv
<1>3. CASE Serialize \/ Loop \/ Returned \/ Python
  BY <1>1, <1>3, ShapeSerialize, ShapeLoop, ShapeReturned, ShapePython DEF ShapeInv
<1> QED BY <1>2, <1>3 DEF Next

LEMMA Shapes == Spec => []ShapeInv
<1>1. Init => ShapeInv
  <2> SUFFICES ASSUME Init PROVE ShapeInv
    OBVIOUS
  <2>1. Settled(stack) /\ stack \in Seq(GoodFrame) /\ pc = "call" /\ ok = TRUE
    BY DEF Init, Settled
  <2> QED BY <2>1, TypeInit, ShapeMoves DEF ShapeInv
<1>2. ShapeInv /\ [Next]_vars => ShapeInv'
  BY ShapeStep
<1> QED BY <1>1, <1>2, PTL DEF Spec

(* A failure stays, and what was written stays as it is.                   *)
LEMMA FailedStep ==
  ASSUME ShapeInv, Next, ~ok
  PROVE  ~ok' /\ out' = out
<1>1. /\ pc \notin {"call", "rollback"}
      /\ pc = "step" => Running("release")
      /\ pc = "python" => Running("del")
  BY ShapeFacts DEF Running
<1>2. CASE Serialize
  BY <1>1, <1>2 DEF Serialize, WriteScalar, RejectScalar, WriteHugeInt, EnterTooDeep,
       WriteEmpty, Open, OpenSorted, Opening, WriteDate, CallUtcoffset, LateDatetime,
       LateDatetimeFails, NumpyHit, NumpyProbe, CallDefault, PastDatetime, Rollback
<1>3. CASE Loop
  <2>1. ~(NextItem \/ CloseList \/ NextPair \/ BadKey \/ CloseDict)
    BY <1>1 DEF NextItem, CloseList, NextPair, BadKey, CloseDict, Running
  <2>2. ~(NextSorted \/ EndSorted)
    BY <1>1 DEF NextSorted, EndSorted, Running
  <2>3. CASE SkipHole \/ ReleaseStep
    BY <2>3 DEF SkipHole, ReleaseStep
  <2>4. CASE EndRelease
    BY <2>4 DEF EndRelease, Return
  <2> QED BY <1>3, <2>1, <2>2, <2>3, <2>4 DEF Loop
<1>4. CASE Returned
  BY <1>4 DEF Returned, ReturnToLoop, ReturnToSorted, ReturnToHold, ReturnToResult, Finish,
       Return
<1>5. CASE Python
  <2>1. ~(PyRaise \/ DefaultReturns \/ TextReturns \/ OffsetInvalid)
    BY <1>1 DEF PyRaise, DefaultReturns, TextReturns, OffsetInvalid, Running
  <2>2. ~(ArrayWritten \/ ArrayDeclined \/ ProbeReturns)
    BY <1>1 DEF ArrayWritten, ArrayDeclined, ProbeReturns, Running
  <2>3. CASE PyClear \/ PyDelete \/ PyAppend \/ PyRebuild
    <3>1. \E o, es : PyChange(o, es)
      BY <2>3 DEF PyClear, PyDelete, PyAppend, PyRebuild
    <3> QED BY <3>1 DEF PyChange, rustVars
  <2>4. CASE PyImport
    BY <2>4 DEF PyImport, rustVars
  <2>5. CASE FinalizerReturns
    BY <2>5 DEF FinalizerReturns
  <2> QED BY <1>5, <2>1, <2>2, <2>3, <2>4, <2>5 DEF Python
<1>6. CASE Terminated
  BY <1>6 DEF Terminated, vars
<1> QED BY <1>2, <1>3, <1>4, <1>5, <1>6 DEF Next

(* Once a call has failed nothing resumes writing: from any state the walk *)
(* can reach, ok stays FALSE and the text is left alone (FR-13's every     *)
(* error path: guarded, dict_in_order, dict_sorted, datetime, dumps).      *)
THEOREM FailureStays == Spec => FailureIsFinal
<1>1. ShapeInv /\ [Next]_vars => [~ok => ~ok' /\ out' = out]_vars
  BY FailedStep DEF vars
<1> QED BY <1>1, Shapes, PTL DEF Spec, FailureIsFinal

-----------------------------------------------------------------------------
(* Counting frames.                                                        *)

CountOf(s, F) == Cardinality({l \in DOMAIN s : s[l].fn \in F})
Weight(f, F) == IF f.fn \in F THEN 1 ELSE 0

LEMMA CountPushed ==
  ASSUME NEW s \in Seq(GoodFrame), NEW f \in GoodFrame, NEW F
  PROVE  CountOf(s, F) \in Nat /\ CountOf(Append(s, f), F) = CountOf(s, F) + Weight(f, F)
<1> DEFINE A(t) == {l \in DOMAIN t : t[l].fn \in F}
           t == Append(s, f)
<1>1. DOMAIN s = 1 .. Len(s) /\ Len(s) \in Nat
  OBVIOUS
<1>2. IsFiniteSet(A(s)) /\ Cardinality(A(s)) \in Nat
  <2>1. IsFiniteSet(1 .. Len(s)) /\ A(s) \subseteq 1 .. Len(s)
    BY <1>1, FS_Interval
  <2>2. IsFiniteSet(A(s))
    BY <2>1, FS_Subset
  <2> QED BY <2>2, FS_CardinalityType
<1>3. /\ t \in Seq(GoodFrame) /\ Len(t) = Len(s) + 1 /\ DOMAIN t = 1 .. Len(s) + 1
      /\ \A l \in 1 .. Len(s) : t[l] = s[l]
      /\ t[Len(s) + 1] = f
  BY Pushed
<1> HIDE DEF t
<1>4. CASE f.fn \in F
  <2>1. A(t) = A(s) \cup {Len(s) + 1} /\ Len(s) + 1 \notin A(s)
    BY <1>1, <1>3, <1>4
  <2>2. Cardinality(A(t)) = Cardinality(A(s)) + 1
    BY <1>2, <2>1, FS_AddElement
  <2> QED BY <1>2, <1>4, <2>2 DEF CountOf, Weight, t
<1>5. CASE f.fn \notin F
  <2>1. A(t) = A(s)
    BY <1>1, <1>3, <1>5
  <2>2. Weight(f, F) = 0
    BY <1>5 DEF Weight
  <2>3. CountOf(s, F) = Cardinality(A(s)) /\ CountOf(t, F) = Cardinality(A(t))
    BY DEF CountOf
  <2>4. CountOf(t, F) = CountOf(s, F)
    BY <2>1, <2>3
  <2>5. CountOf(s, F) \in Nat
    BY <1>2, <2>3
  <2> QED BY <2>2, <2>4, <2>5 DEF t
<1> QED BY <1>4, <1>5

LEMMA Counts ==
  ASSUME TypeInv, NEW F
  PROVE  /\ CountOf(stack, F) \in Nat
         /\ \A f \in GoodFrame : CountOf(Append(stack, f), F) = CountOf(stack, F) + Weight(f, F)
         /\ Height > 0 =>
              /\ CountOf(Below, F) \in Nat
              /\ CountOf(stack, F) = CountOf(Below, F) + Weight(Top, F)
              /\ \A f \in GoodFrame :
                   /\ SetTop(f) = Append(Below, f)
                   /\ CountOf(Append(Below, f), F) = CountOf(Below, F) + Weight(f, F)
<1>1. stack \in Seq(GoodFrame)
  BY DEF TypeInv
<1>2. Height > 0 => Below \in Seq(GoodFrame) /\ Top \in GoodFrame
  BY StackFacts DEF GoodFrame
<1>3. Root \in Obj /\ Call("hold", Root) \in GoodFrame
  BY EncoderAssumption, CallGood DEF Fns
<1>4. /\ CountOf(stack, F) \in Nat
      /\ \A f \in GoodFrame : CountOf(Append(stack, f), F) = CountOf(stack, F) + Weight(f, F)
  BY <1>1, <1>3, CountPushed
<1>5. ASSUME Height > 0
      PROVE  /\ CountOf(Below, F) \in Nat
             /\ CountOf(stack, F) = CountOf(Below, F) + Weight(Top, F)
             /\ \A f \in GoodFrame :
                  /\ SetTop(f) = Append(Below, f)
                  /\ CountOf(Append(Below, f), F) = CountOf(Below, F) + Weight(f, F)
  <2>1. stack = Append(Below, Top) /\ \A f \in GoodFrame : SetTop(f) = Append(Below, f)
    BY <1>5, StackMoves
  <2>2. Below \in Seq(GoodFrame) /\ Top \in GoodFrame
    BY <1>2, <1>5
  <2>3. \A f \in GoodFrame : /\ CountOf(Below, F) \in Nat
                             /\ CountOf(Append(Below, f), F) = CountOf(Below, F) + Weight(f, F)
    BY <2>2, CountPushed
  <2>4. CountOf(Append(Below, Top), F) = CountOf(Below, F) + Weight(Top, F)
        /\ CountOf(Below, F) \in Nat
    BY <2>2, <2>3
  <2>5. CountOf(stack, F) = CountOf(Below, F) + Weight(Top, F)
    BY <2>1, <2>4
  <2> QED BY <2>1, <2>3, <2>4, <2>5
<1> QED BY <1>4, <1>5

Conts(s) == CountOf(s, Containers)
Results(s) == CountOf(s, {"result"})
Neutral(f) == f.fn \notin Containers \cup {"result"}

LEMMA StackCounts ==
  ASSUME TypeInv
  PROVE  /\ Conts(stack) \in Nat /\ Results(stack) \in Nat
         /\ \A f \in GoodFrame :
              /\ Neutral(f) => /\ Conts(Append(stack, f)) = Conts(stack)
                               /\ Results(Append(stack, f)) = Results(stack)
              /\ f.fn \in Containers => /\ Conts(Append(stack, f)) = Conts(stack) + 1
                                        /\ Results(Append(stack, f)) = Results(stack)
         /\ Height > 0 =>
              /\ Conts(Below) \in Nat /\ Results(Below) \in Nat
              /\ Neutral(Top) => Conts(Below) = Conts(stack) /\ Results(Below) = Results(stack)
              /\ Top.fn \in Containers =>
                   Conts(Below) + 1 = Conts(stack) /\ Results(Below) = Results(stack)
              /\ Top.fn = "result" =>
                   Conts(Below) = Conts(stack) /\ Results(Below) + 1 = Results(stack)
              /\ \A f \in GoodFrame :
                   /\ SetTop(f) = Append(Below, f)
                   /\ Neutral(f) => /\ Conts(Append(Below, f)) = Conts(Below)
                                    /\ Results(Append(Below, f)) = Results(Below)
                   /\ f.fn \in Containers => /\ Conts(Append(Below, f)) = Conts(Below) + 1
                                             /\ Results(Append(Below, f)) = Results(Below)
                   /\ f.fn = "result" => /\ Conts(Append(Below, f)) = Conts(Below)
                                         /\ Results(Append(Below, f)) = Results(Below) + 1
<1>2. Conts(stack) \in Nat /\ Results(stack) \in Nat
  BY Counts DEF Conts, Results
<1>3. \A f \in GoodFrame :
        /\ Conts(Append(stack, f)) = Conts(stack) + Weight(f, Containers)
        /\ Results(Append(stack, f)) = Results(stack) + Weight(f, {"result"})
  BY Counts DEF Conts, Results
<1>4. ASSUME NEW f \in GoodFrame
      PROVE  /\ Neutral(f) => /\ Conts(Append(stack, f)) = Conts(stack)
                              /\ Results(Append(stack, f)) = Results(stack)
             /\ f.fn \in Containers => /\ Conts(Append(stack, f)) = Conts(stack) + 1
                                       /\ Results(Append(stack, f)) = Results(stack)
  <2> DEFINE c == Weight(f, Containers)
             r == Weight(f, {"result"})
  <2>1. /\ Neutral(f) => c = 0 /\ r = 0
        /\ f.fn \in Containers => c = 1 /\ r = 0
    BY DEF Neutral, Weight, Containers
  <2>2. Conts(Append(stack, f)) = Conts(stack) + c /\ Results(Append(stack, f)) = Results(stack) + r
    BY <1>3
  <2> HIDE DEF c, r
  <2> QED BY <2>1, <2>2, <1>2
<1>5. ASSUME Height > 0
      PROVE  /\ Conts(Below) \in Nat /\ Results(Below) \in Nat
             /\ Conts(stack) = Conts(Below) + Weight(Top, Containers)
             /\ Results(stack) = Results(Below) + Weight(Top, {"result"})
             /\ \A f \in GoodFrame : SetTop(f) = Append(Below, f)
             /\ \A f \in GoodFrame :
                  /\ Conts(Append(Below, f)) = Conts(Below) + Weight(f, Containers)
                  /\ Results(Append(Below, f)) = Results(Below) + Weight(f, {"result"})
  BY <1>5, Counts DEF Conts, Results
<1>6. ASSUME Height > 0
      PROVE  /\ Conts(Below) \in Nat /\ Results(Below) \in Nat
             /\ Neutral(Top) => Conts(Below) = Conts(stack) /\ Results(Below) = Results(stack)
             /\ Top.fn \in Containers =>
                  Conts(Below) + 1 = Conts(stack) /\ Results(Below) = Results(stack)
             /\ Top.fn = "result" =>
                  Conts(Below) = Conts(stack) /\ Results(Below) + 1 = Results(stack)
  <2> DEFINE c == Weight(Top, Containers)
             r == Weight(Top, {"result"})
  <2>1. /\ Neutral(Top) => c = 0 /\ r = 0
        /\ Top.fn \in Containers => c = 1 /\ r = 0
        /\ Top.fn = "result" => c = 0 /\ r = 1
    BY DEF Neutral, Weight, Containers
  <2>2. /\ Conts(Below) \in Nat /\ Results(Below) \in Nat
        /\ Conts(stack) = Conts(Below) + c /\ Results(stack) = Results(Below) + r
    BY <1>5, <1>6
  <2> HIDE DEF c, r
  <2> QED BY <2>1, <2>2, <1>2
<1>7. ASSUME Height > 0, NEW f \in GoodFrame
      PROVE  /\ SetTop(f) = Append(Below, f)
             /\ Neutral(f) => /\ Conts(Append(Below, f)) = Conts(Below)
                              /\ Results(Append(Below, f)) = Results(Below)
             /\ f.fn \in Containers => /\ Conts(Append(Below, f)) = Conts(Below) + 1
                                       /\ Results(Append(Below, f)) = Results(Below)
             /\ f.fn = "result" => /\ Conts(Append(Below, f)) = Conts(Below)
                                   /\ Results(Append(Below, f)) = Results(Below) + 1
  <2> DEFINE c == Weight(f, Containers)
             r == Weight(f, {"result"})
  <2>1. /\ Neutral(f) => c = 0 /\ r = 0
        /\ f.fn \in Containers => c = 1 /\ r = 0
        /\ f.fn = "result" => c = 0 /\ r = 1
    BY DEF Neutral, Weight, Containers
  <2>2. /\ Conts(Below) \in Nat /\ Results(Below) \in Nat /\ SetTop(f) = Append(Below, f)
        /\ Conts(Append(Below, f)) = Conts(Below) + c
        /\ Results(Append(Below, f)) = Results(Below) + r
    BY <1>5, <1>7
  <2> HIDE DEF c, r
  <2> QED BY <2>1, <2>2
<1> QED BY <1>2, <1>4, <1>6, <1>7

(* depth is the number of open containers, and default_depth that of open  *)
(* default results; after a failure the frames left behind only make depth *)
(* an overestimate.                                                        *)
DepthOK(p, s, o, e) ==
  /\ e.ddepth = Results(s) /\ e.ddepth <= MaxDefaultDepth
  /\ e.depth >= Conts(s) /\ e.depth <= MaxDepth
  /\ o => e.depth = Conts(s)
  /\ p = "python" /\ s[Len(s)].fn = "default" => e.ddepth < MaxDefaultDepth

DepthInv == ShapeInv /\ DepthOK(pc, stack, ok, enc)

LEMMA DepthKept ==
  ASSUME DepthInv, NEW p, NEW s, NEW o \in BOOLEAN, NEW e,
         e.depth = enc.depth, e.ddepth = enc.ddepth,
         Conts(s) = Conts(stack), Results(s) = Results(stack),
         o => ok, p = "python" => s[Len(s)].fn # "default"
  PROVE  DepthOK(p, s, o, e)
  BY DEF DepthInv, DepthOK

LEMMA DepthDecref ==
  ASSUME DepthInv, NEW drop, NEW s \in Seq(GoodFrame), NEW next \in {"ret", "step"},
         Decref(drop, s, next)
  PROVE  /\ Conts(stack') = Conts(s) /\ Results(stack') = Results(s)
         /\ pc' = "python" => stack'[Len(stack')].fn # "default"
<1> DEFINE f == [Call("del", Root) EXCEPT !.next = next]
<1>1. f \in GoodFrame /\ f.fn = "del"
  <2>1. Call("del", Root) \in Frame /\ Call("del", Root).fn = "del"
    BY CallFrame, EncoderAssumption DEF Fns
  <2>2. f \in Frame /\ f.fn = "del"
    BY <2>1, FrameUpdates
  <2> HIDE DEF f
  <2> QED BY <2>2 DEF GoodFrame, FrameOK
<1>2. \/ pc' = next /\ stack' = s
      \/ pc' = "python" /\ stack' = Append(s, f)
  BY DEF Decref
<1> HIDE DEF f
<1>3. Weight(f, Containers) = 0 /\ Weight(f, {"result"}) = 0
  BY <1>1 DEF Weight, Containers
<1>4. Conts(Append(s, f)) = Conts(s) /\ Results(Append(s, f)) = Results(s)
  <2>1. /\ CountOf(s, Containers) \in Nat /\ CountOf(s, {"result"}) \in Nat
        /\ CountOf(Append(s, f), Containers) = CountOf(s, Containers) + 0
        /\ CountOf(Append(s, f), {"result"}) = CountOf(s, {"result"}) + 0
    BY <1>1, <1>3, CountPushed
  <2> QED BY <2>1 DEF Conts, Results
<1>5. Append(s, f)[Len(Append(s, f))] = f
  BY <1>1, Pushed
<1> QED BY <1>1, <1>2, <1>4, <1>5

LEMMA DepthInvokeDefault ==
  ASSUME DepthInv, NEW s \in Seq(GoodFrame), NEW o \in Obj, ok = TRUE, InvokeDefault(o, s),
         Conts(s) = Conts(stack), Results(s) = Results(stack), enc' = enc
  PROVE  DepthOK(pc', stack', ok', enc')
<1> DEFINE f == Call("default", o)
<1>1. f \in GoodFrame /\ f.fn = "default"
  BY CallGood, CallFrame DEF Fns
<1> HIDE DEF f
<1>2. CASE pc' = "python" /\ ok' = ok /\ stack' = Append(s, f) /\ enc.ddepth < MaxDefaultDepth
  <2>1. Weight(f, Containers) = 0 /\ Weight(f, {"result"}) = 0
    BY <1>1 DEF Weight, Containers
  <2>2. /\ CountOf(s, Containers) \in Nat /\ CountOf(s, {"result"}) \in Nat
        /\ CountOf(stack', Containers) = CountOf(s, Containers) + 0
        /\ CountOf(stack', {"result"}) = CountOf(s, {"result"}) + 0
    BY <1>1, <1>2, <2>1, CountPushed
  <2>3. Conts(stack') = Conts(stack) /\ Results(stack') = Results(stack)
    BY <2>2 DEF Conts, Results
  <2> QED BY <1>2, <2>3 DEF DepthInv, DepthOK
<1>3. CASE pc' = "ret" /\ ok' = FALSE /\ stack' = s
  BY <1>3, DepthKept
<1> QED BY <1>2, <1>3 DEF InvokeDefault, Return, f

LEMMA DepthFacts ==
  ASSUME DepthInv
  PROVE  /\ TypeInv /\ ShapeInv /\ enc \in EncShape
         /\ enc.depth \in Int /\ enc.ddepth \in Int
         /\ Conts(stack) \in Nat /\ Results(stack) \in Nat
         /\ enc.ddepth = Results(stack) /\ enc.ddepth <= MaxDefaultDepth
         /\ enc.depth >= Conts(stack) /\ enc.depth <= MaxDepth
         /\ ok => enc.depth = Conts(stack)
         /\ MaxDepth \in Nat /\ MaxDefaultDepth \in Nat
<1>1. TypeInv /\ ShapeInv /\ enc \in EncShape
  BY DEF DepthInv, ShapeInv, TypeInv
<1> QED BY <1>1, EncUpdates, StackCounts, EncoderAssumption DEF DepthInv, DepthOK

LEMMA DepthSerialize ==
  ASSUME DepthInv, Serialize
  PROVE  DepthOK(pc', stack', ok', enc')
<1>1. pc \in {"call", "rollback"}
  BY DEF Serialize, WriteScalar, RejectScalar, WriteHugeInt, EnterTooDeep, WriteEmpty, Open,
         OpenSorted, Opening, WriteDate, CallUtcoffset, LateDatetime, LateDatetimeFails,
         NumpyHit, NumpyProbe, CallDefault, PastDatetime, Rollback
<1>2. /\ ok = TRUE /\ arg \in Obj /\ stack \in Seq(GoodFrame) /\ TypeInv
      /\ enc \in EncShape
  BY <1>1, ShapeFacts, DepthFacts DEF TypeInv
<1>3. CASE pc' = "ret" /\ stack' = stack /\ ok' \in BOOLEAN /\ enc' = enc
  BY <1>2, <1>3, DepthKept
<1>4. ASSUME NEW f \in GoodFrame, Neutral(f), f.fn # "default", stack' = Append(stack, f),
             ok' = ok, enc'.depth = enc.depth, enc'.ddepth = enc.ddepth
      PROVE  DepthOK(pc', stack', ok', enc')
  <2>1. Conts(stack') = Conts(stack) /\ Results(stack') = Results(stack)
    BY <1>2, <1>4, StackCounts
  <2>2. stack'[Len(stack')] = f
    BY <1>2, <1>4, Pushed
  <2> QED BY <1>2, <1>4, <2>1, <2>2, DepthKept
<1>5. CASE WriteHugeInt \/ CallUtcoffset \/ NumpyProbe
  <2>1. PICK g \in {"digits", "utcoffset", "probe"} :
          stack' = Append(stack, Call(g, arg)) /\ ok' = ok
    BY <1>5 DEF WriteHugeInt, CallUtcoffset, NumpyProbe
  <2>2. Call(g, arg) \in GoodFrame /\ Call(g, arg).fn = g
    BY <1>2, CallGood, CallFrame DEF Fns
  <2>3. enc'.depth = enc.depth /\ enc'.ddepth = enc.ddepth
    BY <1>2, <1>5 DEF WriteHugeInt, CallUtcoffset, NumpyProbe, EncShape
  <2> QED BY <1>4, <2>1, <2>2, <2>3 DEF Neutral, Containers
<1>6. CASE NumpyHit
  <2> DEFINE f == [Call("array", arg) EXCEPT !.pos = Len(out)]
  <2>1. f \in Frame /\ f.fn = "array"
    <3>1. Call("array", arg) \in Frame /\ Call("array", arg).fn = "array"
      BY <1>2, CallFrame DEF Fns
    <3>2. Len(out) \in Nat
      BY <1>2 DEF TypeInv
    <3> QED BY <3>1, <3>2, FrameUpdates
  <2>2. ok' = ok /\ stack' = Append(stack, f) /\ enc' = enc
    BY <1>6 DEF NumpyHit
  <2> HIDE DEF f
  <2>3. f \in GoodFrame
    BY <2>1 DEF GoodFrame, FrameOK
  <2> QED BY <1>4, <2>1, <2>2, <2>3 DEF Neutral, Containers
<1>7. CASE Open \/ OpenSorted
  <2>1. /\ pc' = "step" /\ ~TooDeep /\ enc' = [enc EXCEPT !.depth = enc.depth + 1]
    BY <1>7 DEF Open, OpenSorted, Opening
  <2>2. enc'.depth = enc.depth + 1 /\ enc'.ddepth = enc.ddepth /\ enc.depth < MaxDepth
    BY <1>2, <2>1, DepthFacts DEF EncShape, TooDeep
  <2>3. /\ \E f : stack' = Append(stack, f) /\ f.fn \in Containers
        /\ stack' \in Seq(GoodFrame)
    <3>1. stack' \in Seq(GoodFrame)
      BY <1>2, <1>7, TypeSerialize DEF Serialize, TypeInv
    <3>2. CASE Open
      <4>1. \A g \in {"dict", "list", "tuple"} : Call(g, arg).fn = g
        BY DEF Call
      <4> QED BY <3>1, <3>2, <4>1 DEF Open, Containers
    <3>3. CASE OpenSorted
      <4> DEFINE es == items[arg]
                 g(f) == [Call("sorted", arg) EXCEPT !.snap = es, !.order = f]
                 h == [Call("release", arg) EXCEPT !.snap = es]
      <4>1. \/ \E f \in Sorted(es) : stack' = Append(stack, g(f))
            \/ stack' = Append(stack, h)
        BY <3>3 DEF OpenSorted
      <4>2. h.fn = "release" /\ \A f : g(f).fn = "sorted"
        BY DEF Call
      <4> HIDE DEF g, h, es
      <4> QED BY <3>1, <4>1, <4>2 DEF Containers
    <3> QED BY <1>7, <3>2, <3>3
  <2>4. PICK f : stack' = Append(stack, f) /\ f.fn \in Containers
    BY <2>3
  <2>5. f \in GoodFrame
    <3>1. Len(stack') = Len(stack) + 1 /\ stack'[Len(stack) + 1] = f /\ Len(stack) \in Nat
      BY <1>2, <2>4
    <3>2. Len(stack) + 1 \in 1 .. Len(stack')
      BY <3>1
    <3> QED BY <2>3, <3>1, <3>2, ElementOfSeq
  <2>6. Conts(stack') = Conts(stack) + 1 /\ Results(stack') = Results(stack)
    BY <1>2, <2>4, <2>5, StackCounts
  <2> QED BY <1>2, <2>1, <2>2, <2>6, DepthFacts DEF DepthOK
<1>8. CASE LateDatetime
  <2>1. enc'.depth = enc.depth /\ enc'.ddepth = enc.ddepth /\ pc' = "call" /\ ok' = ok
        /\ stack' = stack
    BY <1>2, <1>8 DEF LateDatetime, EncShape
  <2> QED BY <1>2, <2>1, DepthKept
<1>9. CASE CallDefault
  BY <1>2, <1>9, DepthInvokeDefault DEF CallDefault
<1>10. CASE Rollback
  <2>1. Height > 0 /\ Top.fn = "array" /\ Top.obj \in Obj /\ Below \in Seq(GoodFrame)
    <3>1. Height > 0 /\ Top.fn = "array"
      BY <1>2, <1>10 DEF Rollback, TypeInv, TopOK, Height, Top
    <3> QED BY <1>2, <3>1, StackFacts DEF Frame
  <2>2. Conts(Below) = Conts(stack) /\ Results(Below) = Results(stack)
    BY <1>2, <2>1, StackCounts DEF Neutral, Containers
  <2> QED BY <1>2, <1>10, <2>1, <2>2, DepthInvokeDefault DEF Rollback
<1> QED BY <1>3, <1>5, <1>6, <1>7, <1>8, <1>9, <1>10
       DEF Serialize, WriteScalar, RejectScalar, EnterTooDeep, WriteEmpty, WriteDate,
           LateDatetimeFails, Return

(* A step that replaces a container's frame by one for the same container, *)
(* perhaps with held references above it.                                  *)
LEMMA DepthVisit ==
  ASSUME DepthInv, Height > 0, Top.fn \in Containers,
         NEW f \in GoodFrame, f.fn \in Containers
  PROVE  /\ SetTop(f) \in Seq(GoodFrame)
         /\ Conts(SetTop(f)) = Conts(stack) /\ Results(SetTop(f)) = Results(stack)
         /\ \A a \in GoodFrame, b \in GoodFrame :
              a.fn = "hold" /\ b.fn = "hold" =>
                /\ Conts(Append(SetTop(f), a)) = Conts(stack)
                /\ Results(Append(SetTop(f), a)) = Results(stack)
                /\ Conts(Append(Append(SetTop(f), a), b)) = Conts(stack)
                /\ Results(Append(Append(SetTop(f), a), b)) = Results(stack)
<1> DEFINE s == SetTop(f)
<1>1. TypeInv /\ s \in Seq(GoodFrame)
  BY DepthFacts, StackFacts
<1>2. Conts(s) = Conts(stack) /\ Results(s) = Results(stack)
  BY <1>1, StackCounts
<1> HIDE DEF s
<1>3. \A a : a.fn = "hold" => Weight(a, Containers) = 0 /\ Weight(a, {"result"}) = 0
  BY DEF Weight, Containers
<1>4. ASSUME NEW t \in Seq(GoodFrame), NEW a \in GoodFrame, a.fn = "hold"
      PROVE  Conts(Append(t, a)) = Conts(t) /\ Results(Append(t, a)) = Results(t)
             /\ Append(t, a) \in Seq(GoodFrame)
  <2>1. Weight(a, Containers) = 0 /\ Weight(a, {"result"}) = 0
    BY <1>4 DEF Weight, Containers
  <2>2. /\ CountOf(t, Containers) \in Nat /\ CountOf(t, {"result"}) \in Nat
        /\ CountOf(Append(t, a), Containers) = CountOf(t, Containers) + 0
        /\ CountOf(Append(t, a), {"result"}) = CountOf(t, {"result"}) + 0
    BY <2>1, CountPushed
  <2> QED BY <2>2, Pushed DEF Conts, Results
<1> QED BY <1>1, <1>2, <1>4 DEF s

LEMMA DepthClose ==
  ASSUME DepthInv, Height > 0, Top.fn \in Containers, ok, Close(Top)
  PROVE  \A o \in BOOLEAN : DepthOK("ret", Below, o, enc')
<1>1. enc' = [enc EXCEPT !.depth = enc.depth - 1]
  BY DEF Close
<1>2. enc'.depth = enc.depth - 1 /\ enc'.ddepth = enc.ddepth
  BY <1>1, DepthFacts DEF EncShape
<1>3. Conts(Below) + 1 = Conts(stack) /\ Results(Below) = Results(stack) /\ Conts(Below) \in Nat
  BY DepthFacts, StackCounts
<1> QED BY <1>2, <1>3, DepthFacts DEF DepthOK

(* On a failure a container's frame goes and its depth stays.              *)
LEMMA DepthFail ==
  ASSUME DepthInv, Height > 0, Top.fn \in Containers
  PROVE  DepthOK("ret", Below, FALSE, enc)
<1>1. Conts(Below) + 1 = Conts(stack) /\ Results(Below) = Results(stack) /\ Conts(Below) \in Nat
  BY DepthFacts, StackCounts
<1> QED BY <1>1, DepthFacts DEF DepthOK

LEMMA DepthLoop ==
  ASSUME DepthInv, Loop
  PROVE  DepthOK(pc', stack', ok', enc')
<1>1. pc = "step" /\ ShapeInv /\ TypeInv
  BY DepthFacts DEF Loop, NextItem, CloseList, NextPair, BadKey, CloseDict, NextSorted,
         EndSorted, SkipHole, ReleaseStep, EndRelease
<1>2. /\ Height > 0 /\ Top \in GoodFrame /\ Top \in Frame /\ Top.obj \in Obj
      /\ Top.pos \in Nat /\ Top.pos + 1 \in Nat
      /\ Top.fn \in Containers /\ (ok \/ Top.fn = "release") /\ ok \in BOOLEAN
  <2>1. ok \in BOOLEAN
    BY <1>1 DEF TypeInv
  <2>2. Height > 0 /\ Top.fn \in Containers /\ (ok \/ Top.fn = "release")
    BY <1>1, ShapeFacts
  <2>3. Top \in Frame /\ FrameOK(Top)
    BY <1>1, <2>2, StackFacts
  <2>4. Top.obj \in Obj /\ Top.pos \in Nat
    BY <2>3 DEF Frame
  <2> QED BY <2>1, <2>2, <2>3, <2>4 DEF GoodFrame
<1>3. [Top EXCEPT !.pos = Top.pos + 1] \in GoodFrame
      /\ [Top EXCEPT !.pos = Top.pos + 1].fn = Top.fn
  BY <1>2, FrameMoves DEF Frame
<1>4. CASE CloseList \/ CloseDict
  <2>1. Close(Top) /\ pc' = "ret" /\ ok' = TRUE /\ stack' = Below
        /\ Top.fn \in {"list", "tuple", "dict"}
    BY <1>4 DEF CloseList, CloseDict, Return, Running
  <2> QED BY <1>2, <2>1, DepthClose
<1>5. CASE EndRelease
  <2>1. pc' = "ret" /\ ok' = ok /\ stack' = Below
        /\ (IF ok THEN Close(Top) ELSE enc' = enc)
    BY <1>5 DEF EndRelease, Return
  <2>2. CASE ok
    BY <1>2, <2>1, <2>2, DepthClose
  <2>3. CASE ~ok
    <3>1. DepthOK("ret", Below, FALSE, enc)
      BY <1>2, DepthFail
    <3> QED BY <1>2, <2>1, <2>3, <3>1
  <2> QED BY <2>2, <2>3
<1>6. CASE BadKey
  BY <1>2, <1>6, DepthFail DEF BadKey, Return
<1>7. ASSUME NEW f \in GoodFrame, f.fn \in Containers, NEW x \in Obj, NEW h,
             Visit(x, h, SetTop(f)), ok' = ok, enc' = enc
      PROVE  DepthOK(pc', stack', ok', enc')
  <2>1. Call("hold", x) \in GoodFrame /\ Call("hold", x).fn = "hold"
    BY <1>7, CallGood, CallFrame DEF Fns
  <2>2. pc' = "call" /\ (stack' = SetTop(f) \/ stack' = Append(SetTop(f), Call("hold", x)))
    BY <1>7 DEF Visit
  <2>3. Conts(stack') = Conts(stack) /\ Results(stack') = Results(stack)
    <3> DEFINE a == Call("hold", x)
    <3>1. /\ Conts(SetTop(f)) = Conts(stack) /\ Results(SetTop(f)) = Results(stack)
          /\ \A b, c \in GoodFrame : b.fn = "hold" /\ c.fn = "hold" =>
               /\ Conts(Append(SetTop(f), b)) = Conts(stack)
               /\ Results(Append(SetTop(f), b)) = Results(stack)
      BY <1>2, <1>7, DepthVisit
    <3> HIDE DEF a
    <3>2. a \in GoodFrame /\ a.fn = "hold"
      BY <2>1 DEF a
    <3>3. /\ Conts(Append(SetTop(f), a)) = Conts(stack)
          /\ Results(Append(SetTop(f), a)) = Results(stack)
      BY <3>1, <3>2
    <3> QED BY <2>2, <3>1, <3>3 DEF a
  <2> QED BY <1>2, <1>7, <2>2, <2>3, DepthKept
<1>8. CASE NextItem
  <2> DEFINE x == items[Top.obj][Top.pos + 1][1]
  <2>1. Top.fn \in {"list", "tuple"} /\ Top.pos < Len(items[Top.obj])
        /\ Visit(x, Top.fn = "list" /\ Guarded(x), SetTop([Top EXCEPT !.pos = Top.pos + 1]))
        /\ ok' = ok /\ enc' = enc
    BY <1>8 DEF NextItem, Running
  <2>2. x \in Obj
    <3>1. Kind[Top.obj] \in {"list", "tuple"}
      BY <1>2, <2>1 DEF FrameOK, GoodFrame
    <3>2. Top.pos + 1 \in DOMAIN items[Top.obj]
      BY <1>1, <1>2, <2>1, EntryTypes DEF TypeInv
    <3> QED BY <1>1, <1>2, <3>1, <3>2, EntryTypes DEF TypeInv
  <2> HIDE DEF x
  <2> QED BY <1>2, <1>3, <1>7, <2>1, <2>2
<1>9. CASE NextPair
  <2> DEFINE k(i) == items[Top.obj][i][1]
             v(i) == items[Top.obj][i][2]
             s(i) == SetTop([Top EXCEPT !.pos = i, !.first = FALSE])
  <2>1. PICK i \in NextEntry(Top.obj, Top.pos) :
          \/ stack' = s(i) \o <<Call("hold", k(i)), Call("hold", v(i))>>
          \/ stack' = s(i)
    BY <1>9 DEF NextPair
  <2>2. pc' = "call" /\ ok' = ok /\ enc' = enc /\ Top.fn = "dict"
    BY <1>9 DEF NextPair, Running
  <2>3. Kind[Top.obj] = "dict"
    BY <1>2, <2>2 DEF FrameOK, GoodFrame
  <2>4. i \in Filled(items[Top.obj]) /\ i \in Nat
    BY <1>1, <1>2, EntryTypes DEF NextEntry, Filled, TypeInv
  <2>5. k(i) \in Obj /\ v(i) \in Obj
    BY <1>1, <1>2, <2>3, <2>4, EntryTypes DEF TypeInv
  <2> DEFINE f == [Top EXCEPT !.pos = i, !.first = FALSE]
             a == Call("hold", k(i))
             b == Call("hold", v(i))
  <2>6. f \in GoodFrame /\ f.fn \in Containers
    <3>1. f \in GoodFrame
      BY <1>2, <2>4, FrameMoves
    <3>2. f.fn = Top.fn
      BY <1>2 DEF Frame
    <3> QED BY <1>2, <3>1, <3>2
  <2> HIDE DEF k, v
  <2>7. a \in GoodFrame /\ b \in GoodFrame /\ a.fn = "hold" /\ b.fn = "hold"
    BY <2>5, CallGood, CallFrame DEF Fns
  <2>8. stack' = SetTop(f) \o <<a, b>> \/ stack' = SetTop(f)
    BY <2>1
  <2> HIDE DEF f, a, b
  <2>9. SetTop(f) \o <<a, b>> = Append(Append(SetTop(f), a), b)
    BY <1>2, <2>6, <2>7, DepthVisit
  <2>10. Conts(stack') = Conts(stack) /\ Results(stack') = Results(stack)
    <3>1. /\ Conts(SetTop(f)) = Conts(stack) /\ Results(SetTop(f)) = Results(stack)
          /\ Conts(Append(Append(SetTop(f), a), b)) = Conts(stack)
          /\ Results(Append(Append(SetTop(f), a), b)) = Results(stack)
      BY <1>2, <2>6, <2>7, DepthVisit
    <3> QED BY <2>8, <2>9, <3>1
  <2> QED BY <1>2, <2>2, <2>10, DepthKept
<1>10. CASE NextSorted
  <2> DEFINE e == Top.snap[Top.order[Top.pos + 1]]
  <2>1. Top.pos < Len(Top.order) /\ Top.fn = "sorted" /\ ok' = ok /\ enc' = enc
        /\ Visit(e[2], FALSE, SetTop([Top EXCEPT !.pos = Top.pos + 1]))
    BY <1>10 DEF NextSorted, Running
  <2>2. e[2] \in Obj
    <3>1. Top.order \in Seq(Nat)
      BY <1>2 DEF Frame
    <3>2. Top.pos + 1 \in DOMAIN Top.order
      BY <1>2, <2>1, <3>1
    <3>3. Top.order[Top.pos + 1] \in Filled(Top.snap)
      BY <1>2, <2>1, <3>2 DEF FrameOK, GoodFrame
    <3> QED BY <1>2, <3>3, SnapTypes
  <2> HIDE DEF e
  <2> QED BY <1>2, <1>3, <1>7, <2>1, <2>2
<1>11. CASE EndSorted
  <2>1. Top.fn = "sorted" /\ stack' = SetTop(Releasing(Top)) /\ pc' = "step" /\ ok' = TRUE
        /\ enc' = enc
    BY <1>1, <1>11 DEF EndSorted, Running
  <2>2. Releasing(Top) \in GoodFrame /\ Releasing(Top).fn = "release"
    BY <1>2, <2>1, FrameMoves DEF Releasing, Frame
  <2>3. Conts(stack') = Conts(stack) /\ Results(stack') = Results(stack)
    BY <1>2, <2>1, <2>2, DepthVisit DEF Containers
  <2> QED BY <1>2, <2>1, <2>3, DepthKept
<1>12. CASE SkipHole
  <2>1. stack' = SetTop([Top EXCEPT !.pos = Top.pos + 1]) /\ pc' = "step" /\ ok' = ok
        /\ enc' = enc
    BY <1>1, <1>12 DEF SkipHole
  <2>2. Conts(stack') = Conts(stack) /\ Results(stack') = Results(stack)
    BY <1>2, <1>3, <2>1, DepthVisit
  <2> QED BY <1>2, <2>1, <2>2, DepthKept
<1>13. CASE ReleaseStep
  <2> DEFINE f == IF Top.first THEN [Top EXCEPT !.first = FALSE]
                               ELSE [Top EXCEPT !.first = TRUE, !.pos = Top.pos + 1]
             d == {<<Height, Top.pos + 1, IF Top.first THEN 2 ELSE 1,
                     Top.snap[Top.pos + 1][IF Top.first THEN 2 ELSE 1]>>}
  <2>1. Decref(d, SetTop(f), "step") /\ ok' = ok /\ enc' = enc
    BY <1>13 DEF ReleaseStep, Running
  <2>2. f \in GoodFrame
    BY <1>2, FrameMoves
  <2>3. f.fn = Top.fn
    BY <1>2 DEF Frame
  <2> HIDE DEF f, d
  <2>4. SetTop(f) \in Seq(GoodFrame)
        /\ Conts(SetTop(f)) = Conts(stack) /\ Results(SetTop(f)) = Results(stack)
    BY <1>2, <2>2, <2>3, DepthVisit
  <2>5. /\ Conts(stack') = Conts(stack) /\ Results(stack') = Results(stack)
        /\ pc' = "python" => stack'[Len(stack')].fn # "default"
    BY <2>1, <2>4, DepthDecref
  <2> QED BY <1>2, <2>1, <2>5, DepthKept
<1> QED BY <1>4, <1>5, <1>6, <1>8, <1>9, <1>10, <1>11, <1>12, <1>13 DEF Loop

LEMMA DepthReturned ==
  ASSUME DepthInv, Returned
  PROVE  DepthOK(pc', stack', ok', enc')
<1>1. /\ pc = "ret" /\ TypeInv /\ ok \in BOOLEAN /\ enc \in EncShape
      /\ Height > 0 => /\ Below \in Seq(GoodFrame) /\ Top \in GoodFrame /\ Top.obj \in Obj
                       /\ Top \in Frame
  BY DepthFacts, StackFacts DEF Returned, ReturnToLoop, ReturnToSorted, ReturnToHold,
     ReturnToResult, Finish, TypeInv, GoodFrame, Frame
<1>2. CASE ReturnToLoop
  <2>1. Height > 0 /\ Top.fn \in Containers /\ enc' = enc
    BY <1>2 DEF ReturnToLoop, Containers
  <2>2. CASE ok
    BY <1>1, <1>2, <2>1, <2>2, DepthKept DEF ReturnToLoop
  <2>3. CASE ~ok
    BY <1>2, <2>1, <2>3, DepthFail DEF ReturnToLoop, Return
  <2> QED BY <2>2, <2>3
<1>3. CASE ReturnToSorted
  <2>1. Height > 0 /\ Top.fn = "sorted" /\ pc' = "step" /\ ok' = ok /\ enc' = enc
        /\ stack' = IF ok THEN stack ELSE SetTop(Releasing(Top))
    BY <1>3 DEF ReturnToSorted, Running
  <2>2. Releasing(Top) \in GoodFrame /\ Releasing(Top).fn = "release"
    BY <1>1, <2>1, FrameMoves DEF Releasing, Frame
  <2>3. Conts(stack') = Conts(stack) /\ Results(stack') = Results(stack)
    BY <2>1, <2>2, DepthVisit DEF Containers
  <2> QED BY <1>1, <2>1, <2>3, DepthKept
<1>4. CASE ReturnToHold
  <2>1. Height > 0 /\ Top.fn = "hold" /\ Decref({<<Height, 0, 0, Top.obj>>}, Below, "ret")
        /\ ok' = ok /\ enc' = enc
    BY <1>4 DEF ReturnToHold, Running
  <2>2. Conts(Below) = Conts(stack) /\ Results(Below) = Results(stack)
    BY <1>1, <2>1, StackCounts DEF Neutral, Containers
  <2>3. /\ Conts(stack') = Conts(stack) /\ Results(stack') = Results(stack)
        /\ pc' = "python" => stack'[Len(stack')].fn # "default"
    BY <1>1, <2>1, <2>2, DepthDecref
  <2> QED BY <1>1, <2>1, <2>3, DepthKept
<1>5. CASE ReturnToResult
  <2>1. Height > 0 /\ Top.fn = "result" /\ Decref({<<Height, 0, 0, Top.obj>>}, Below, "ret")
        /\ ok' = ok /\ enc' = [enc EXCEPT !.ddepth = enc.ddepth - 1]
    BY <1>5 DEF ReturnToResult, Running
  <2>2. enc'.depth = enc.depth /\ enc'.ddepth = enc.ddepth - 1
    BY <1>1, <2>1 DEF EncShape
  <2>3. Conts(Below) = Conts(stack) /\ Results(Below) + 1 = Results(stack)
        /\ Results(Below) \in Nat
    BY <1>1, <2>1, StackCounts
  <2>4. /\ Conts(stack') = Conts(Below) /\ Results(stack') = Results(Below)
        /\ pc' = "python" => stack'[Len(stack')].fn # "default"
    BY <1>1, <2>1, DepthDecref
  <2> QED BY <2>1, <2>2, <2>3, <2>4, DepthFacts DEF DepthOK
<1>6. CASE Finish
  BY <1>1, <1>6, DepthKept DEF Finish
<1> QED BY <1>2, <1>3, <1>4, <1>5, <1>6 DEF Returned

LEMMA DepthPython ==
  ASSUME DepthInv, Python
  PROVE  DepthOK(pc', stack', ok', enc')
<1>1. pc = "python" /\ TypeInv /\ ShapeInv
  BY DepthFacts DEF Python, PyClear, PyDelete, PyAppend, PyRebuild, PyImport, PyRaise,
     DefaultReturns, TextReturns, OffsetInvalid, ArrayWritten, ArrayDeclined, ProbeReturns,
     FinalizerReturns
<1>2. /\ Height > 0 /\ Below \in Seq(GoodFrame) /\ Height \in Nat
      /\ Top \in GoodFrame /\ Top \in Frame /\ Top.obj \in Obj /\ Top.fn \in Transient
      /\ ok \/ Top.fn = "del"
      /\ ok \in BOOLEAN /\ stack \in Seq(GoodFrame) /\ enc \in EncShape
  BY <1>1, ShapeFacts, StackFacts DEF TypeInv, Frame, GoodFrame
<1>3. Conts(Below) = Conts(stack) /\ Results(Below) = Results(stack)
  BY <1>1, <1>2, StackCounts DEF Neutral, Containers, Transient
<1>4. CASE UNCHANGED <<stack, pc, ok, enc>>
  BY <1>4 DEF DepthInv
<1>5. CASE stack' = Below /\ pc' # "python" /\ enc' = enc /\ ok' \in BOOLEAN /\ (ok' => ok)
  BY <1>3, <1>5, DepthKept
<1>6. CASE DefaultReturns
  <2>1. PICK r \in PyValues : stack' = Append(Below, Call("result", r))
    BY <1>6 DEF DefaultReturns
  <2>2. r \in Obj
    BY <1>1, AliveType
  <2>3. Call("result", r) \in GoodFrame /\ Call("result", r).fn = "result"
    BY <2>2, CallGood, CallFrame DEF Fns
  <2>4. Conts(stack') = Conts(stack) /\ Results(stack') = Results(stack) + 1
    BY <1>1, <1>2, <1>3, <2>1, <2>3, StackCounts
  <2>5. pc' = "call" /\ ok' = ok /\ Top.fn = "default"
        /\ enc' = [enc EXCEPT !.ddepth = enc.ddepth + 1]
    BY <1>6 DEF DefaultReturns, Running
  <2>6. enc'.depth = enc.depth /\ enc'.ddepth = enc.ddepth + 1
    BY <1>2, <2>5 DEF EncShape
  <2>7. enc.ddepth < MaxDefaultDepth
    BY <1>1, <2>5 DEF DepthInv, DepthOK, Top, Height
  <2> QED BY <2>4, <2>5, <2>6, <2>7, DepthFacts DEF DepthOK
<1>7. ASSUME NEW f \in GoodFrame, Neutral(f), f.fn # "default", stack' = SetTop(f),
             ok' = ok, enc' = enc
      PROVE  DepthOK(pc', stack', ok', enc')
  <2>1. stack' = Append(Below, f)
    BY <1>1, <1>2, <1>7, StackMoves
  <2>2. Conts(stack') = Conts(stack) /\ Results(stack') = Results(stack)
    BY <1>1, <1>2, <1>3, <1>7, <2>1, StackCounts
  <2>3. stack'[Len(stack')] = f
    BY <1>2, <2>1, Pushed
  <2> QED BY <1>2, <1>7, <2>2, <2>3, DepthKept
<1>8. CASE OffsetInvalid
  <2> DEFINE f == [Top EXCEPT !.pos = 1]
  <2>1. f \in GoodFrame /\ f.fn = Top.fn
    BY <1>2, FrameMoves DEF Frame
  <2>2. Top.fn = "utcoffset" /\ stack' = SetTop(f) /\ ok' = ok /\ enc' = enc
    BY <1>8 DEF OffsetInvalid, Running
  <2> HIDE DEF f
  <2> QED BY <1>7, <2>1, <2>2 DEF Neutral, Containers
<1>9. CASE ArrayDeclined
  BY <1>2, <1>9, DepthKept DEF ArrayDeclined
<1>10. CASE ProbeReturns
  <2>1. Top.fn = "probe" /\ ok = TRUE /\ enc' = enc
    BY <1>2, <1>10 DEF ProbeReturns, Running
  <2>2. CASE InvokeDefault(Top.obj, Below)
    BY <1>2, <1>3, <2>1, <2>2, DepthInvokeDefault
  <2>3. CASE /\ stack' = SetTop([Call("array", Top.obj) EXCEPT !.pos = Len(out)])
             /\ UNCHANGED <<pc, ok>>
    <3> DEFINE f == [Call("array", Top.obj) EXCEPT !.pos = Len(out)]
    <3>1. f \in Frame /\ f.fn = "array"
      <4>1. Call("array", Top.obj) \in Frame /\ Call("array", Top.obj).fn = "array"
        BY <1>2, CallFrame DEF Fns
      <4>2. Len(out) \in Nat
        BY <1>1 DEF TypeInv
      <4> QED BY <4>1, <4>2, FrameUpdates
    <3>2. stack' = SetTop(f) /\ ok' = ok
      BY <2>3
    <3> HIDE DEF f
    <3>3. f \in GoodFrame
      BY <3>1 DEF GoodFrame, FrameOK
    <3> QED BY <1>7, <2>1, <3>1, <3>2, <3>3 DEF Neutral, Containers
  <2> QED BY <1>10, <2>2, <2>3 DEF ProbeReturns
<1>11. CASE PyClear \/ PyDelete \/ PyAppend \/ PyRebuild
  <2>1. \E o, es : PyChange(o, es)
    BY <1>11 DEF PyClear, PyDelete, PyAppend, PyRebuild
  <2> QED BY <1>4, <2>1 DEF PyChange, rustVars
<1>12. CASE PyImport
  BY <1>4, <1>12 DEF PyImport, rustVars
<1>13. CASE PyRaise \/ TextReturns \/ ArrayWritten
  <2>1. Top.fn # "del"
    BY <1>13 DEF PyRaise, TextReturns, ArrayWritten, Running
  <2> QED BY <1>2, <1>5, <1>13, <2>1 DEF PyRaise, TextReturns, ArrayWritten, Return
<1>14. CASE FinalizerReturns
  <2>1. stack' = Below /\ pc' = Top.next /\ enc' = enc /\ ok' = ok
    BY <1>14 DEF FinalizerReturns
  <2>2. pc' # "python"
    BY <1>2, <2>1 DEF Frame
  <2> QED BY <1>2, <1>5, <2>1, <2>2
<1> QED BY <1>6, <1>8, <1>9, <1>10, <1>11, <1>12, <1>13, <1>14 DEF Python

LEMMA DepthStep ==
  ASSUME DepthInv, [Next]_vars
  PROVE  DepthInv'
<1>1. ShapeInv'
  BY ShapeStep DEF DepthInv
<1>2. CASE UNCHANGED vars \/ Terminated
  BY <1>1, <1>2 DEF Terminated, vars, DepthInv
<1>3. CASE Serialize \/ Loop \/ Returned \/ Python
  BY <1>1, <1>3, DepthSerialize, DepthLoop, DepthReturned, DepthPython DEF DepthInv
<1> QED BY <1>2, <1>3 DEF Next

LEMMA Depths == Spec => []DepthInv
<1>1. ASSUME Init PROVE DepthInv
  <2>1. Settled(stack) /\ stack = <<>> /\ stack \in Seq(GoodFrame) /\ pc = "call" /\ ok = TRUE
    BY <1>1 DEF Init, Settled
  <2>2. ShapeInv
    BY <1>1, <2>1, TypeInit, ShapeMoves DEF ShapeInv
  <2>3. Conts(stack) = 0 /\ Results(stack) = 0
    <3>1. \A F : {l \in DOMAIN stack : stack[l].fn \in F} = {}
      BY <2>1
    <3>2. \A F : CountOf(stack, F) = 0
      BY <3>1, FS_EmptySet DEF CountOf
    <3> QED BY <3>2 DEF Conts, Results
  <2>4. enc.depth = 0 /\ enc.ddepth = 0
    BY <1>1 DEF Init
  <2> QED BY <2>1, <2>2, <2>3, <2>4, EncoderAssumption DEF DepthInv, DepthOK
<1>2. DepthInv /\ [Next]_vars => DepthInv'
  BY DepthStep
<1>3. Init => DepthInv
  BY <1>1
<1> QED BY <1>2, <1>3, PTL DEF Spec

(* Every variable keeps its type; in particular depth and default_depth,   *)
(* which the code decrements without a check (enter's callers and          *)
(* serialize_default_result), are never decremented below zero.            *)
THEOREM TypeCorrect == Spec => []TypeOK
<1>1. DepthInv => TypeOK
  <2> SUFFICES ASSUME DepthInv PROVE TypeOK
    OBVIOUS
  <2>1. TypeInv /\ enc \in EncShape /\ enc.depth \in Nat /\ enc.ddepth \in Nat
    BY DepthFacts
  <2>2. enc \in EncType
    BY <2>1 DEF EncShape, EncType
  <2>3. stack \in Seq(Frame)
    <3>1. Len(stack) \in Nat /\ stack \in [1 .. Len(stack) -> GoodFrame]
      BY <2>1 DEF TypeInv
    <3>2. stack \in [1 .. Len(stack) -> Frame]
      BY <3>1 DEF GoodFrame
    <3> QED BY <3>1, <3>2
  <2> QED BY <2>1, <2>2, <2>3 DEF TypeInv, HeapType, TypeOK
<1> QED BY <1>1, Depths, PTL

(* Until something fails, depth counts the open containers and             *)
(* default_depth the open default results, whatever the options and        *)
(* whatever Python does in between, so enter's and invoke_default's limits *)
(* are limits on the real nesting.                                         *)
THEOREM DepthCorrect == Spec => []DepthIsNesting
<1>1. DepthInv => DepthIsNesting
  <2> SUFFICES ASSUME DepthInv, ok PROVE DepthIsNesting
    BY DEF DepthIsNesting
  <2>1. Results(stack) = Cardinality({l \in DOMAIN stack : stack[l].fn = "result"})
    <3>1. {l \in DOMAIN stack : stack[l].fn = "result"} =
          {l \in DOMAIN stack : stack[l].fn \in {"result"}}
      OBVIOUS
    <3> QED BY <3>1 DEF Results, CountOf
  <2>2. Conts(stack) = Cardinality({l \in DOMAIN stack : stack[l].fn \in Containers})
    BY DEF Conts, CountOf
  <2> QED BY <2>1, <2>2, DepthFacts DEF DepthIsNesting
<1> QED BY <1>1, Depths, PTL

-----------------------------------------------------------------------------
(* The text.  What reading a mark does to the contexts.                    *)

LEMMA BecomesType ==
  ASSUME NEW c \in Contexts, NEW m \in Marks
  PROVE  Becomes(c, m) \in Seq(Contexts)
<1>1. AfterValue(c) \in Contexts
  BY DEF AfterValue, Contexts
<1>2. \A x, y \in Contexts : <<x>> \in Seq(Contexts) /\ <<x, y>> \in Seq(Contexts)
  OBVIOUS
<1>3. "A0" \in Contexts /\ "O0" \in Contexts /\ "OV" \in Contexts
      /\ (IF c = "A1" THEN "A2" ELSE "O2") \in Contexts
  BY DEF Contexts
<1>4. <<>> \in Seq(Contexts)
  OBVIOUS
<1>5. CASE m = "v"
  BY <1>1, <1>2, <1>5 DEF Becomes
<1>6. CASE m = "["
  BY <1>1, <1>2, <1>3, <1>6 DEF Becomes
<1>7. CASE m = "{"
  BY <1>1, <1>2, <1>3, <1>7 DEF Becomes
<1>8. CASE m = ","
  BY <1>2, <1>3, <1>8 DEF Becomes
<1>9. CASE m = "k"
  BY <1>2, <1>3, <1>9 DEF Becomes
<1>10. CASE m \in {"]", "}"}
  BY <1>4, <1>10 DEF Becomes
<1> QED BY <1>5, <1>6, <1>7, <1>8, <1>9, <1>10 DEF Marks

(* The innermost context c is replaced, if the mark fits.                  *)
LEMMA AcceptIs ==
  ASSUME NEW s \in Seq(Contexts), NEW c \in Contexts, NEW m \in Marks
  PROVE  /\ Append(s, c) \in Seq(Contexts) /\ Append(s, c) # <<>>
         /\ Accept(Append(s, c), m) = IF Fits(c, m) THEN s \o Becomes(c, m) ELSE <<>>
         /\ Accept(Append(s, c), m) \in Seq(Contexts)
<1> DEFINE t == Append(s, c)
<1>1. t \in Seq(Contexts) /\ Len(t) = Len(s) + 1 /\ t # <<>> /\ t[Len(t)] = c
      /\ \A l \in 1 .. Len(s) : t[l] = s[l]
  BY AppendProperties
<1>2. SubSeq(t, 1, Len(t) - 1) = s
  <2> HIDE DEF t
  <2>1. Len(t) > 0
    BY <1>1
  <2>2. /\ SubSeq(t, 1, Len(t) - 1) \in Seq(Contexts) /\ Len(SubSeq(t, 1, Len(t) - 1)) = Len(t) - 1
        /\ \A l \in 1 .. Len(t) - 1 : SubSeq(t, 1, Len(t) - 1)[l] = t[l]
    BY <1>1, <2>1, Popped
  <2>3. Len(t) - 1 = Len(s)
    BY <1>1
  <2> QED BY <1>1, <2>2, <2>3, SeqEqual
<1>3. Becomes(c, m) \in Seq(Contexts)
  BY BecomesType
<1> HIDE DEF t
<1>4. Accept(t, m) = IF Fits(c, m) THEN s \o Becomes(c, m) ELSE <<>>
  BY <1>1, <1>2 DEF Accept
<1>5. s \o Becomes(c, m) \in Seq(Contexts) /\ <<>> \in Seq(Contexts)
  BY <1>3, ConcatProperties
<1> QED BY <1>1, <1>4, <1>5 DEF t

LEMMA AcceptType ==
  ASSUME NEW cs \in Seq(Contexts), NEW m \in Marks
  PROVE  /\ Accept(cs, m) \in Seq(Contexts)
         /\ cs = <<>> => Accept(cs, m) = <<>>
<1>1. CASE cs = <<>>
  BY <1>1 DEF Accept
<1>2. CASE cs # <<>>
  <2>1. PICK s \in Seq(Contexts), c \in Contexts : cs = Append(s, c)
    BY <1>2, SequenceEmptyOrAppend
  <2> QED BY <1>2, <2>1, AcceptIs
<1> QED BY <1>1, <1>2

LEMMA StatesAre ==
  ASSUME NEW cs \in Seq(Contexts), NEW ms \in Seq(Marks)
  PROVE  /\ States(cs, ms) \in [0 .. Len(ms) -> Seq(Contexts)]
         /\ States(cs, ms)[0] = cs
         /\ \A n \in 1 .. Len(ms) : States(cs, ms)[n] = Accept(States(cs, ms)[n - 1], ms[n])
<1> DEFINE N == Len(ms)
           V == Seq(Contexts)
           step == [kv \in (1 .. N) \X V |-> Accept(kv[2], ms[kv[1]])]
           Is(f) == f = [n \in 0 .. N |-> IF n = 0 THEN cs ELSE Accept(f[n - 1], ms[n])]
<1>1. N \in Nat /\ cs \in V /\ \A n \in 1 .. N : ms[n] \in Marks
  OBVIOUS
<1>2. \A k \in 1 .. N : \A v \in V : step[<<k, v>>] = Accept(v, ms[k])
  OBVIOUS
<1>3. StepOf(N, V, step)
  <2> HIDE DEF step, N, V
  <2>1. \A k \in 1 .. N : \A v \in V : Accept(v, ms[k]) \in V
    BY <1>1, AcceptType DEF V
  <2> QED BY <1>2, <2>1 DEF StepOf
<1> HIDE DEF step, N, V
<1>4. PICK f : RunOf(N, V, cs, step, f)
  BY <1>1, <1>3, Recursion
<1>5. Is(f)
  <2>1. f \in [0 .. N -> V] /\ f[0] = cs /\ \A k \in 1 .. N : f[k] = step[<<k, f[k - 1]>>]
    BY <1>4 DEF RunOf
  <2>2. ASSUME NEW n \in 0 .. N PROVE f[n] = IF n = 0 THEN cs ELSE Accept(f[n - 1], ms[n])
    <3>1. CASE n = 0
      BY <2>1, <3>1
    <3>2. CASE n # 0
      <4>1. n \in 1 .. N /\ n - 1 \in 0 .. N
        BY <1>1, <3>2
      <4>2. f[n] = step[<<n, f[n - 1]>>] /\ f[n - 1] \in V
        BY <2>1, <4>1
      <4> QED BY <1>2, <3>2, <4>1, <4>2
    <3> QED BY <3>1, <3>2
  <2> QED BY <2>1, <2>2
<1>6. States(cs, ms) = CHOOSE g : Is(g)
  BY DEF States, N
<1>7. Is(States(cs, ms))
  <2> HIDE DEF Is
  <2> QED BY <1>5, <1>6
<1> DEFINE g == States(cs, ms)
<1>8. g = [n \in 0 .. N |-> IF n = 0 THEN cs ELSE Accept(g[n - 1], ms[n])]
  BY <1>7
<1> HIDE DEF g, Is
<1>9. DOMAIN g = 0 .. N /\ g[0] = cs
  <2>1. 0 \in 0 .. N
    BY <1>1
  <2> QED BY <1>8, <2>1
<1>10. ASSUME NEW n \in 1 .. N PROVE g[n] = Accept(g[n - 1], ms[n])
  <2>1. n \in 0 .. N /\ n # 0
    BY <1>1
  <2> QED BY <1>8, <2>1
<1>11. g \in [0 .. N -> V]
  <2> DEFINE S == {n \in 0 .. N : g[n] \in V}
  <2>1. 0 \in S
    BY <1>1, <1>9
  <2>2. ASSUME NEW n \in 0 .. N - 1, n \in S PROVE n + 1 \in S
    <3>1. n + 1 \in 1 .. N /\ n + 1 \in 0 .. N /\ n + 1 - 1 = n
      BY <1>1
    <3>2. g[n + 1] = Accept(g[n], ms[n + 1])
      BY <1>10, <3>1
    <3> QED BY <1>1, <2>2, <3>1, <3>2, AcceptType DEF V
  <2> HIDE DEF S
  <2>3. 0 .. N \subseteq S
    BY <1>1, <2>1, <2>2, BoundedInduction
  <2>4. g = [n \in 0 .. N |-> g[n]]
    BY <1>8
  <2> QED BY <2>3, <2>4 DEF S
<1> QED BY <1>9, <1>10, <1>11 DEF g, N, V

(* The contexts when the marks ms are read from cs on.                     *)
End(cs, ms) == States(cs, ms)[Len(ms)]

LEMMA EndType ==
  ASSUME NEW cs \in Seq(Contexts), NEW ms \in Seq(Marks)
  PROVE  End(cs, ms) \in Seq(Contexts) /\ End(cs, <<>>) = cs
<1>1. Len(ms) \in 0 .. Len(ms)
  OBVIOUS
<1>2. <<>> \in Seq(Marks) /\ Len(<<>>) = 0
  OBVIOUS
<1>3. States(cs, <<>>)[0] = cs
  BY <1>2, StatesAre
<1> QED BY <1>1, <1>2, <1>3, StatesAre DEF End

LEMMA StatesAgree ==
  ASSUME NEW cs \in Seq(Contexts), NEW s \in Seq(Marks), NEW t \in Seq(Marks),
         Len(s) <= Len(t), \A k \in 1 .. Len(s) : s[k] = t[k]
  PROVE  States(cs, t)[Len(s)] = End(cs, s)
<1> DEFINE f == States(cs, s)
           g == States(cs, t)
           S == {k \in 0 .. Len(s) : g[k] = f[k]}
<1>1. /\ f[0] = cs /\ \A n \in 1 .. Len(s) : f[n] = Accept(f[n - 1], s[n])
      /\ g[0] = cs /\ \A n \in 1 .. Len(t) : g[n] = Accept(g[n - 1], t[n])
  BY StatesAre
<1>2. Len(s) \in Nat /\ Len(t) \in Nat
  OBVIOUS
<1> HIDE DEF f, g
<1>3. 0 \in S
  BY <1>1, <1>2
<1>4. ASSUME NEW k \in 0 .. Len(s) - 1, k \in S PROVE k + 1 \in S
  <2>1. k + 1 \in 1 .. Len(s) /\ k + 1 \in 1 .. Len(t) /\ k + 1 - 1 = k /\ k + 1 \in 0 .. Len(s)
    BY <1>2
  <2>2. f[k + 1] = Accept(f[k], s[k + 1]) /\ g[k + 1] = Accept(g[k], t[k + 1])
    BY <1>1, <2>1
  <2> QED BY <1>4, <2>1, <2>2
<1> HIDE DEF S
<1>5. 0 .. Len(s) \subseteq S
  BY <1>2, <1>3, <1>4, BoundedInduction
<1>6. g[Len(s)] = f[Len(s)]
  BY <1>2, <1>5 DEF S
<1> QED BY <1>6 DEF End, f, g

(* Texts are read one after the other.                                     *)
LEMMA EndConcat ==
  ASSUME NEW cs \in Seq(Contexts), NEW s \in Seq(Marks), NEW t \in Seq(Marks)
  PROVE  s \o t \in Seq(Marks) /\ End(cs, s \o t) = End(End(cs, s), t)
<1> DEFINE u == s \o t
           m == Len(s)
           f == States(End(cs, s), t)
           g == States(cs, u)
           S == {k \in 0 .. Len(t) : g[m + k] = f[k]}
<1>1. /\ u \in Seq(Marks) /\ Len(u) = m + Len(t) /\ m \in Nat /\ Len(t) \in Nat
      /\ \A i \in 1 .. m + Len(t) : u[i] = IF i <= m THEN s[i] ELSE t[i - m]
  BY ConcatProperties
<1> HIDE DEF u
<1>2. /\ f[0] = End(cs, s) /\ \A n \in 1 .. Len(t) : f[n] = Accept(f[n - 1], t[n])
      /\ \A n \in 1 .. Len(u) : g[n] = Accept(g[n - 1], u[n])
  BY <1>1, EndType, StatesAre
<1>3. g[m] = End(cs, s)
  BY <1>1, StatesAgree
<1> HIDE DEF f, g
<1>4. 0 \in S
  <2>1. m + 0 = m /\ 0 \in 0 .. Len(t)
    BY <1>1
  <2> HIDE DEF m
  <2> QED BY <1>2, <1>3, <2>1
<1>5. ASSUME NEW k \in 0 .. Len(t) - 1, k \in S PROVE k + 1 \in S
  <2> DEFINE j == m + (k + 1)
  <2>1. k + 1 \in 1 .. Len(t) /\ k + 1 - 1 = k /\ k + 1 \in 0 .. Len(t)
    BY <1>1
  <2>2. j \in 1 .. m + Len(t) /\ j - 1 = m + k /\ j - m = k + 1 /\ ~(j <= m)
    BY <1>1
  <2>3. g[m + k] = f[k]
    BY <1>5
  <2> HIDE DEF j, m, S
  <2>4. f[k + 1] = Accept(f[k], t[k + 1])
    BY <1>2, <2>1
  <2>5. u[j] = t[k + 1]
    BY <1>1, <2>2
  <2>6. j \in 1 .. Len(u)
    BY <1>1, <2>2
  <2>7. g[j] = Accept(g[m + k], u[j])
    BY <1>2, <2>2, <2>6
  <2>8. g[j] = f[k + 1]
    BY <2>3, <2>4, <2>5, <2>7
  <2> QED BY <2>1, <2>8 DEF S, j
<1>6. 0 .. Len(t) \subseteq S
  <2> HIDE DEF S
  <2> QED BY <1>1, <1>4, <1>5, BoundedInduction
<1>7. g[m + Len(t)] = f[Len(t)]
  <2>1. Len(t) \in 0 .. Len(t)
    BY <1>1
  <2>2. Len(t) \in S
    BY <1>6, <2>1
  <2> QED BY <2>2
<1>8. End(cs, u) = g[m + Len(t)] /\ End(End(cs, s), t) = f[Len(t)]
  BY <1>1 DEF End, f, g
<1> QED BY <1>1, <1>7, <1>8 DEF u

(* One mark.                                                               *)
LEMMA EndOne ==
  ASSUME NEW cs \in Seq(Contexts), NEW m \in Marks
  PROVE  <<m>> \in Seq(Marks) /\ End(cs, <<m>>) = Accept(cs, m)
<1>1. <<m>> \in Seq(Marks) /\ Len(<<m>>) = 1 /\ <<m>>[1] = m
  OBVIOUS
<1>2. /\ States(cs, <<m>>)[0] = cs
      /\ \A n \in 1 .. 1 : States(cs, <<m>>)[n] = Accept(States(cs, <<m>>)[n - 1], <<m>>[n])
  BY <1>1, StatesAre
<1>3. States(cs, <<m>>)[1] = Accept(States(cs, <<m>>)[0], m)
  <2>1. 1 \in 1 .. 1 /\ 1 - 1 = 0
    OBVIOUS
  <2> QED BY <1>1, <1>2, <2>1
<1> QED BY <1>1, <1>2, <1>3 DEF End

(* Nothing leads back from an error.                                       *)
LEMMA EndError ==
  ASSUME NEW ms \in Seq(Marks)
  PROVE  End(<<>>, ms) = <<>>
<1> DEFINE f == States(<<>>, ms)
           S == {k \in 0 .. Len(ms) : f[k] = <<>>}
<1>1. Len(ms) \in Nat /\ <<>> \in Seq(Contexts) /\ \A k \in 1 .. Len(ms) : ms[k] \in Marks
  OBVIOUS
<1>2. f[0] = <<>> /\ \A n \in 1 .. Len(ms) : f[n] = Accept(f[n - 1], ms[n])
  BY <1>1, StatesAre
<1> HIDE DEF f
<1>3. 0 \in S
  BY <1>1, <1>2
<1>4. ASSUME NEW k \in 0 .. Len(ms) - 1, k \in S PROVE k + 1 \in S
  <2>1. k + 1 \in 1 .. Len(ms) /\ k + 1 - 1 = k /\ k + 1 \in 0 .. Len(ms)
    BY <1>1
  <2>2. f[k + 1] = Accept(<<>>, ms[k + 1])
    BY <1>2, <1>4, <2>1
  <2> QED BY <1>1, <2>1, <2>2, AcceptType
<1>5. 0 .. Len(ms) \subseteq S
  <2> HIDE DEF S
  <2> QED BY <1>1, <1>3, <1>4, BoundedInduction
<1> QED BY <1>1, <1>5 DEF End, f

(* What can be read can be read up to any mark.                            *)
LEMMA EndPrefix ==
  ASSUME NEW cs \in Seq(Contexts), NEW ms \in Seq(Marks), NEW n \in 0 .. Len(ms),
         End(cs, ms) # <<>>
  PROVE  SubSeq(ms, 1, n) \in Seq(Marks) /\ End(cs, SubSeq(ms, 1, n)) # <<>>
<1> DEFINE s == SubSeq(ms, 1, n)
           t == SubSeq(ms, n + 1, Len(ms))
<1>1. Len(ms) \in Nat /\ n \in Nat /\ n <= Len(ms) /\ \A k \in 1 .. Len(ms) : ms[k] \in Marks
  OBVIOUS
<1>2. s \in Seq(Marks)
  <2>1. \A k \in 1 .. n : ms[k] \in Marks
    BY <1>1
  <2> QED BY <1>1, <2>1, SubSeqProperties
<1>3. t \in Seq(Marks)
  <2>1. \A k \in n + 1 .. Len(ms) : ms[k] \in Marks
    BY <1>1
  <2>2. n + 1 \in Int /\ Len(ms) \in Int
    BY <1>1
  <2> QED BY <2>1, <2>2, SubSeqProperties
<1>4. s \o t = ms
  <2>1. 1 \in 1 .. Len(ms) + 1 /\ n \in 1 - 1 .. Len(ms) /\ Len(ms) \in n .. Len(ms)
    BY <1>1
  <2>2. s \o t = SubSeq(ms, 1, Len(ms))
    BY <2>1, ConcatAdjacentSubSeq
  <2> QED BY <2>2, SubSeqFull
<1> HIDE DEF s, t
<1>5. End(cs, ms) = End(End(cs, s), t)
  BY <1>2, <1>3, <1>4, EndConcat, ZenonT(60)
<1>6. End(cs, s) # <<>>
  BY <1>3, <1>5, EndError
<1> QED BY <1>2, <1>6 DEF s

LEMMA StatesLive ==
  ASSUME NEW cs \in Seq(Contexts), NEW ms \in Seq(Marks), NEW n \in 0 .. Len(ms),
         End(cs, ms) # <<>>
  PROVE  States(cs, ms)[n] # <<>>
<1> DEFINE s == SubSeq(ms, 1, n)
<1>1. s \in Seq(Marks) /\ End(cs, s) # <<>>
  BY EndPrefix
<1>2. Len(s) = n /\ \A k \in 1 .. n : s[k] = ms[k]
  <2>1. \A k \in 1 .. n : ms[k] \in Marks
    OBVIOUS
  <2>2. /\ Len(s) = IF 1 <= n THEN n - 1 + 1 ELSE 0
        /\ \A k \in 1 .. n - 1 + 1 : s[k] = ms[1 + k - 1]
    BY <2>1, SubSeqProperties
  <2>3. n \in Nat /\ n - 1 + 1 = n /\ \A k \in 1 .. n : 1 + k - 1 = k
    OBVIOUS
  <2> HIDE DEF s
  <2> QED BY <2>2, <2>3
<1> HIDE DEF s
<1>3. States(cs, ms)[Len(s)] = End(cs, s)
  BY <1>1, <1>2, StatesAgree
<1> QED BY <1>1, <1>2, <1>3

(* The contexts w are u, on top of z and in the place of a document in it. *)
Bottom(c, b) == IF b = "T0" THEN c ELSE AfterValue(c)
Lifted(z, c, u, w) ==
  \E b \in {"T0", "T1"}, v \in Seq(Contexts) :
    u = <<b>> \o v /\ w = Append(z, Bottom(c, b)) \o v

LEMMA LiftedStep ==
  ASSUME NEW z \in Seq(Contexts), NEW c \in ExpectsValue, NEW u, NEW w, Lifted(z, c, u, w),
         NEW m \in Marks, Accept(u, m) # <<>>
  PROVE  Lifted(z, c, Accept(u, m), Accept(w, m))
<1>1. PICK b \in {"T0", "T1"}, v \in Seq(Contexts) :
        u = <<b>> \o v /\ w = Append(z, Bottom(c, b)) \o v
  BY DEF Lifted
<1>2. /\ c \in Contexts /\ AfterValue(c) \in Contexts /\ b \in Contexts
      /\ Bottom(c, b) \in Contexts
  BY DEF ExpectsValue, Contexts, AfterValue, Bottom
<1> DEFINE x == <<b>>
           y == Append(z, Bottom(c, b))
<1>3. x \in Seq(Contexts) /\ y \in Seq(Contexts)
  BY <1>2, AppendProperties
<1>4. CASE v = <<>>
  <2>1. u = x /\ w = y /\ x = Append(<<>>, b) /\ <<>> \in Seq(Contexts)
    BY <1>1, <1>3, <1>4, ConcatEmptySeq
  <2>2. Accept(u, m) = IF Fits(b, m) THEN <<>> \o Becomes(b, m) ELSE <<>>
    <3>1. u = Append(<<>>, b)
      BY <2>1
    <3>2. Accept(Append(<<>>, b), m) = IF Fits(b, m) THEN <<>> \o Becomes(b, m) ELSE <<>>
      BY <1>2, <2>1, AcceptIs
    <3> QED BY <3>1, <3>2
  <2>3. Fits(b, m)
    BY <2>2
  <2>4. b = "T0" /\ m \in {"v", "[", "{"}
    BY <2>3 DEF Fits, ExpectsValue
  <2>5. Fits(c, m)
    BY <2>4 DEF Fits
  <2>6. Accept(w, m) = z \o Becomes(c, m)
    BY <1>2, <2>1, <2>4, <2>5, AcceptIs DEF Bottom
  <2> DEFINE in == IF m = "v" THEN <<>> ELSE IF m = "[" THEN <<"A0">> ELSE <<"O0">>
  <2>7. in \in Seq(Contexts)
    <3>1. <<>> \in Seq(Contexts) /\ <<"A0">> \in Seq(Contexts) /\ <<"O0">> \in Seq(Contexts)
      BY DEF Contexts
    <3> QED BY <3>1
  <2>8. Becomes(b, m) = <<"T1">> \o in /\ Becomes(c, m) = <<AfterValue(c)>> \o in
    <3>1. CASE m = "v"
      BY <2>4, <3>1 DEF Becomes, AfterValue
    <3>2. CASE m = "["
      BY <2>4, <3>2 DEF Becomes, AfterValue
    <3>3. CASE m = "{"
      <4>1. in = <<"O0">> /\ b = "T0"
        BY <2>4, <3>3
      <4>2. \A d : Becomes(d, "{") = <<AfterValue(d)>> \o <<"O0">>
        BY DEF Becomes
      <4> QED BY <3>3, <4>1, <4>2 DEF AfterValue
    <3> QED BY <2>4, <3>1, <3>2, <3>3
  <2>9. <<"T1">> \in Seq(Contexts) /\ <<AfterValue(c)>> \in Seq(Contexts)
    BY <1>2 DEF Contexts
  <2> HIDE DEF in
  <2>10. Accept(u, m) = <<"T1">> \o in
    <3>1. <<"T1">> \o in \in Seq(Contexts)
      BY <2>7, <2>9, ConcatProperties
    <3> QED BY <2>2, <2>3, <2>8, <3>1, ConcatEmptySeq
  <2>11. Accept(w, m) = Append(z, AfterValue(c)) \o in
    <3>1. Accept(w, m) = (z \o <<AfterValue(c)>>) \o in
      <4>1. Accept(w, m) = z \o (<<AfterValue(c)>> \o in)
        BY <2>6, <2>8
      <4>2. (z \o <<AfterValue(c)>>) \o in = z \o (<<AfterValue(c)>> \o in)
        BY <2>7, <2>9, ConcatAssociative
      <4> QED BY <4>1, <4>2
    <3>2. Append(z, AfterValue(c)) = z \o <<AfterValue(c)>>
      BY <1>2, AppendIsConcat
    <3> QED BY <3>1, <3>2
  <2> QED BY <2>7, <2>10, <2>11 DEF Lifted, Bottom
<1>5. CASE v # <<>>
  <2>1. PICK v1 \in Seq(Contexts), d \in Contexts : v = Append(v1, d)
    BY <1>5, SequenceEmptyOrAppend
  <2>2. v = v1 \o <<d>> /\ <<d>> \in Seq(Contexts)
    BY <2>1, AppendIsConcat
  <2>3. ASSUME NEW q \in Seq(Contexts)
        PROVE  /\ q \o v1 \in Seq(Contexts)
               /\ Accept(q \o v, m) = IF Fits(d, m) THEN q \o (v1 \o Becomes(d, m)) ELSE <<>>
    <3>1. q \o v1 \in Seq(Contexts)
      BY ConcatProperties
    <3>2. q \o v = (q \o v1) \o <<d>>
      BY <2>2, ConcatAssociative
    <3>3. q \o v = Append(q \o v1, d)
      BY <3>1, <3>2, AppendIsConcat
    <3>4. Accept(q \o v, m) = IF Fits(d, m) THEN (q \o v1) \o Becomes(d, m) ELSE <<>>
      <4> DEFINE r == q \o v1
      <4>1. r \in Seq(Contexts) /\ q \o v = Append(r, d)
        BY <3>1, <3>3
      <4> HIDE DEF r
      <4>2. Accept(Append(r, d), m) = IF Fits(d, m) THEN r \o Becomes(d, m) ELSE <<>>
        BY <4>1, AcceptIs
      <4>3. Accept(q \o v, m) = IF Fits(d, m) THEN r \o Becomes(d, m) ELSE <<>>
        BY <4>1, <4>2
      <4> QED BY <4>3 DEF r
    <3>5. (q \o v1) \o Becomes(d, m) = q \o (v1 \o Becomes(d, m))
      <4> DEFINE r == Becomes(d, m)
      <4>1. r \in Seq(Contexts)
        BY BecomesType
      <4> HIDE DEF r
      <4>2. (q \o v1) \o r = q \o (v1 \o r)
        BY <4>1, ConcatAssociative, SMTT(60)
      <4> QED BY <4>2 DEF r
    <3> QED BY <3>1, <3>4, <3>5
  <2> HIDE DEF x, y
  <2>4. u = x \o v /\ w = y \o v
    BY <1>1 DEF x, y
  <2>5. Fits(d, m)
    BY <1>3, <2>3, <2>4
  <2> DEFINE t == v1 \o Becomes(d, m)
  <2>6. t \in Seq(Contexts)
    BY BecomesType, ConcatProperties
  <2>7. Accept(u, m) = x \o t /\ Accept(w, m) = y \o t
    BY <1>3, <2>3, <2>4, <2>5
  <2> HIDE DEF t
  <2> QED BY <2>6, <2>7 DEF Lifted, x, y
<1> QED BY <1>4, <1>5

(* A value is read in every place that expects one.                        *)
LEMMA ValueAnywhere ==
  ASSUME NEW z \in Seq(Contexts), NEW c \in ExpectsValue, NEW t \in Seq(Marks),
         End(<<"T0">>, t) = <<"T1">>
  PROVE  End(Append(z, c), t) = Append(z, AfterValue(c))
<1> DEFINE f == States(<<"T0">>, t)
           w == Append(z, c)
           g == States(w, t)
           S == {k \in 0 .. Len(t) : Lifted(z, c, f[k], g[k])}
<1>1. Len(t) \in Nat /\ \A k \in 1 .. Len(t) : t[k] \in Marks
  OBVIOUS
<1>2. <<"T0">> \in Seq(Contexts) /\ w \in Seq(Contexts) /\ c \in Contexts
      /\ AfterValue(c) \in Contexts
  <2>1. "T0" \in Contexts /\ c \in Contexts /\ AfterValue(c) \in Contexts
    BY DEF Contexts, ExpectsValue, AfterValue
  <2> QED BY <2>1, AppendProperties
<1> HIDE DEF w
<1>3. /\ f[0] = <<"T0">> /\ \A n \in 1 .. Len(t) : f[n] = Accept(f[n - 1], t[n])
      /\ g[0] = w /\ \A n \in 1 .. Len(t) : g[n] = Accept(g[n - 1], t[n])
  BY <1>2, StatesAre
<1>4. ASSUME NEW k \in 0 .. Len(t) PROVE f[k] # <<>>
  <2>1. End(<<"T0">>, t) # <<>> /\ <<"T0">> \in Seq(Contexts)
    BY <1>2
  <2> QED BY <2>1, StatesLive
<1>5. End(<<"T0">>, t) = f[Len(t)] /\ End(w, t) = g[Len(t)]
  BY DEF End
<1> HIDE DEF f, g
<1>6. 0 \in S
  <2>1. <<>> \in Seq(Contexts) /\ <<"T0">> = <<"T0">> \o <<>> /\ w = w \o <<>>
    BY <1>2, ConcatEmptySeq
  <2>2. Lifted(z, c, <<"T0">>, w)
    BY <2>1 DEF Lifted, Bottom, w
  <2> QED BY <1>1, <1>3, <2>2
<1>7. ASSUME NEW k \in 0 .. Len(t) - 1, k \in S PROVE k + 1 \in S
  <2>1. k + 1 \in 1 .. Len(t) /\ k + 1 - 1 = k /\ k + 1 \in 0 .. Len(t)
    BY <1>1
  <2>2. f[k + 1] = Accept(f[k], t[k + 1]) /\ g[k + 1] = Accept(g[k], t[k + 1])
    BY <1>3, <2>1
  <2>3. Lifted(z, c, f[k], g[k])
    BY <1>7
  <2>4. Lifted(z, c, f[k + 1], g[k + 1])
    BY <1>1, <1>4, <2>1, <2>2, <2>3, LiftedStep
  <2> QED BY <2>1, <2>4
<1>8. 0 .. Len(t) \subseteq S
  <2> HIDE DEF S
  <2> QED BY <1>1, <1>6, <1>7, BoundedInduction
<1>9. Lifted(z, c, <<"T1">>, End(w, t))
  BY <1>1, <1>5, <1>8
<1>10. PICK b \in {"T0", "T1"}, v \in Seq(Contexts) :
         <<"T1">> = <<b>> \o v /\ End(w, t) = Append(z, Bottom(c, b)) \o v
  BY <1>9 DEF Lifted
<1>11. b = "T1" /\ v = <<>>
  <2>1. <<b>> \in Seq(Contexts) /\ Len(<<b>>) = 1 /\ <<b>>[1] = b
    BY DEF Contexts
  <2>2. Len(<<b>> \o v) = 1 + Len(v) /\ (<<b>> \o v)[1] = b
    BY <2>1, ConcatProperties
  <2>3. Len(<<"T1">>) = 1 /\ <<"T1">>[1] = "T1" /\ Len(v) \in Nat
    OBVIOUS
  <2>4. Len(v) = 0
    BY <1>10, <2>2, <2>3
  <2> QED BY <1>10, <2>2, <2>3, <2>4
<1>12. End(w, t) = Append(z, AfterValue(c))
  <2>1. Append(z, AfterValue(c)) \in Seq(Contexts)
    BY <1>2, AppendProperties
  <2> QED BY <1>10, <1>11, <2>1, ConcatEmptySeq DEF Bottom
<1> QED BY <1>12 DEF w

-----------------------------------------------------------------------------
(* The contexts that the frames have opened.                               *)

(* A container's context after an element, and whether it has one.         *)
AfterElement(f) == IF f.fn \in {"list", "tuple"} THEN "A1" ELSE "O1"
Begun(f) ==
  /\ f.fn \in {"list", "tuple", "sorted"} => f.pos # 0
  /\ f.fn = "dict" => ~f.first

(* The context in which a loop's next step begins.                         *)
InLoop(f, c) ==
  IF f.fn = "release" THEN c \in {"O0", "O1"}
  ELSE c = IF Begun(f) THEN AfterElement(f)
           ELSE IF f.fn \in {"list", "tuple"} THEN "A0" ELSE "O0"

(* cs is what is open when the calls of s have all written their values.   *)
Nest(cs, f) == IF f.fn \in Containers THEN Append(cs, AfterElement(f)) ELSE cs
Opened(h, s) ==
  /\ h \in [0 .. Len(s) -> Seq(Contexts)] /\ h[0] = <<"T1">>
  /\ \A n \in 1 .. Len(s) : /\ h[n] = Nest(h[n - 1], s[n])
                            /\ s[n].fn \in Containers => Begun(s[n])
Full(s, cs) == \E h : Opened(h, s) /\ cs = h[Len(s)]

LEMMA FullType ==
  ASSUME NEW s \in Seq(GoodFrame), NEW cs, Full(s, cs)
  PROVE  cs \in Seq(Contexts)
<1>1. PICK h : Opened(h, s) /\ cs = h[Len(s)]
  BY DEF Full
<1>2. Len(s) \in 0 .. Len(s)
  OBVIOUS
<1> QED BY <1>1, <1>2 DEF Opened

LEMMA FullStart ==
  /\ Full(<<>>, <<"T1">>)
  /\ \A cs : Full(<<>>, cs) => cs = <<"T1">>
<1> DEFINE h == [n \in 0 .. 0 |-> <<"T1">>]
<1>0. Len(<<>>) = 0
  OBVIOUS
<1>1. <<"T1">> \in Seq(Contexts)
  BY DEF Contexts
<1>2. h \in [0 .. 0 -> Seq(Contexts)] /\ h[0] = <<"T1">>
  BY <1>1
<1> HIDE DEF h
<1>3. Opened(h, <<>>)
  BY <1>0, <1>2 DEF Opened
<1>4. Full(<<>>, <<"T1">>)
  BY <1>0, <1>2, <1>3 DEF Full
<1>5. ASSUME NEW cs, Full(<<>>, cs) PROVE cs = <<"T1">>
  BY <1>0, <1>5 DEF Full, Opened
<1> QED BY <1>4, <1>5

LEMMA FullPush ==
  ASSUME NEW s \in Seq(GoodFrame), NEW cs, Full(s, cs), NEW f \in GoodFrame,
         f.fn \in Containers => Begun(f)
  PROVE  Full(Append(s, f), Nest(cs, f))
<1>1. PICK h : Opened(h, s) /\ cs = h[Len(s)]
  BY DEF Full
<1> DEFINE N == Len(s)
           t == Append(s, f)
           v == Nest(cs, f)
           g == [n \in 0 .. N + 1 |-> IF n = N + 1 THEN v ELSE h[n]]
<1>2. N \in Nat /\ Len(t) = N + 1 /\ t[N + 1] = f /\ \A n \in 1 .. N : t[n] = s[n]
  BY Pushed
<1>3. cs \in Seq(Contexts)
  BY FullType
<1>4. v \in Seq(Contexts)
  <2>1. AfterElement(f) \in Contexts
    BY DEF AfterElement, Contexts
  <2> QED BY <1>3, <2>1, AppendProperties DEF Nest
<1>5. /\ h \in [0 .. N -> Seq(Contexts)] /\ h[0] = <<"T1">> /\ h[N] = cs
      /\ \A n \in 1 .. N : h[n] = Nest(h[n - 1], s[n]) /\ (s[n].fn \in Containers => Begun(s[n]))
  BY <1>1 DEF Opened
<1> HIDE DEF N, t, v
<1>6. /\ g \in [0 .. N + 1 -> Seq(Contexts)] /\ g[N + 1] = v
      /\ \A n \in 0 .. N : g[n] = h[n]
  BY <1>2, <1>4, <1>5
<1> HIDE DEF g
<1>7. ASSUME NEW n \in 1 .. N + 1
      PROVE  g[n] = Nest(g[n - 1], t[n]) /\ (t[n].fn \in Containers => Begun(t[n]))
  <2>1. CASE n = N + 1
    <3>1. n - 1 = N /\ N \in 0 .. N
      BY <1>2, <2>1
    <3> QED BY <1>2, <1>5, <1>6, <2>1, <3>1 DEF v
  <2>2. CASE n # N + 1
    <3>1. n \in 1 .. N /\ n \in 0 .. N /\ n - 1 \in 0 .. N
      BY <1>2, <2>2
    <3> QED BY <1>2, <1>5, <1>6, <3>1
  <2> QED BY <2>1, <2>2
<1>8. g[0] = <<"T1">>
  <2>1. 0 \in 0 .. N
    BY <1>2
  <2> QED BY <1>5, <1>6, <2>1
<1>9. Opened(g, t) /\ v = g[Len(t)]
  BY <1>2, <1>6, <1>7, <1>8 DEF Opened
<1> QED BY <1>9 DEF Full, t, v

LEMMA FullPop ==
  ASSUME NEW s \in Seq(GoodFrame), NEW f \in GoodFrame, NEW cs, Full(Append(s, f), cs)
  PROVE  /\ \E z \in Seq(Contexts) : Full(s, z) /\ cs = Nest(z, f)
         /\ f.fn \in Containers => Begun(f)
<1> DEFINE N == Len(s)
           t == Append(s, f)
<1>1. PICK h : Opened(h, t) /\ cs = h[Len(t)]
  BY DEF Full
<1>2. N \in Nat /\ Len(t) = N + 1 /\ t[N + 1] = f /\ \A n \in 1 .. N : t[n] = s[n]
  BY Pushed
<1> HIDE DEF t
<1> DEFINE g == [n \in 0 .. N |-> h[n]]
<1>3. /\ h \in [0 .. N + 1 -> Seq(Contexts)] /\ h[0] = <<"T1">> /\ h[N + 1] = cs
      /\ \A n \in 1 .. N + 1 : /\ h[n] = Nest(h[n - 1], t[n])
                               /\ t[n].fn \in Containers => Begun(t[n])
  BY <1>1, <1>2 DEF Opened
<1> HIDE DEF N
<1>4. \A n \in 0 .. N : g[n] = h[n] /\ h[n] \in Seq(Contexts)
  BY <1>2, <1>3
<1>5. g \in [0 .. N -> Seq(Contexts)]
  BY <1>4
<1> HIDE DEF g
<1>6. ASSUME NEW n \in 1 .. N
      PROVE  g[n] = Nest(g[n - 1], s[n]) /\ (s[n].fn \in Containers => Begun(s[n]))
  <2>1. n \in 1 .. N + 1 /\ n \in 0 .. N /\ n - 1 \in 0 .. N
    BY <1>2
  <2>2. h[n] = Nest(h[n - 1], t[n]) /\ (t[n].fn \in Containers => Begun(t[n]))
    BY <1>3, <2>1
  <2>3. t[n] = s[n]
    BY <1>2
  <2>4. g[n] = h[n] /\ g[n - 1] = h[n - 1]
    BY <1>4, <2>1
  <2> QED BY <2>2, <2>3, <2>4
<1>7. 0 \in 0 .. N /\ N \in 0 .. N /\ N + 1 \in 1 .. N + 1 /\ N + 1 - 1 = N
  BY <1>2
<1>8. Opened(g, s)
  BY <1>3, <1>4, <1>5, <1>6, <1>7 DEF Opened, N
<1>9. Full(s, h[N])
  <2>1. h[N] = g[Len(s)]
    BY <1>4, <1>7 DEF N
  <2> QED BY <1>8, <2>1 DEF Full
<1>10. cs = Nest(h[N], f) /\ (f.fn \in Containers => Begun(f))
  <2>1. /\ h[N + 1] = Nest(h[N + 1 - 1], t[N + 1])
        /\ t[N + 1].fn \in Containers => Begun(t[N + 1])
    BY <1>3, <1>7
  <2>2. h[N + 1 - 1] = h[N] /\ t[N + 1] = f /\ h[N + 1] = cs
    BY <1>2, <1>3, <1>7
  <2> QED BY <2>1, <2>2
<1> QED BY <1>4, <1>7, <1>9, <1>10

-----------------------------------------------------------------------------
(* How the contexts cs of the text answer to the stack: a value is due in  *)
(* the innermost frame of s, or the next step of f's loop on top of s.     *)
ValueDue(s, cs) ==
  \E z \in Seq(Contexts), c \in ExpectsValue :
    Full(s, Append(z, AfterValue(c))) /\ cs = Append(z, c)
StepDue(s, f, cs) ==
  \E z \in Seq(Contexts), c \in Contexts : Full(s, z) /\ InLoop(f, c) /\ cs = Append(z, c)

LEMMA ContextTypes ==
  /\ ExpectsValue \subseteq Contexts
  /\ \A c : AfterValue(c) \in Contexts
  /\ \A f, c : InLoop(f, c) => c \in {"A0", "A1", "O0", "O1"} /\ c \in Contexts
BY DEF ExpectsValue, Contexts, AfterValue, InLoop, AfterElement

LEMMA DueTypes ==
  ASSUME NEW s, NEW f, NEW cs
  PROVE  ValueDue(s, cs) \/ StepDue(s, f, cs) => cs \in Seq(Contexts) /\ cs # <<>>
<1>1. ASSUME ValueDue(s, cs) PROVE cs \in Seq(Contexts) /\ cs # <<>>
  <2>1. PICK z \in Seq(Contexts), c \in ExpectsValue : cs = Append(z, c)
    BY <1>1 DEF ValueDue
  <2>2. c \in Contexts
    BY ContextTypes
  <2> QED BY <2>1, <2>2, AppendProperties
<1>2. ASSUME StepDue(s, f, cs) PROVE cs \in Seq(Contexts) /\ cs # <<>>
  <2>1. PICK z \in Seq(Contexts), c \in Contexts : cs = Append(z, c)
    BY <1>2 DEF StepDue
  <2> QED BY <2>1, AppendProperties
<1> QED BY <1>1, <1>2

LEMMA FullLive ==
  ASSUME NEW s \in Seq(GoodFrame), NEW cs, Full(s, cs)
  PROVE  cs # <<>>
<1>1. CASE s = <<>>
  BY <1>1, FullStart
<1>2. CASE s # <<>>
  <2> DEFINE S == {n \in 0 .. Len(s) : \A h : Opened(h, s) => h[n] # <<>>}
  <2>0. Len(s) \in Nat
    OBVIOUS
  <2>1. 0 \in S
    <3>1. <<"T1">> # <<>> /\ 0 \in 0 .. Len(s)
      BY <2>0
    <3>2. \A h : Opened(h, s) => h[0] = <<"T1">>
      BY DEF Opened
    <3> QED BY <3>1, <3>2
  <2>2. ASSUME NEW n \in 0 .. Len(s) - 1, n \in S PROVE n + 1 \in S
    <3>1. n + 1 \in 1 .. Len(s) /\ n + 1 - 1 = n /\ n + 1 \in 0 .. Len(s)
      BY <2>0
    <3>2. ASSUME NEW h, Opened(h, s) PROVE h[n + 1] # <<>>
      <4>1. h[n + 1] = Nest(h[n], s[n + 1]) /\ h[n] # <<>> /\ h[n] \in Seq(Contexts)
        <5>1. h[n] # <<>>
          BY <2>2, <3>2
        <5>2. n \in 0 .. Len(s)
          BY <2>0
        <5>3. h \in [0 .. Len(s) -> Seq(Contexts)] /\ h[n + 1] = Nest(h[n + 1 - 1], s[n + 1])
          BY <3>1, <3>2 DEF Opened
        <5> QED BY <3>1, <5>1, <5>2, <5>3
      <4>2. AfterElement(s[n + 1]) \in Contexts
        BY DEF AfterElement, Contexts
      <4> QED BY <4>1, <4>2, AppendProperties DEF Nest
    <3> QED BY <3>1, <3>2
  <2> HIDE DEF S
  <2>3. 0 .. Len(s) \subseteq S
    BY <2>0, <2>1, <2>2, BoundedInduction
  <2>4. Len(s) \in S
    BY <2>0, <2>3
  <2> QED BY <2>4 DEF S, Full
<1> QED BY <1>1, <1>2

(* A call that writes no container of its own changes nothing.             *)
LEMMA PlainPush ==
  ASSUME NEW s \in Seq(GoodFrame), NEW f \in GoodFrame, f.fn \notin Containers, NEW cs
  PROVE  /\ ValueDue(s, cs) <=> ValueDue(Append(s, f), cs)
         /\ Full(s, cs) <=> Full(Append(s, f), cs)
<1>1. ASSUME NEW x PROVE Full(s, x) <=> Full(Append(s, f), x)
  <2>1. Full(s, x) => Full(Append(s, f), x)
    BY FullPush DEF Nest
  <2>2. Full(Append(s, f), x) => Full(s, x)
    BY FullPop DEF Nest
  <2> QED BY <2>1, <2>2
<1> QED BY <1>1 DEF ValueDue

LEMMA FitsHere ==
  ASSUME NEW z \in Seq(Contexts), NEW c \in Contexts, NEW m \in Marks, Fits(c, m)
  PROVE  Accept(Append(z, c), m) = z \o Becomes(c, m)
BY AcceptIs

(* A scalar, and what opens a container.                                   *)
LEMMA ScalarRead ==
  ASSUME NEW s \in Seq(GoodFrame), NEW cs, ValueDue(s, cs)
  PROVE  Full(s, Accept(cs, "v"))
<1>1. PICK z \in Seq(Contexts), c \in ExpectsValue :
        Full(s, Append(z, AfterValue(c))) /\ cs = Append(z, c)
  BY DEF ValueDue
<1>2. c \in Contexts /\ AfterValue(c) \in Contexts /\ "v" \in Marks /\ Fits(c, "v")
  BY ContextTypes DEF Marks, Fits
<1>3. Accept(cs, "v") = z \o <<AfterValue(c)>>
  BY <1>1, <1>2, FitsHere DEF Becomes
<1>4. Append(z, AfterValue(c)) = z \o <<AfterValue(c)>>
  BY <1>2, AppendIsConcat
<1> QED BY <1>1, <1>3, <1>4

LEMMA TwoMarks ==
  ASSUME NEW S, NEW x \in S, NEW y \in S
  PROVE  <<x>> \in Seq(S) /\ <<y>> \in Seq(S) /\ <<x, y>> = <<x>> \o <<y>>
<1> DEFINE a == <<x>>
           b == <<y>>
           d == <<x, y>>
           e == a \o b
<1>1. /\ a \in Seq(S) /\ Len(a) = 1 /\ a[1] = x
      /\ b \in Seq(S) /\ Len(b) = 1 /\ b[1] = y
      /\ d \in Seq(S) /\ Len(d) = 2 /\ d[1] = x /\ d[2] = y
  OBVIOUS
<1> HIDE DEF a, b, d
<1>2. /\ e \in Seq(S) /\ Len(e) = 2
      /\ \A i \in 1 .. 2 : e[i] = IF i <= 1 THEN a[i] ELSE b[i - 1]
  BY <1>1, ConcatProperties
<1> HIDE DEF e
<1>3. e[1] = x /\ e[2] = y
  BY <1>1, <1>2
<1>4. d = e
  BY <1>1, <1>2, <1>3, SeqEqual
<1> QED BY <1>1, <1>4 DEF a, b, d, e

LEMMA AppendTwo ==
  ASSUME NEW S, NEW z \in Seq(S), NEW x \in S, NEW y \in S
  PROVE  z \o <<x, y>> = Append(Append(z, x), y)
<1> DEFINE a == <<x>>
           b == <<y>>
           e == Append(z, x)
<1>1. a \in Seq(S) /\ b \in Seq(S) /\ <<x, y>> = a \o b
  BY TwoMarks
<1>2. e = z \o a /\ e \in Seq(S)
  BY AppendIsConcat, AppendProperties
<1>3. Append(e, y) = e \o b
  BY <1>2, AppendIsConcat
<1> HIDE DEF a, b, e
<1>4. (z \o a) \o b = z \o (a \o b)
  BY <1>1, ConcatAssociative
<1> QED BY <1>1, <1>2, <1>3, <1>4 DEF e

LEMMA BracketRead ==
  ASSUME NEW s \in Seq(GoodFrame), NEW cs, ValueDue(s, cs)
  PROVE  /\ \E z \in Seq(Contexts) : Full(s, z) /\ Accept(cs, "[") = Append(z, "A0")
         /\ \E z \in Seq(Contexts) : Full(s, z) /\ Accept(cs, "{") = Append(z, "O0")
<1>1. PICK y \in Seq(Contexts), c \in ExpectsValue :
        Full(s, Append(y, AfterValue(c))) /\ cs = Append(y, c)
  BY DEF ValueDue
<1>2. /\ c \in Contexts /\ AfterValue(c) \in Contexts /\ "A0" \in Contexts /\ "O0" \in Contexts
      /\ "[" \in Marks /\ Fits(c, "[") /\ "{" \in Marks /\ Fits(c, "{")
  BY ContextTypes DEF Marks, Fits, Contexts
<1>3. Append(y, AfterValue(c)) \in Seq(Contexts)
  BY <1>2, AppendProperties
<1> DEFINE two(u, v) == y \o <<u, v>>
<1> HIDE DEF two
<1>6. \A u, v \in Contexts : two(u, v) = Append(Append(y, u), v)
  BY AppendTwo DEF two
<1>4. Accept(cs, "[") = Append(Append(y, AfterValue(c)), "A0")
  <2>1. Accept(cs, "[") = two(AfterValue(c), "A0")
    BY <1>1, <1>2, FitsHere, ZenonT(60) DEF Becomes, two
  <2> QED BY <1>2, <1>6, <2>1
<1>5. Accept(cs, "{") = Append(Append(y, AfterValue(c)), "O0")
  <2>1. Becomes(c, "{") = <<AfterValue(c), "O0">>
    BY DEF Becomes
  <2>2. Accept(cs, "{") = two(AfterValue(c), "O0")
    BY <1>1, <1>2, <2>1, FitsHere DEF two
  <2> QED BY <1>2, <1>6, <2>2
<1> QED BY <1>1, <1>3, <1>4, <1>5

(* A bracket that closes the loop of f.                                    *)
Closing(f) == IF f.fn \in {"list", "tuple"} THEN "]" ELSE "}"

LEMMA ClosingRead ==
  ASSUME NEW s \in Seq(GoodFrame), NEW f \in GoodFrame, NEW cs, StepDue(s, f, cs)
  PROVE  Full(s, Accept(cs, Closing(f)))
<1>1. PICK z \in Seq(Contexts), c \in Contexts :
        Full(s, z) /\ InLoop(f, c) /\ cs = Append(z, c)
  BY DEF StepDue
<1>2. Closing(f) \in Marks /\ Fits(c, Closing(f))
  BY <1>1 DEF Closing, Marks, InLoop, AfterElement, Fits
<1>3. Becomes(c, Closing(f)) = <<>>
  BY DEF Becomes, Closing
<1>4. Accept(cs, Closing(f)) = z \o <<>>
  BY <1>1, <1>2, <1>3, FitsHere
<1> QED BY <1>1, <1>4, ConcatEmptySeq

(* What is written before an element, by f in the loop's step that g       *)
(* leads to.                                                               *)
LEMMA ElementRead ==
  ASSUME NEW s \in Seq(GoodFrame), NEW f \in GoodFrame, NEW g \in GoodFrame, NEW cs,
         StepDue(s, f, cs), f.fn \in {"list", "tuple"}, g.fn = f.fn, Begun(g)
  PROVE  ValueDue(Append(s, g), IF Begun(f) THEN Accept(cs, ",") ELSE cs)
<1>1. PICK z \in Seq(Contexts), c \in Contexts :
        Full(s, z) /\ InLoop(f, c) /\ cs = Append(z, c)
  BY DEF StepDue
<1>2. Full(Append(s, g), Append(z, "A1"))
  BY <1>1, FullPush DEF Nest, AfterElement, Containers
<1>3. CASE Begun(f)
  <2>1. c = "A1" /\ "," \in Marks /\ Fits(c, ",")
    BY <1>1, <1>3 DEF InLoop, AfterElement, Marks, Fits
  <2>2. Accept(cs, ",") = z \o <<"A2">>
    BY <1>1, <2>1, FitsHere DEF Becomes
  <2>3. Accept(cs, ",") = Append(z, "A2") /\ "A2" \in ExpectsValue /\ AfterValue("A2") = "A1"
    BY <2>2, AppendIsConcat DEF Contexts, ExpectsValue, AfterValue
  <2> QED BY <1>2, <1>3, <2>3 DEF ValueDue
<1>4. CASE ~Begun(f)
  <2>1. c = "A0" /\ "A0" \in ExpectsValue /\ AfterValue("A0") = "A1"
    BY <1>1, <1>4 DEF InLoop, ExpectsValue, AfterValue
  <2> QED BY <1>1, <1>2, <1>4, <2>1 DEF ValueDue
<1> QED BY <1>3, <1>4

LEMMA MemberRead ==
  ASSUME NEW s \in Seq(GoodFrame), NEW f \in GoodFrame, NEW g \in GoodFrame, NEW cs,
         StepDue(s, f, cs), f.fn \in {"dict", "sorted"}, g.fn = f.fn, Begun(g)
  PROVE  ValueDue(Append(s, g), Accept(IF Begun(f) THEN Accept(cs, ",") ELSE cs, "k"))
<1>1. PICK z \in Seq(Contexts), c \in Contexts :
        Full(s, z) /\ InLoop(f, c) /\ cs = Append(z, c)
  BY DEF StepDue
<1>2. Full(Append(s, g), Append(z, "O1"))
  BY <1>1, FullPush DEF Nest, AfterElement, Containers
<1>3. \A d \in {"O0", "O2"} : Accept(Append(z, d), "k") = Append(z, "OV")
  <2> SUFFICES ASSUME NEW d \in {"O0", "O2"} PROVE Accept(Append(z, d), "k") = Append(z, "OV")
    OBVIOUS
  <2>1. d \in Contexts /\ "k" \in Marks /\ Fits(d, "k") /\ "OV" \in Contexts
    BY DEF Contexts, Marks, Fits
  <2>2. Accept(Append(z, d), "k") = z \o <<"OV">>
    BY <2>1, FitsHere DEF Becomes
  <2> QED BY <2>1, <2>2, AppendIsConcat
<1>4. "OV" \in ExpectsValue /\ AfterValue("OV") = "O1"
  BY DEF ExpectsValue, AfterValue
<1>5. CASE Begun(f)
  <2>1. c = "O1" /\ "," \in Marks /\ Fits(c, ",")
    BY <1>1, <1>5 DEF InLoop, AfterElement, Marks, Fits
  <2>2. Accept(cs, ",") = z \o <<"O2">>
    BY <1>1, <2>1, FitsHere DEF Becomes
  <2>3. Accept(cs, ",") = Append(z, "O2")
    BY <2>2, AppendIsConcat DEF Contexts
  <2> QED BY <1>2, <1>3, <1>4, <1>5, <2>3 DEF ValueDue
<1>6. CASE ~Begun(f)
  <2>1. c = "O0"
    BY <1>1, <1>6 DEF InLoop
  <2> QED BY <1>1, <1>2, <1>3, <1>4, <1>6, <2>1 DEF ValueDue
<1> QED BY <1>5, <1>6

(* A value is complete in the loop of f.                                   *)
LEMMA LoopGoesOn ==
  ASSUME NEW s \in Seq(GoodFrame), NEW f \in GoodFrame, f.fn \in Containers, NEW cs,
         Full(Append(s, f), cs)
  PROVE  StepDue(s, f, cs)
<1>1. Begun(f) /\ \E z \in Seq(Contexts) : Full(s, z) /\ cs = Append(z, AfterElement(f))
  BY FullPop DEF Nest
<1>2. InLoop(f, AfterElement(f)) /\ AfterElement(f) \in Contexts
  BY <1>1 DEF InLoop, AfterElement, Contexts
<1> QED BY <1>1, <1>2 DEF StepDue

(* A whole array.                                                          *)
LEMMA ArrayRead ==
  ASSUME NEW s \in Seq(GoodFrame), NEW cs, ValueDue(s, cs), NEW t \in ArrayTexts
  PROVE  Full(s, End(cs, t))
<1>1. PICK z \in Seq(Contexts), c \in ExpectsValue :
        Full(s, Append(z, AfterValue(c))) /\ cs = Append(z, c)
  BY DEF ValueDue
<1>2. t \in Seq(Marks) /\ End(<<"T0">>, t) = <<"T1">>
  BY EncoderAssumption, GrammarAssumption DEF Parse, End
<1> QED BY <1>1, <1>2, ValueAnywhere

-----------------------------------------------------------------------------
(* The contexts after the text t.                                          *)
After(t) == Parse(MarksOf(t))

LEMMA MarksType ==
  ASSUME NEW t \in Seq(Marks \X Obj)
  PROVE  /\ MarksOf(t) \in Seq(Marks) /\ Len(MarksOf(t)) = Len(t)
         /\ \A n \in 1 .. Len(t) : MarksOf(t)[n] = t[n][1]
         /\ After(t) = End(<<"T0">>, MarksOf(t))
<1> DEFINE m == MarksOf(t)
<1>1. Len(t) \in Nat /\ DOMAIN t = 1 .. Len(t) /\ \A n \in 1 .. Len(t) : t[n] \in Marks \X Obj
  OBVIOUS
<1>2. \A n \in 1 .. Len(t) : t[n][1] \in Marks
  BY <1>1
<1>3. m = [n \in 1 .. Len(t) |-> t[n][1]]
  BY <1>1 DEF MarksOf
<1> HIDE DEF m
<1>4. m \in [1 .. Len(t) -> Marks] /\ \A n \in 1 .. Len(t) : m[n] = t[n][1]
  BY <1>2, <1>3
<1>5. m \in Seq(Marks) /\ Len(m) = Len(t)
  BY <1>1, <1>4
<1> QED BY <1>4, <1>5 DEF m, After, Parse, End

LEMMA DocumentStart == <<"T0">> \in Seq(Contexts) /\ <<"T1">> \in Seq(Contexts)
BY DEF Contexts

LEMMA Joined ==
  ASSUME NEW S, NEW s \in Seq(S), NEW t \in Seq(S)
  PROVE  /\ s \o t \in Seq(S) /\ Len(s \o t) = Len(s) + Len(t)
         /\ \A i \in 1 .. Len(s) + Len(t) :
              (s \o t)[i] = IF i <= Len(s) THEN s[i] ELSE t[i - Len(s)]
BY ConcatProperties

(* Emitted marks are read after what the buffer holds.                     *)
LEMMA Emitted ==
  ASSUME out \in Seq(Marks \X Obj), NEW ms \in Seq(Marks), NEW o \in Obj
  PROVE  After(Emit(ms, o)) = End(After(out), ms)
<1> DEFINE u == [i \in DOMAIN ms |-> <<ms[i], o>>]
           e == Emit(ms, o)
<1>1. Len(ms) \in Nat /\ DOMAIN ms = 1 .. Len(ms) /\ \A i \in 1 .. Len(ms) : ms[i] \in Marks
  OBVIOUS
<1>2. /\ u \in Seq(Marks \X Obj) /\ Len(u) = Len(ms)
      /\ \A i \in 1 .. Len(ms) : u[i] = <<ms[i], o>>
  <2>1. u \in [1 .. Len(ms) -> Marks \X Obj]
    BY <1>1
  <2> QED BY <1>1, <2>1
<1>3. e = out \o u
  BY DEF Emit
<1> HIDE DEF u, e
<1>4. /\ e \in Seq(Marks \X Obj) /\ Len(e) = Len(out) + Len(ms)
      /\ \A i \in 1 .. Len(out) + Len(ms) :
           e[i] = IF i <= Len(out) THEN out[i] ELSE u[i - Len(out)]
  <2>1. u \in Seq(Marks \X Obj) /\ Len(u) = Len(ms)
    BY <1>2
  <2> DEFINE S == Marks \X Obj
  <2>2. u \in Seq(S) /\ out \in Seq(S)
    BY <2>1
  <2> HIDE DEF S
  <2>3. /\ e \in Seq(S) /\ Len(e) = Len(out) + Len(u)
        /\ \A i \in 1 .. Len(out) + Len(u) :
             e[i] = IF i <= Len(out) THEN out[i] ELSE u[i - Len(out)]
    BY <1>3, <2>2, Joined
  <2> QED BY <2>1, <2>3 DEF S
<1> DEFINE a == MarksOf(out)
           b == MarksOf(e)
           c == a \o ms
<1>5. /\ a \in Seq(Marks) /\ Len(a) = Len(out) /\ \A n \in 1 .. Len(out) : a[n] = out[n][1]
      /\ b \in Seq(Marks) /\ Len(b) = Len(e) /\ \A n \in 1 .. Len(e) : b[n] = e[n][1]
      /\ After(out) = End(<<"T0">>, a) /\ After(e) = End(<<"T0">>, b)
  BY <1>4, MarksType
<1> HIDE DEF a, b
<1>6. /\ c \in Seq(Marks) /\ Len(c) = Len(a) + Len(ms)
      /\ \A i \in 1 .. Len(a) + Len(ms) : c[i] = IF i <= Len(a) THEN a[i] ELSE ms[i - Len(a)]
  <2>1. a \in Seq(Marks)
    BY <1>5
  <2> QED BY <2>1, Joined
<1>7. End(<<"T0">>, c) = End(End(<<"T0">>, a), ms)
  BY <1>5, DocumentStart, EndConcat
<1> HIDE DEF c
<1>8. Len(out) \in Nat
  OBVIOUS
<1>9. ASSUME NEW i \in 1 .. Len(b) PROVE b[i] = c[i]
  <2>1. i \in 1 .. Len(out) + Len(ms) /\ i \in 1 .. Len(e) /\ i \in 1 .. Len(a) + Len(ms)
    BY <1>4, <1>5
  <2>2. CASE i <= Len(out)
    <3>1. i \in 1 .. Len(out)
      BY <1>8, <2>1, <2>2
    <3> QED BY <1>4, <1>5, <1>6, <2>1, <2>2, <3>1, ZenonT(60)
  <2>3. CASE ~(i <= Len(out))
    <3>1. i - Len(out) \in 1 .. Len(ms)
      BY <1>1, <1>8, <2>1, <2>3
    <3>2. e[i] = <<ms[i - Len(out)], o>>
      BY <1>2, <1>4, <2>1, <2>3, <3>1
    <3>3. b[i] = ms[i - Len(out)]
      BY <1>5, <2>1, <3>2
    <3> QED BY <1>5, <1>6, <2>1, <2>3, <3>3
  <2> QED BY <2>2, <2>3
<1>10. b = c
  BY <1>4, <1>5, <1>6, <1>9, SeqEqual
<1> QED BY <1>5, <1>7, <1>10 DEF e

(* One mark, and two.                                                      *)
LEMMA EmittedMarks ==
  ASSUME out \in Seq(Marks \X Obj), NEW o \in Obj
  PROVE  /\ After(out) \in Seq(Contexts)
         /\ \A m \in Marks : After(Emit(<<m>>, o)) = Accept(After(out), m)
         /\ \A l, m \in Marks : After(Emit(<<l, m>>, o)) = Accept(Accept(After(out), l), m)
<1> DEFINE P == After(out)
<1>1. P \in Seq(Contexts)
  BY MarksType, DocumentStart, EndType
<1> HIDE DEF P
<1>2. ASSUME NEW m \in Marks PROVE After(Emit(<<m>>, o)) = Accept(P, m)
  <2>1. <<m>> \in Seq(Marks) /\ End(P, <<m>>) = Accept(P, m)
    BY <1>1, EndOne
  <2> QED BY <2>1, Emitted DEF P
<1>3. ASSUME NEW l \in Marks, NEW m \in Marks
      PROVE  After(Emit(<<l, m>>, o)) = Accept(Accept(P, l), m)
  <2> DEFINE a == <<l>>
             b == <<m>>
             c == <<l, m>>
  <2>1. a \in Seq(Marks) /\ b \in Seq(Marks) /\ c = a \o b
    BY TwoMarks
  <2>2. End(P, a) = Accept(P, l) /\ Accept(P, l) \in Seq(Contexts)
    BY <1>1, EndOne, AcceptType
  <2>3. End(Accept(P, l), b) = Accept(Accept(P, l), m)
    BY <2>2, EndOne
  <2> HIDE DEF a, b, c
  <2>4. c \in Seq(Marks) /\ End(P, c) = End(End(P, a), b)
    BY <1>1, <2>1, EndConcat
  <2>5. After(Emit(c, o)) = End(P, c)
    BY <2>4, Emitted DEF P
  <2> QED BY <2>2, <2>3, <2>4, <2>5 DEF c
<1> QED BY <1>1, <1>2, <1>3 DEF P

LEMMA EmittedKey ==
  ASSUME out \in Seq(Marks \X Obj), NEW o \in Obj, NEW b \in BOOLEAN
  PROVE  LET cs == IF b THEN After(out) ELSE Accept(After(out), ",")
         IN  /\ After(Emit(Comma(b), o)) = cs
             /\ After(Emit(KeyMarks(b), o)) = Accept(cs, "k")
<1> DEFINE P == After(out)
           key == <<"k">>
           comma == Comma(b)
           cs == IF b THEN P ELSE Accept(P, ",")
<1>1. P \in Seq(Contexts) /\ "," \in Marks /\ "k" \in Marks
  BY EmittedMarks DEF Marks
<1>2. key \in Seq(Marks) /\ comma \in Seq(Marks) /\ KeyMarks(b) \in Seq(Marks)
      /\ KeyMarks(b) = comma \o key
  BY MarkSeqs, <1>1 DEF KeyMarks
<1>3. End(P, comma) = cs
  <2>1. CASE b
    <3>1. comma = <<>> /\ cs = P
      BY <2>1 DEF Comma
    <3> HIDE DEF key, comma, cs, P
    <3>2. End(P, <<>>) = P
      BY <1>1, <1>2, EndType
    <3> QED BY <3>1, <3>2
  <2>2. CASE ~b
    BY <1>1, <2>2, EndOne DEF Comma
  <2> QED BY <2>1, <2>2
<1>4. cs \in Seq(Contexts)
  BY <1>1, AcceptType
<1>5. End(cs, key) = Accept(cs, "k")
  BY <1>1, <1>4, EndOne
<1> HIDE DEF key, comma, cs, P
<1>6. End(P, comma \o key) = End(End(P, comma), key)
  BY <1>1, <1>2, EndConcat, ZenonT(60)
<1>7. After(Emit(comma, o)) = End(P, comma) /\ After(Emit(KeyMarks(b), o)) = End(P, KeyMarks(b))
  BY <1>2, Emitted DEF P
<1> QED BY <1>2, <1>3, <1>5, <1>6, <1>7 DEF cs, P, comma

-----------------------------------------------------------------------------
(* The text answers to the stack at every moment until something fails.    *)
StepsDue(s, cs) ==
  \E z \in Seq(GoodFrame), f \in GoodFrame : s = Append(z, f) /\ StepDue(z, f, cs)

(* Python was called by f, on top of s.                                    *)
CallDue(s, f, t) ==
  IF f.fn = "del"
    THEN IF f.next = "step" THEN StepsDue(s, After(t)) ELSE Full(s, After(t))
    ELSE ValueDue(s, After(t)) /\ (f.fn = "array" => f.pos = Len(t))

(* The text before the array of f is what is going to be left of t.        *)
BackDue(s, f, t) == f.pos <= Len(t) /\ ValueDue(s, After(SubSeq(t, 1, f.pos)))

TextOK(p, s, o, t) ==
  /\ After(t) # <<>>
  /\ p = "done" => s = <<>>
  /\ o => CASE p = "call" -> ValueDue(s, After(t))
            [] p \in {"ret", "done"} -> Full(s, After(t))
            [] p = "step" -> StepsDue(s, After(t))
            [] p = "python" -> \E z \in Seq(GoodFrame), f \in GoodFrame :
                                 s = Append(z, f) /\ CallDue(z, f, t)
            [] p = "rollback" -> \E z \in Seq(GoodFrame), f \in GoodFrame :
                                   s = Append(z, f) /\ BackDue(z, f, t)

TextInv == ShapeInv /\ TextOK(pc, stack, ok, out)

LEMMA TextMoves ==
  ASSUME NEW s \in Seq(GoodFrame), NEW t
  PROVE  /\ ValueDue(s, After(t)) => \A o \in BOOLEAN : TextOK("call", s, o, t)
         /\ Full(s, After(t)) => \A o \in BOOLEAN : TextOK("ret", s, o, t)
         /\ StepsDue(s, After(t)) => \A o \in BOOLEAN : TextOK("step", s, o, t)
         /\ \A f \in GoodFrame : StepDue(s, f, After(t)) =>
              \A o \in BOOLEAN : TextOK("step", Append(s, f), o, t)
         /\ \A f \in GoodFrame : CallDue(s, f, t) =>
              \A o \in BOOLEAN : TextOK("python", Append(s, f), o, t)
         /\ \A f \in GoodFrame : BackDue(s, f, t) /\ After(t) # <<>> =>
              \A o \in BOOLEAN : TextOK("rollback", Append(s, f), o, t)
         /\ After(t) # <<>> => \A p \in {"ret", "step"} : TextOK(p, s, FALSE, t)
<1>1. ValueDue(s, After(t)) => After(t) # <<>>
  BY DueTypes
<1>2. Full(s, After(t)) => After(t) # <<>>
  BY FullLive
<1>3. \A f : StepDue(s, f, After(t)) => After(t) # <<>>
  BY DueTypes
<1>4. \A z : \A f : StepDue(z, f, After(t)) => After(t) # <<>>
  BY DueTypes
<1>5. StepsDue(s, After(t)) => After(t) # <<>>
  BY <1>4 DEF StepsDue
<1>6. \A f \in GoodFrame : CallDue(s, f, t) => After(t) # <<>>
  BY <1>1, <1>2, <1>5 DEF CallDue
<1>7. ValueDue(s, After(t)) => \A o \in BOOLEAN : TextOK("call", s, o, t)
  BY <1>1 DEF TextOK
<1>8. Full(s, After(t)) => \A o \in BOOLEAN : TextOK("ret", s, o, t)
  BY <1>2 DEF TextOK
<1>9. StepsDue(s, After(t)) => \A o \in BOOLEAN : TextOK("step", s, o, t)
  BY <1>5 DEF TextOK
<1>10. ASSUME NEW f \in GoodFrame, StepDue(s, f, After(t)), NEW o \in BOOLEAN
       PROVE  TextOK("step", Append(s, f), o, t)
  BY <1>3, <1>10 DEF TextOK, StepsDue
<1>11. ASSUME NEW f \in GoodFrame, CallDue(s, f, t), NEW o \in BOOLEAN
       PROVE  TextOK("python", Append(s, f), o, t)
  BY <1>6, <1>11 DEF TextOK
<1>12. ASSUME NEW f \in GoodFrame, BackDue(s, f, t), After(t) # <<>>, NEW o \in BOOLEAN
       PROVE  TextOK("rollback", Append(s, f), o, t)
  BY <1>12 DEF TextOK
<1>13. After(t) # <<>> => \A p \in {"ret", "step"} : TextOK(p, s, FALSE, t)
  BY DEF TextOK
<1> QED BY <1>7, <1>8, <1>9, <1>10, <1>11, <1>12, <1>13

(* What TextInv says of the top frame.                                     *)
LEMMA TextFacts ==
  ASSUME TextInv, ok
  PROVE  /\ After(out) # <<>>
         /\ pc = "call" => ValueDue(stack, After(out))
         /\ pc = "ret" => Full(stack, After(out))
         /\ pc = "step" => StepDue(Below, Top, After(out))
         /\ pc = "python" => CallDue(Below, Top, out)
         /\ pc = "rollback" => BackDue(Below, Top, out)
<1>1. /\ TypeInv /\ stack \in Seq(GoodFrame)
      /\ pc \in {"step", "python", "rollback"} =>
           Height > 0 /\ Below \in Seq(GoodFrame) /\ Top \in GoodFrame /\ stack = Append(Below, Top)
  <2>1. TypeInv /\ stack \in Seq(GoodFrame) /\ ShapeInv
    BY DEF TextInv, ShapeInv, TypeInv
  <2>2. pc \in {"step", "python", "rollback"} => Height > 0
    BY <2>1, ShapeFacts
  <2>3. Height > 0 => Below \in Seq(GoodFrame) /\ Top \in GoodFrame
    BY <2>1, StackFacts DEF GoodFrame
  <2>4. Height > 0 => stack = Append(Below, Top)
    BY <2>1, StackMoves
  <2> QED BY <2>1, <2>2, <2>3, <2>4
<1>2. TextOK(pc, stack, ok, out)
  BY DEF TextInv
<1>3. \A z \in Seq(GoodFrame), f \in GoodFrame :
        pc \in {"step", "python", "rollback"} /\ stack = Append(z, f) => z = Below /\ f = Top
  BY <1>1, AppendInjective
<1>4. After(out) # <<>> /\ (pc = "call" => ValueDue(stack, After(out)))
      /\ (pc = "ret" => Full(stack, After(out)))
  BY <1>2 DEF TextOK
<1>5. pc = "step" => StepDue(Below, Top, After(out))
  BY <1>2, <1>3 DEF TextOK, StepsDue
<1>6. pc = "python" => CallDue(Below, Top, out)
  BY <1>2, <1>3 DEF TextOK
<1>7. pc = "rollback" => BackDue(Below, Top, out)
  BY <1>2, <1>3 DEF TextOK
<1> QED BY <1>4, <1>5, <1>6, <1>7

(* Python is called, by a frame that is not an array.                      *)
LEMMA TextCall ==
  ASSUME NEW s \in Seq(GoodFrame), NEW t, ValueDue(s, After(t)),
         NEW g \in {"default", "utcoffset", "probe", "digits"}, NEW o \in Obj
  PROVE  TextOK("python", Append(s, Call(g, o)), TRUE, t)
<1>1. Call(g, o) \in GoodFrame /\ Call(g, o).fn = g
  BY CallGood, CallFrame DEF Fns
<1>2. CallDue(s, Call(g, o), t)
  BY <1>1 DEF CallDue
<1> QED BY <1>1, <1>2, TextMoves

LEMMA TextInvokeDefault ==
  ASSUME NEW s \in Seq(GoodFrame), NEW t, ValueDue(s, After(t)), NEW o \in Obj, ok = TRUE,
         InvokeDefault(o, s)
  PROVE  TextOK(pc', stack', ok', t)
<1>1. TextOK("python", Append(s, Call("default", o)), TRUE, t)
  BY TextCall
<1>2. TextOK("ret", s, FALSE, t)
  BY TextMoves, DueTypes
<1> QED BY <1>1, <1>2 DEF InvokeDefault, Return

(* A finalizer may run before the walk goes on.                            *)
LEMMA TextDecref ==
  ASSUME NEW s \in Seq(GoodFrame), NEW t, NEW drop, NEW next \in {"ret", "step"},
         next = "ret" => Full(s, After(t)), next = "step" => StepsDue(s, After(t)),
         Decref(drop, s, next)
  PROVE  TextOK(pc', stack', TRUE, t)
<1> DEFINE f == [Call("del", Root) EXCEPT !.next = next]
<1>1. f \in GoodFrame /\ f.fn = "del" /\ f.next = next
  <2>1. Call("del", Root) \in Frame /\ Call("del", Root).fn = "del"
    BY CallFrame, EncoderAssumption DEF Fns
  <2>2. f \in Frame /\ f.fn = "del" /\ f.next = next
    BY <2>1 DEF Frame
  <2> HIDE DEF f
  <2> QED BY <2>2 DEF GoodFrame, FrameOK
<1>2. \/ pc' = next /\ stack' = s
      \/ pc' = "python" /\ stack' = Append(s, f)
  BY DEF Decref
<1> HIDE DEF f
<1>3. CallDue(s, f, t)
  BY <1>1 DEF CallDue
<1>4. TextOK("python", Append(s, f), TRUE, t)
  BY <1>1, <1>3, TextMoves
<1>5. TextOK(next, s, TRUE, t)
  BY TextMoves
<1> QED BY <1>2, <1>4, <1>5

LEMMA EmptyRead ==
  ASSUME NEW s \in Seq(GoodFrame), NEW cs, ValueDue(s, cs)
  PROVE  /\ Full(s, Accept(Accept(cs, "["), "]"))
         /\ Full(s, Accept(Accept(cs, "{"), "}"))
<1>1. "A0" \in Contexts /\ "O0" \in Contexts /\ "]" \in Marks /\ "}" \in Marks
      /\ Fits("A0", "]") /\ Fits("O0", "}")
  BY DEF Contexts, Marks, Fits
<1>2. PICK z \in Seq(Contexts) : Full(s, z) /\ Accept(cs, "[") = Append(z, "A0")
  BY BracketRead
<1>3. PICK y \in Seq(Contexts) : Full(s, y) /\ Accept(cs, "{") = Append(y, "O0")
  BY BracketRead
<1>4. Accept(Append(z, "A0"), "]") = z \o <<>>
  BY <1>1, FitsHere, ZenonT(60) DEF Becomes
<1>5. Accept(Append(y, "O0"), "}") = y \o <<>>
  BY <1>1, FitsHere, ZenonT(60) DEF Becomes
<1> QED BY <1>2, <1>3, <1>4, <1>5, ConcatEmptySeq

(* A loop begins behind its bracket.                                       *)
LEMMA LoopBegins ==
  ASSUME NEW s \in Seq(GoodFrame), NEW cs, ValueDue(s, cs), NEW f \in GoodFrame,
         f.fn \in {"list", "tuple", "dict", "sorted"}, f.pos = 0, f.first = TRUE
  PROVE  StepDue(s, f, Accept(cs, IF f.fn \in {"list", "tuple"} THEN "[" ELSE "{"))
<1>1. "A0" \in Contexts /\ "O0" \in Contexts
  BY DEF Contexts
<1>2. InLoop(f, IF f.fn \in {"list", "tuple"} THEN "A0" ELSE "O0")
  BY DEF InLoop, Begun
<1>3. PICK z \in Seq(Contexts) : Full(s, z) /\ Accept(cs, "[") = Append(z, "A0")
  BY BracketRead
<1>4. PICK y \in Seq(Contexts) : Full(s, y) /\ Accept(cs, "{") = Append(y, "O0")
  BY BracketRead
<1> QED BY <1>1, <1>2, <1>3, <1>4 DEF StepDue

LEMMA TextOpen ==
  ASSUME TypeInv, pc = "call", ValueDue(stack, After(out)), Open
  PROVE  TextOK(pc', stack', ok, out')
<1> DEFINE g == IF DictLike(arg) THEN "dict" ELSE IF ListLike(arg) THEN "list" ELSE "tuple"
           f == Call(g, arg)
           m == Brackets(arg)[1]
<1>1. arg \in Obj /\ Container(arg) /\ pc' = "step" /\ stack' = Append(stack, f)
      /\ out' = Emit(<<m>>, arg) /\ ok \in BOOLEAN /\ stack \in Seq(GoodFrame)
      /\ out \in Seq(Marks \X Obj)
  BY DEF Open, Opening, TypeInv
<1>2. g \in {"dict", "list", "tuple"} /\ m = IF g \in {"list", "tuple"} THEN "[" ELSE "{"
  BY DEF Brackets
<1>3. /\ g \in {"list", "tuple"} => Kind[arg] \in {"list", "tuple"}
      /\ g = "dict" => Kind[arg] = "dict"
  BY <1>1 DEF Container, ListLike, TupleLike, DictLike
<1> HIDE DEF g, m
<1>4. f \in GoodFrame /\ f.fn = g /\ f.pos = 0 /\ f.first = TRUE
  <2>1. f \in GoodFrame
    BY <1>1, <1>2, <1>3, CallGood DEF Fns
  <2> QED BY <2>1 DEF Call
<1>5. After(out') = Accept(After(out), m)
  <2>1. m \in Marks
    BY <1>2 DEF Marks
  <2> QED BY <1>1, <2>1, EmittedMarks
<1> HIDE DEF f
<1>6. StepDue(stack, f, After(out'))
  BY <1>1, <1>2, <1>4, <1>5, LoopBegins
<1> QED BY <1>1, <1>4, <1>6, TextMoves

(* No sorted loop opens on a dict with a bad key: the walk fails at once.  *)
LEMMA TextOpenSorted ==
  ASSUME TypeInv, pc = "call", ValueDue(stack, After(out)), ok, OpenSorted
  PROVE  TextOK(pc', stack', ok', out')
<1> DEFINE es == items[arg]
           g(x) == [Call("sorted", arg) EXCEPT !.snap = es, !.order = x]
<1>1. arg \in Obj /\ pc' = "step" /\ stack \in Seq(GoodFrame) /\ out \in Seq(Marks \X Obj)
      /\ DictLike(arg) /\ out' = Emit(<<Brackets(arg)[1]>>, arg)
  BY DEF OpenSorted, Opening, TypeInv
<1>2. out' = Emit(<<"{">>, arg)
  BY <1>1 DEF Brackets
<1>3. After(out') = Accept(After(out), "{")
  BY <1>1, <1>2, EmittedMarks DEF Marks
<1>4. After(out') # <<>>
  <2>1. PICK z \in Seq(Contexts) : Accept(After(out), "{") = Append(z, "O0")
    BY <1>1, BracketRead
  <2>2. "O0" \in Contexts
    BY DEF Contexts
  <2>3. \A c \in Contexts : Append(z, c) # <<>>
    BY AppendProperties
  <2> QED BY <1>3, <2>1, <2>2, <2>3
<1>5. CASE ok' = FALSE
  <2>1. stack' \in Seq(GoodFrame)
    BY TypeOpenSorted DEF TypeInv
  <2>2. TextOK("step", stack', FALSE, out')
    BY <1>4, <2>1, TextMoves
  <2> QED BY <1>1, <1>5, <2>2
<1>6. CASE \E x \in Sorted(es) : stack' = Append(stack, g(x)) /\ ok' = ok
  <2>1. PICK x \in Sorted(es) : stack' = Append(stack, g(x)) /\ ok' = ok
    BY <1>6
  <2>2. stack' \in Seq(GoodFrame)
    BY TypeOpenSorted DEF TypeInv
  <2> DEFINE f == g(x)
  <2>3. f.fn = "sorted" /\ f.pos = 0 /\ f.first = TRUE
    BY DEF Call
  <2>4. stack' = Append(stack, f) /\ ok' = ok
    BY <2>1
  <2> HIDE DEF f
  <2>5. f \in GoodFrame
    <3>1. Len(stack') = Len(stack) + 1 /\ stack'[Len(stack) + 1] = f /\ Len(stack) \in Nat
      BY <1>1, <2>4
    <3>2. Len(stack) + 1 \in 1 .. Len(stack')
      BY <3>1
    <3> QED BY <2>2, <3>1, <3>2, ElementOfSeq
  <2>6. StepDue(stack, f, After(out'))
    BY <1>1, <1>3, <2>3, <2>5, LoopBegins
  <2> QED BY <1>1, <2>4, <2>5, <2>6, TextMoves DEF TypeInv
<1> QED BY <1>5, <1>6 DEF OpenSorted

LEMMA TextSerialize ==
  ASSUME TextInv, ok, Serialize
  PROVE  TextOK(pc', stack', ok', out')
<1>1. pc \in {"call", "rollback"}
  BY DEF Serialize, WriteScalar, RejectScalar, WriteHugeInt, EnterTooDeep, WriteEmpty, Open,
         OpenSorted, Opening, WriteDate, CallUtcoffset, LateDatetime, LateDatetimeFails,
         NumpyHit, NumpyProbe, CallDefault, PastDatetime, Rollback
<1>2. /\ ok = TRUE /\ arg \in Obj /\ stack \in Seq(GoodFrame) /\ TypeInv /\ ShapeInv
      /\ out \in Seq(Marks \X Obj) /\ After(out) # <<>>
      /\ pc = "call" => ValueDue(stack, After(out))
      /\ pc = "rollback" => BackDue(Below, Top, out)
  BY TextFacts DEF TextInv, ShapeInv, TypeInv
<1>3. CASE WriteScalar \/ WriteDate
  <2>1. pc = "call" /\ pc' = "ret" /\ ok' = TRUE /\ stack' = stack /\ out' = Emit(<<"v">>, arg)
    BY <1>3 DEF WriteScalar, WriteDate, Return
  <2>2. After(out') = Accept(After(out), "v")
    BY <1>2, <2>1, EmittedMarks DEF Marks
  <2>3. Full(stack, After(out'))
    BY <1>2, <2>1, <2>2, ScalarRead
  <2> QED BY <1>2, <2>1, <2>3, TextMoves
<1>4. CASE RejectScalar \/ EnterTooDeep \/ LateDatetimeFails
  <2>1. pc' = "ret" /\ ok' = FALSE /\ stack' = stack /\ out' = out
    BY <1>4 DEF RejectScalar, EnterTooDeep, LateDatetimeFails, Return
  <2> QED BY <1>2, <2>1, TextMoves
<1>5. CASE WriteHugeInt \/ CallUtcoffset \/ NumpyProbe
  <2>1. PICK g \in {"digits", "utcoffset", "probe"} :
          /\ pc = "call" /\ pc' = "python" /\ ok' = ok /\ out' = out
          /\ stack' = Append(stack, Call(g, arg))
    BY <1>5 DEF WriteHugeInt, CallUtcoffset, NumpyProbe, PastDatetime
  <2> QED BY <1>2, <2>1, TextCall
<1>6. CASE NumpyHit
  <2> DEFINE f == [Call("array", arg) EXCEPT !.pos = Len(out)]
  <2>1. f \in Frame /\ f.fn = "array" /\ f.pos = Len(out)
    <3>1. Call("array", arg) \in Frame /\ Call("array", arg).fn = "array"
      BY <1>2, CallFrame DEF Fns
    <3>2. Len(out) \in Nat
      BY <1>2
    <3> QED BY <3>1, <3>2, FrameUpdates
  <2>2. pc = "call" /\ pc' = "python" /\ ok' = ok /\ stack' = Append(stack, f) /\ out' = out
    BY <1>6 DEF NumpyHit, PastDatetime
  <2> HIDE DEF f
  <2>3. f \in GoodFrame
    BY <2>1 DEF GoodFrame, FrameOK
  <2>4. CallDue(stack, f, out)
    BY <1>2, <2>1, <2>2 DEF CallDue
  <2> QED BY <1>2, <2>2, <2>3, <2>4, TextMoves
<1>7. CASE WriteEmpty
  <2>1. pc = "call" /\ pc' = "ret" /\ ok' = TRUE /\ stack' = stack
        /\ out' = Emit(Brackets(arg), arg)
    BY <1>7 DEF WriteEmpty, Return
  <2>2. "[" \in Marks /\ "]" \in Marks /\ "{" \in Marks /\ "}" \in Marks
    BY DEF Marks
  <2>3. Brackets(arg) = <<"[", "]">> \/ Brackets(arg) = <<"{", "}">>
    BY DEF Brackets
  <2> DEFINE two(l, m) == Emit(<<l, m>>, arg)
  <2>6. out' = two("[", "]") \/ out' = two("{", "}")
    BY <2>1, <2>3
  <2>7. \A l, m \in Marks : After(two(l, m)) = Accept(Accept(After(out), l), m)
    BY <1>2, EmittedMarks
  <2> HIDE DEF two
  <2>4. \/ After(out') = Accept(Accept(After(out), "["), "]")
        \/ After(out') = Accept(Accept(After(out), "{"), "}")
    BY <2>2, <2>6, <2>7
  <2>5. Full(stack, After(out'))
    BY <1>2, <2>1, <2>4, EmptyRead
  <2> QED BY <1>2, <2>1, <2>5, TextMoves
<1>8. CASE Open
  <2>1. pc = "call" /\ ok' = ok
    BY <1>8 DEF Open, Opening
  <2> QED BY <1>2, <1>8, <2>1, TextOpen
<1>9. CASE OpenSorted
  <2>1. pc = "call"
    BY <1>9 DEF OpenSorted, Opening
  <2> QED BY <1>2, <1>9, <2>1, TextOpenSorted
<1>10. CASE LateDatetime
  <2>1. pc' = pc /\ pc = "call" /\ ok' = ok /\ stack' = stack /\ out' = out
    BY <1>10 DEF LateDatetime
  <2> QED BY <1>2, <2>1, TextMoves
<1>11. CASE CallDefault
  <2>1. pc = "call" /\ InvokeDefault(arg, stack) /\ out' = out
    BY <1>11 DEF CallDefault, PastDatetime
  <2> QED BY <1>2, <2>1, TextInvokeDefault
<1>12. CASE Rollback
  <2>1. pc = "rollback" /\ InvokeDefault(Top.obj, Below) /\ out' = SubSeq(out, 1, Top.pos)
    BY <1>12 DEF Rollback
  <2>2. Height > 0 /\ Top.obj \in Obj /\ Below \in Seq(GoodFrame)
    <3>1. Height > 0
      BY <1>2, <2>1, ShapeFacts
    <3> QED BY <1>2, <3>1, StackFacts DEF Frame
  <2>3. ValueDue(Below, After(out'))
    BY <1>2, <2>1 DEF BackDue
  <2> QED BY <1>2, <2>1, <2>2, <2>3, TextInvokeDefault
<1> QED BY <1>3, <1>4, <1>5, <1>6, <1>7, <1>8, <1>9, <1>10, <1>11, <1>12 DEF Serialize

(* A loop's step ends in a call of serialize, with references held or not. *)
LEMMA TextVisit ==
  ASSUME NEW s \in Seq(GoodFrame), NEW t, ValueDue(s, After(t)), NEW x \in Obj, NEW h,
         Visit(x, h, s)
  PROVE  TextOK(pc', stack', TRUE, t)
<1>1. Call("hold", x) \in GoodFrame /\ Call("hold", x).fn = "hold"
  BY CallGood, CallFrame DEF Fns
<1>2. Append(s, Call("hold", x)) \in Seq(GoodFrame)
  BY <1>1, Pushed
<1>3. ValueDue(Append(s, Call("hold", x)), After(t))
  BY <1>1, PlainPush DEF Containers
<1> QED BY <1>2, <1>3, TextMoves DEF Visit

LEMMA TextClose ==
  ASSUME out \in Seq(Marks \X Obj), NEW s \in Seq(GoodFrame), NEW f \in GoodFrame,
         StepDue(s, f, After(out)), Close(f)
  PROVE  TextOK("ret", s, TRUE, out')
<1>1. f.obj \in Obj /\ out' = Emit(<<Closing(f)>>, f.obj) /\ Closing(f) \in Marks
  BY DEF Close, Closing, GoodFrame, Frame, Marks
<1>2. After(out') = Accept(After(out), Closing(f))
  BY <1>1, EmittedMarks
<1>3. Full(s, After(out'))
  BY <1>2, ClosingRead
<1> QED BY <1>3, TextMoves

LEMMA TextLoop ==
  ASSUME TextInv, ok, Loop
  PROVE  TextOK(pc', stack', ok', out')
<1>1. pc = "step" /\ ShapeInv /\ TypeInv
  BY DEF Loop, NextItem, CloseList, NextPair, BadKey, CloseDict, NextSorted,
         EndSorted, SkipHole, ReleaseStep, EndRelease, TextInv, ShapeInv
<1>2. /\ Height > 0 /\ Top \in GoodFrame /\ Top \in Frame /\ Top.obj \in Obj
      /\ Top.pos \in Nat /\ Top.pos + 1 \in Nat /\ Top.first \in BOOLEAN
      /\ Below \in Seq(GoodFrame) /\ ok = TRUE /\ out \in Seq(Marks \X Obj)
  BY <1>1, ShapeFacts, StackFacts DEF TypeInv, Frame, GoodFrame
<1>3. StepDue(Below, Top, After(out)) /\ After(out) # <<>>
  BY <1>1, TextFacts
<1>4. \A f \in GoodFrame : SetTop(f) = Append(Below, f) /\ SetTop(f) \in Seq(GoodFrame)
  BY <1>1, <1>2, StackMoves, StackFacts
<1>5. [Top EXCEPT !.pos = Top.pos + 1] \in GoodFrame
      /\ [Top EXCEPT !.pos = Top.pos + 1].fn = Top.fn
      /\ [Top EXCEPT !.pos = Top.pos + 1].pos = Top.pos + 1
      /\ [Top EXCEPT !.pos = Top.pos + 1].first = Top.first
  BY <1>2, FrameMoves DEF Frame
<1>6. CASE CloseList \/ CloseDict \/ EndRelease
  <2>1. Close(Top) /\ pc' = "ret" /\ ok' = TRUE /\ stack' = Below
    BY <1>2, <1>6 DEF CloseList, CloseDict, EndRelease, Return
  <2> QED BY <1>2, <1>3, <2>1, TextClose
<1>7. CASE BadKey
  <2>1. pc' = "ret" /\ ok' = FALSE /\ stack' = Below /\ out' = out
    BY <1>7 DEF BadKey, Return
  <2> QED BY <1>2, <1>3, <2>1, TextMoves
<1>8. CASE NextItem
  <2> DEFINE x == items[Top.obj][Top.pos + 1][1]
             g == [Top EXCEPT !.pos = Top.pos + 1]
  <2>1. Top.fn \in {"list", "tuple"} /\ Top.pos < Len(items[Top.obj])
        /\ Visit(x, Top.fn = "list" /\ Guarded(x), SetTop(g))
        /\ ok' = ok /\ out' = Emit(Comma(Top.pos = 0), Top.obj)
    BY <1>8 DEF NextItem, Running
  <2>2. x \in Obj
    <3>1. Kind[Top.obj] \in {"list", "tuple"}
      BY <1>2, <2>1 DEF FrameOK, GoodFrame
    <3>2. Top.pos + 1 \in DOMAIN items[Top.obj]
      BY <1>1, <1>2, <2>1, EntryTypes DEF TypeInv
    <3> QED BY <1>1, <1>2, <3>1, <3>2, EntryTypes DEF TypeInv
  <2> HIDE DEF x
  <2>3. g \in GoodFrame /\ g.fn = Top.fn /\ g.pos # 0
    BY <1>2, <1>5
  <2> HIDE DEF g
  <2>4. Begun(g) /\ (Begun(Top) <=> Top.pos # 0)
    BY <2>1, <2>3 DEF Begun
  <2>5. After(out') = IF Top.pos = 0 THEN After(out) ELSE Accept(After(out), ",")
    <3>1. (Top.pos = 0) \in BOOLEAN
      OBVIOUS
    <3> QED BY <1>2, <2>1, <3>1, EmittedKey
  <2>6. ValueDue(SetTop(g), After(out'))
    BY <1>2, <1>3, <1>4, <2>1, <2>3, <2>4, <2>5, ElementRead
  <2>7. TextOK(pc', stack', TRUE, out')
    BY <1>4, <2>1, <2>2, <2>3, <2>6, TextVisit
  <2> QED BY <1>2, <2>1, <2>7
<1>9. CASE NextPair
  <2> DEFINE k(i) == items[Top.obj][i][1]
             v(i) == items[Top.obj][i][2]
             s(i) == SetTop([Top EXCEPT !.pos = i, !.first = FALSE])
  <2>1. PICK i \in NextEntry(Top.obj, Top.pos) :
          /\ \/ stack' = s(i) \o <<Call("hold", k(i)), Call("hold", v(i))>>
             \/ stack' = s(i)
          /\ out' = Emit(KeyMarks(Top.first), k(i))
    BY <1>9 DEF NextPair
  <2>2. pc' = "call" /\ ok' = ok /\ Top.fn = "dict"
    BY <1>9 DEF NextPair, Running
  <2>3. Kind[Top.obj] = "dict"
    BY <1>2, <2>2 DEF FrameOK, GoodFrame
  <2>4. i \in Filled(items[Top.obj]) /\ i \in Nat
    BY <1>1, <1>2, EntryTypes DEF NextEntry, Filled, TypeInv
  <2>5. k(i) \in Obj /\ v(i) \in Obj
    BY <1>1, <1>2, <2>3, <2>4, EntryTypes DEF TypeInv
  <2> DEFINE f == [Top EXCEPT !.pos = i, !.first = FALSE]
             a == Call("hold", k(i))
             b == Call("hold", v(i))
  <2>6. f \in GoodFrame /\ f.fn = "dict" /\ f.first = FALSE
    <3>1. f \in GoodFrame
      BY <1>2, <2>4, FrameMoves
    <3>2. f.fn = Top.fn /\ f.first = FALSE
      BY <1>2 DEF Frame
    <3> QED BY <2>2, <3>1, <3>2
  <2> HIDE DEF k, v
  <2>7. a \in GoodFrame /\ b \in GoodFrame /\ a.fn = "hold" /\ b.fn = "hold"
    BY <2>5, CallGood, CallFrame DEF Fns
  <2>8. stack' = SetTop(f) \o <<a, b>> \/ stack' = SetTop(f)
    BY <2>1
  <2> HIDE DEF f, a, b
  <2>9. Begun(f) /\ (Begun(Top) <=> ~Top.first)
    BY <2>2, <2>6 DEF Begun
  <2>10. After(out') =
           Accept(IF Top.first THEN After(out) ELSE Accept(After(out), ","), "k")
    BY <1>2, <2>1, <2>5, EmittedKey
  <2>11. ValueDue(SetTop(f), After(out'))
    BY <1>2, <1>3, <1>4, <2>2, <2>6, <2>9, <2>10, MemberRead
  <2> DEFINE z == SetTop(f)
  <2>12. z \in Seq(GoodFrame) /\ ValueDue(z, After(out')) /\ (stack' = z \o <<a, b>> \/ stack' = z)
    BY <1>4, <2>6, <2>8, <2>11
  <2> HIDE DEF z
  <2>13. z \o <<a, b>> = Append(Append(z, a), b)
    BY <2>7, <2>12, AppendTwo
  <2>14. Append(z, a) \in Seq(GoodFrame) /\ ValueDue(Append(z, a), After(out'))
    BY <2>7, <2>12, PlainPush, Pushed DEF Containers
  <2>15. Append(Append(z, a), b) \in Seq(GoodFrame)
         /\ ValueDue(Append(Append(z, a), b), After(out'))
    BY <2>7, <2>14, PlainPush, Pushed DEF Containers
  <2>16. stack' \in Seq(GoodFrame) /\ ValueDue(stack', After(out'))
    BY <2>12, <2>13, <2>15
  <2>17. TextOK("call", stack', TRUE, out')
    BY <2>16, TextMoves
  <2> QED BY <1>2, <2>2, <2>17
<1>10. CASE NextSorted
  <2> DEFINE e == Top.snap[Top.order[Top.pos + 1]]
             g == [Top EXCEPT !.pos = Top.pos + 1]
  <2>1. Top.pos < Len(Top.order) /\ Top.fn = "sorted" /\ ok' = ok
        /\ Visit(e[2], FALSE, SetTop(g)) /\ out' = Emit(KeyMarks(Top.pos = 0), e[1])
    BY <1>10 DEF NextSorted, Running
  <2>2. e[1] \in Obj /\ e[2] \in Obj
    <3>1. Top.order \in Seq(Nat)
      BY <1>2 DEF Frame
    <3>2. Top.pos + 1 \in DOMAIN Top.order
      BY <1>2, <2>1, <3>1
    <3>3. Top.order[Top.pos + 1] \in Filled(Top.snap)
      BY <1>2, <2>1, <3>2 DEF FrameOK, GoodFrame
    <3> QED BY <1>2, <3>3, SnapTypes
  <2> HIDE DEF e
  <2>3. g \in GoodFrame /\ g.fn = Top.fn /\ g.pos # 0
    BY <1>2, <1>5
  <2> HIDE DEF g
  <2>4. Begun(g) /\ (Begun(Top) <=> Top.pos # 0)
    BY <2>1, <2>3 DEF Begun
  <2>5. After(out') =
          Accept(IF Top.pos = 0 THEN After(out) ELSE Accept(After(out), ","), "k")
    <3>1. (Top.pos = 0) \in BOOLEAN
      OBVIOUS
    <3> QED BY <1>2, <2>1, <2>2, <3>1, EmittedKey
  <2>6. ValueDue(SetTop(g), After(out'))
    BY <1>2, <1>3, <1>4, <2>1, <2>3, <2>4, <2>5, MemberRead
  <2>7. TextOK(pc', stack', TRUE, out')
    BY <1>4, <2>1, <2>2, <2>3, <2>6, TextVisit
  <2> QED BY <1>2, <2>1, <2>7
<1>11. ASSUME NEW g \in GoodFrame, g.fn = "release", Top.fn \in {"sorted", "release"}
       PROVE  StepDue(Below, g, After(out))
  <2>1. \A c : InLoop(Top, c) => InLoop(g, c)
    BY <1>11 DEF InLoop, AfterElement
  <2> QED BY <1>3, <2>1 DEF StepDue
<1>12. CASE EndSorted
  <2>1. Top.fn = "sorted" /\ stack' = SetTop(Releasing(Top)) /\ pc' = "step" /\ ok' = TRUE
        /\ out' = out
    BY <1>1, <1>12 DEF EndSorted, Running
  <2>2. Releasing(Top) \in GoodFrame /\ Releasing(Top).fn = "release"
    BY <1>2, <2>1, FrameMoves DEF Releasing, Frame
  <2>3. StepDue(Below, Releasing(Top), After(out))
    BY <1>11, <2>1, <2>2
  <2> QED BY <1>2, <1>4, <2>1, <2>2, <2>3, TextMoves
<1>13. CASE SkipHole
  <2> DEFINE g == [Top EXCEPT !.pos = Top.pos + 1]
  <2>1. stack' = SetTop(g) /\ pc' = "step" /\ ok' = ok /\ out' = out /\ Top.fn = "release"
    BY <1>1, <1>13 DEF SkipHole, Running
  <2>2. g \in GoodFrame /\ g.fn = "release"
    BY <1>5, <2>1
  <2> HIDE DEF g
  <2>3. StepDue(Below, g, After(out))
    BY <1>11, <2>1, <2>2
  <2> QED BY <1>2, <1>4, <2>1, <2>2, <2>3, TextMoves
<1>14. CASE ReleaseStep
  <2> DEFINE g == IF Top.first THEN [Top EXCEPT !.first = FALSE]
                               ELSE [Top EXCEPT !.first = TRUE, !.pos = Top.pos + 1]
             d == {<<Height, Top.pos + 1, IF Top.first THEN 2 ELSE 1,
                     Top.snap[Top.pos + 1][IF Top.first THEN 2 ELSE 1]>>}
  <2>1. Decref(d, SetTop(g), "step") /\ ok' = ok /\ out' = out /\ Top.fn = "release"
    BY <1>14 DEF ReleaseStep, Running
  <2>2. g \in GoodFrame
    BY <1>2, FrameMoves
  <2>3. g.fn = Top.fn
    BY <1>2 DEF Frame
  <2> HIDE DEF g, d
  <2>4. StepDue(Below, g, After(out))
    BY <1>11, <2>1, <2>2, <2>3
  <2>5. StepsDue(SetTop(g), After(out)) /\ SetTop(g) \in Seq(GoodFrame)
    BY <1>2, <1>4, <2>2, <2>4 DEF StepsDue
  <2>6. TextOK(pc', stack', TRUE, out)
    BY <2>1, <2>5, TextDecref
  <2> QED BY <1>2, <2>1, <2>6
<1> QED BY <1>6, <1>7, <1>8, <1>9, <1>10, <1>12, <1>13, <1>14 DEF Loop

LEMMA TextReturned ==
  ASSUME TextInv, ok, Returned
  PROVE  TextOK(pc', stack', ok', out')
<1>1. /\ pc = "ret" /\ TypeInv /\ ok = TRUE /\ out' = out
      /\ Height > 0 => /\ Below \in Seq(GoodFrame) /\ Top \in GoodFrame
                       /\ stack = Append(Below, Top)
  <2>1. pc = "ret" /\ TypeInv /\ ok = TRUE /\ out' = out
    BY DEF Returned, ReturnToLoop, ReturnToSorted, ReturnToHold, ReturnToResult, Finish,
       TextInv, ShapeInv, TypeInv
  <2> QED BY <2>1, StackFacts, StackMoves DEF GoodFrame
<1>2. Full(stack, After(out)) /\ After(out) # <<>>
  BY <1>1, TextFacts
<1>3. ASSUME Height > 0, Top.fn \in Containers PROVE TextOK("step", stack, TRUE, out)
  <2>1. Full(Append(Below, Top), After(out))
    BY <1>1, <1>2, <1>3
  <2>2. StepDue(Below, Top, After(out))
    BY <1>1, <1>3, <2>1, LoopGoesOn
  <2>3. TextOK("step", Append(Below, Top), TRUE, out)
    BY <1>1, <1>3, <2>2, TextMoves
  <2> QED BY <1>1, <1>3, <2>3
<1>4. CASE ReturnToLoop
  <2>1. Height > 0 /\ Top.fn \in Containers /\ pc' = "step" /\ stack' = stack /\ ok' = ok
    BY <1>1, <1>4 DEF ReturnToLoop, Containers
  <2> QED BY <1>1, <1>3, <2>1
<1>5. CASE ReturnToSorted
  <2>1. Height > 0 /\ Top.fn \in Containers /\ pc' = "step" /\ stack' = stack /\ ok' = ok
    BY <1>1, <1>5 DEF ReturnToSorted, Running, Containers
  <2> QED BY <1>1, <1>3, <2>1
<1>6. CASE ReturnToHold \/ ReturnToResult
  <2>1. Height > 0 /\ Top.fn \notin Containers /\ ok' = ok
        /\ Decref({<<Height, 0, 0, Top.obj>>}, Below, "ret")
    BY <1>6 DEF ReturnToHold, ReturnToResult, Running, Containers
  <2>2. Full(Append(Below, Top), After(out))
    BY <1>1, <1>2, <2>1
  <2>3. Full(Below, After(out))
    BY <1>1, <2>1, <2>2, PlainPush
  <2>4. TextOK(pc', stack', TRUE, out)
    BY <1>1, <2>1, <2>3, TextDecref
  <2> QED BY <1>1, <2>1, <2>4
<1>7. CASE Finish
  <2>1. pc' = "done" /\ stack' = stack /\ ok' = ok /\ Len(stack) = 0 /\ stack \in Seq(GoodFrame)
    BY <1>1, <1>7 DEF Finish, Height, TypeInv
  <2>2. stack = <<>>
    BY <2>1
  <2> QED BY <1>1, <1>2, <2>1, <2>2 DEF TextOK
<1> QED BY <1>4, <1>5, <1>6, <1>7 DEF Returned

(* The array's whole text, or a part of it that is to be taken back.       *)
LEMMA TextArray ==
  ASSUME out \in Seq(Marks \X Obj), NEW s \in Seq(GoodFrame), ValueDue(s, After(out)),
         NEW o \in Obj, NEW t \in ArrayTexts
  PROVE  /\ Full(s, After(Emit(t, o)))
         /\ \A n \in 0 .. Len(t) - 1 : After(Emit(SubSeq(t, 1, n), o)) # <<>>
<1>1. t \in Seq(Marks) /\ After(out) \in Seq(Contexts)
  BY EncoderAssumption, DueTypes
<1>2. Full(s, End(After(out), t))
  BY ArrayRead
<1>3. End(After(out), t) # <<>>
  BY <1>2, FullLive
<1>4. After(Emit(t, o)) = End(After(out), t)
  BY <1>1, Emitted
<1>5. ASSUME NEW n \in 0 .. Len(t) - 1 PROVE After(Emit(SubSeq(t, 1, n), o)) # <<>>
  <2> DEFINE u == SubSeq(t, 1, n)
  <2>1. n \in 0 .. Len(t)
    BY <1>1
  <2>2. u \in Seq(Marks) /\ End(After(out), u) # <<>>
    BY <1>1, <1>3, <2>1, EndPrefix
  <2> HIDE DEF u
  <2>3. After(Emit(u, o)) = End(After(out), u)
    BY <2>2, Emitted
  <2> QED BY <2>2, <2>3 DEF u
<1> QED BY <1>2, <1>4, <1>5

LEMMA EmitExtends ==
  ASSUME out \in Seq(Marks \X Obj), NEW ms \in Seq(Marks), NEW o \in Obj
  PROVE  /\ Len(out) <= Len(Emit(ms, o))
         /\ SubSeq(Emit(ms, o), 1, Len(out)) = out
<1> DEFINE S == Marks \X Obj
           u == [i \in DOMAIN ms |-> <<ms[i], o>>]
           e == out \o u
           f == SubSeq(e, 1, Len(out))
<1>1. u \in Seq(S)
  <2>1. DOMAIN ms = 1 .. Len(ms) /\ Len(ms) \in Nat /\ \A i \in 1 .. Len(ms) : ms[i] \in Marks
    OBVIOUS
  <2>2. u \in [1 .. Len(ms) -> S]
    BY <2>1
  <2> QED BY <2>1, <2>2
<1>2. out \in Seq(S)
  OBVIOUS
<1> HIDE DEF S, u
<1>3. /\ e \in Seq(S) /\ Len(e) = Len(out) + Len(u)
      /\ \A i \in 1 .. Len(out) + Len(u) : e[i] = IF i <= Len(out) THEN out[i] ELSE u[i - Len(out)]
  BY <1>1, <1>2, Joined
<1>4. Len(out) \in Nat /\ Len(u) \in Nat
  BY <1>1, <1>2
<1> HIDE DEF e
<1>5. /\ f \in Seq(S) /\ Len(f) = Len(out) /\ \A i \in 1 .. Len(out) : f[i] = e[i]
  <2>1. \A i \in 1 .. Len(out) : e[i] \in S
    BY <1>3, <1>4
  <2>2. /\ f \in Seq(S) /\ Len(f) = (IF 1 <= Len(out) THEN Len(out) - 1 + 1 ELSE 0)
        /\ \A i \in 1 .. Len(out) - 1 + 1 : f[i] = e[1 + i - 1]
    BY <1>4, <2>1, SubSeqProperties
  <2>3. Len(out) - 1 + 1 = Len(out) /\ \A i \in 1 .. Len(out) : 1 + i - 1 = i
    BY <1>4
  <2> HIDE DEF f
  <2> QED BY <1>4, <2>2, <2>3
<1> HIDE DEF f
<1>6. f = out
  <2>1. \A i \in 1 .. Len(out) : f[i] = out[i]
    BY <1>3, <1>4, <1>5
  <2> QED BY <1>2, <1>5, <2>1, SeqEqual
<1>7. Len(out) <= Len(e)
  BY <1>3, <1>4
<1> QED BY <1>6, <1>7 DEF f, e, u, Emit

LEMMA TextPython ==
  ASSUME TextInv, ok, Python
  PROVE  TextOK(pc', stack', ok', out')
<1>1. pc = "python" /\ TypeInv /\ ShapeInv /\ TextOK(pc, stack, ok, out)
  BY DEF Python, PyClear, PyDelete, PyAppend, PyRebuild, PyImport, PyRaise,
     DefaultReturns, TextReturns, OffsetInvalid, ArrayWritten, ArrayDeclined, ProbeReturns,
     FinalizerReturns, TextInv, ShapeInv
<1>2. /\ Height > 0 /\ Below \in Seq(GoodFrame)
      /\ Top \in GoodFrame /\ Top \in Frame /\ Top.obj \in Obj
      /\ ok = TRUE /\ out \in Seq(Marks \X Obj) /\ stack \in Seq(GoodFrame)
      /\ stack = Append(Below, Top)
  BY <1>1, ShapeFacts, StackFacts, StackMoves DEF TypeInv, Frame, GoodFrame
<1>3. CallDue(Below, Top, out) /\ After(out) # <<>>
  BY <1>1, TextFacts
<1>4. Top.fn # "del" =>
        ValueDue(Below, After(out)) /\ (Top.fn = "array" => Top.pos = Len(out))
  BY <1>3 DEF CallDue
<1>5. CASE UNCHANGED <<stack, pc, ok, out>>
  BY <1>1, <1>5
<1>6. CASE PyClear \/ PyDelete \/ PyAppend \/ PyRebuild
  <2>1. \E o, es : PyChange(o, es)
    BY <1>6 DEF PyClear, PyDelete, PyAppend, PyRebuild
  <2> QED BY <1>5, <2>1 DEF PyChange, rustVars
<1>7. CASE PyImport
  BY <1>5, <1>7 DEF PyImport, rustVars
<1>8. CASE PyRaise
  <2>1. pc' = "ret" /\ ok' = FALSE /\ stack' = Below /\ out' = out
    BY <1>8 DEF PyRaise, Return
  <2> QED BY <1>2, <1>3, <2>1, TextMoves
<1>9. CASE DefaultReturns
  <2>1. PICK r \in PyValues : stack' = Append(Below, Call("result", r))
    BY <1>9 DEF DefaultReturns
  <2>2. pc' = "call" /\ ok' = ok /\ Top.fn = "default" /\ out' = out
    BY <1>9 DEF DefaultReturns, Running
  <2>3. r \in Obj
    BY <1>1, AliveType
  <2>4. Call("result", r) \in GoodFrame /\ Call("result", r).fn = "result"
    BY <2>3, CallGood, CallFrame DEF Fns
  <2>5. stack' \in Seq(GoodFrame) /\ ValueDue(stack', After(out))
    BY <1>2, <1>4, <2>1, <2>2, <2>4, PlainPush, Pushed DEF Containers
  <2> QED BY <1>2, <2>2, <2>5, TextMoves
<1>10. CASE TextReturns
  <2>1. pc' = "ret" /\ ok' = TRUE /\ stack' = Below /\ out' = Emit(<<"v">>, Top.obj)
        /\ Top.fn \in {"utcoffset", "digits"}
    BY <1>10 DEF TextReturns, Running, Return
  <2>2. After(out') = Accept(After(out), "v")
    BY <1>2, <2>1, EmittedMarks DEF Marks
  <2>3. Full(Below, After(out'))
    BY <1>2, <1>4, <2>1, <2>2, ScalarRead
  <2> QED BY <1>2, <2>1, <2>3, TextMoves
<1>11. CASE OffsetInvalid
  <2> DEFINE f == [Top EXCEPT !.pos = 1]
  <2>1. f \in GoodFrame /\ f.fn = Top.fn
    BY <1>2, FrameMoves DEF Frame
  <2>2. Top.fn = "utcoffset" /\ stack' = SetTop(f) /\ pc' = "python" /\ ok' = ok /\ out' = out
    BY <1>11 DEF OffsetInvalid, Running
  <2> HIDE DEF f
  <2>3. CallDue(Below, f, out)
    BY <1>4, <2>1, <2>2 DEF CallDue
  <2>4. stack' = Append(Below, f)
    BY <1>1, <1>2, <2>1, <2>2, StackMoves
  <2> QED BY <1>2, <2>1, <2>2, <2>3, <2>4, TextMoves
<1>12. CASE ArrayWritten
  <2>1. PICK t \in ArrayTexts : out' = Emit(t, Top.obj)
    BY <1>12 DEF ArrayWritten
  <2>2. pc' = "ret" /\ ok' = TRUE /\ stack' = Below /\ Top.fn = "array"
    BY <1>12 DEF ArrayWritten, Running, Return
  <2>3. Full(Below, After(out'))
    BY <1>2, <1>4, <2>1, <2>2, TextArray
  <2> QED BY <1>2, <2>2, <2>3, TextMoves
<1>13. CASE ArrayDeclined
  <2>0. PICK t \in ArrayTexts :
          \E n \in 0 .. Len(t) - 1 : out' = Emit(SubSeq(t, 1, n), Top.obj)
    BY <1>13 DEF ArrayDeclined
  <2>1. PICK n \in 0 .. Len(t) - 1 : out' = Emit(SubSeq(t, 1, n), Top.obj)
    BY <2>0
  <2>2. pc' = "rollback" /\ ok' = ok /\ stack' = stack /\ Top.fn = "array"
    BY <1>13 DEF ArrayDeclined, Running
  <2>3. After(out') # <<>>
    BY <1>2, <1>4, <2>1, <2>2, TextArray
  <2> DEFINE u == SubSeq(t, 1, n)
  <2>4. u \in Seq(Marks)
    <3>1. t \in Seq(Marks)
      BY EncoderAssumption
    <3>2. \A i \in 1 .. n : t[i] \in Marks
      BY <3>1
    <3> QED BY <3>2, SubSeqProperties
  <2> HIDE DEF u
  <2>5. Len(out) <= Len(out') /\ SubSeq(out', 1, Len(out)) = out
    BY <1>2, <2>1, <2>4, EmitExtends DEF u
  <2>6. BackDue(Below, Top, out')
    BY <1>4, <2>2, <2>5 DEF BackDue
  <2> QED BY <1>2, <2>2, <2>3, <2>6, TextMoves
<1>14. CASE ProbeReturns
  <2>1. Top.fn = "probe" /\ out' = out
    BY <1>14 DEF ProbeReturns, Running
  <2>2. CASE InvokeDefault(Top.obj, Below)
    BY <1>2, <1>4, <2>1, <2>2, TextInvokeDefault
  <2>3. CASE /\ stack' = SetTop([Call("array", Top.obj) EXCEPT !.pos = Len(out)])
             /\ UNCHANGED <<pc, ok>>
    <3> DEFINE f == [Call("array", Top.obj) EXCEPT !.pos = Len(out)]
    <3>1. f \in Frame /\ f.fn = "array" /\ f.pos = Len(out)
      <4>1. Call("array", Top.obj) \in Frame /\ Call("array", Top.obj).fn = "array"
        BY <1>2, CallFrame DEF Fns
      <4>2. Len(out) \in Nat
        BY <1>2
      <4> QED BY <4>1, <4>2, FrameUpdates
    <3>2. stack' = SetTop(f) /\ ok' = ok /\ pc' = "python"
      BY <1>1, <2>3
    <3> HIDE DEF f
    <3>3. f \in GoodFrame
      BY <3>1 DEF GoodFrame, FrameOK
    <3>4. CallDue(Below, f, out)
      BY <1>4, <2>1, <3>1 DEF CallDue
    <3>5. stack' = Append(Below, f)
      BY <1>1, <1>2, <3>2, <3>3, StackMoves
    <3> QED BY <1>2, <2>1, <3>2, <3>3, <3>4, <3>5, TextMoves
  <2> QED BY <1>14, <2>2, <2>3 DEF ProbeReturns
<1>15. CASE FinalizerReturns
  <2>1. stack' = Below /\ pc' = Top.next /\ ok' = ok /\ out' = out /\ Top.fn = "del"
    BY <1>15 DEF FinalizerReturns, Running
  <2>2. Top.next \in {"ret", "step"}
    BY <1>2 DEF Frame
  <2>3. /\ Top.next = "step" => StepsDue(Below, After(out))
        /\ Top.next = "ret" => Full(Below, After(out))
    BY <1>3, <2>1 DEF CallDue
  <2> QED BY <1>2, <2>1, <2>2, <2>3, TextMoves
<1> QED BY <1>6, <1>7, <1>8, <1>9, <1>10, <1>11, <1>12, <1>13, <1>14, <1>15 DEF Python

(* A step that ends the walk ends it with no frame left.                   *)
LEMMA DoneStep ==
  ASSUME TypeInv, Next, pc' = "done"
  PROVE  \/ pc = "done" /\ stack' = stack
         \/ stack' = <<>>
<1>1. stack \in Seq(GoodFrame) /\ (Height > 0 => Top.next \in {"ret", "step"})
  BY StackFacts DEF TypeInv, Frame
<1>2. CASE Serialize
  BY <1>2 DEF Serialize, WriteScalar, RejectScalar, WriteHugeInt, EnterTooDeep, WriteEmpty,
     Open, OpenSorted, WriteDate, CallUtcoffset, LateDatetime, LateDatetimeFails, NumpyHit,
     NumpyProbe, CallDefault, Rollback, InvokeDefault, Return
<1>3. CASE Loop
  BY <1>3 DEF Loop, NextItem, CloseList, NextPair, BadKey, CloseDict, NextSorted, EndSorted,
     SkipHole, ReleaseStep, EndRelease, Visit, Decref, Return
<1>4. CASE Returned
  <2>1. CASE Finish
    <3>1. stack' = stack /\ Len(stack) = 0
      BY <2>1 DEF Finish, Height
    <3> QED BY <1>1, <3>1
  <2>2. CASE ~Finish
    BY <1>4, <2>2 DEF Returned, ReturnToLoop, ReturnToSorted, ReturnToHold, ReturnToResult,
       Decref, Return
  <2> QED BY <2>1, <2>2
<1>5. CASE Python
  <2>1. CASE PyClear \/ PyDelete \/ PyAppend \/ PyRebuild
    <3>1. \E o, es : PyChange(o, es)
      BY <2>1 DEF PyClear, PyDelete, PyAppend, PyRebuild
    <3> QED BY <2>1, <3>1 DEF PyChange, rustVars
  <2>2. CASE PyImport
    BY <2>2 DEF PyImport, rustVars
  <2>3. CASE FinalizerReturns
    <3>1. Height > 0 /\ pc' = Top.next
      BY <2>3 DEF FinalizerReturns, Running
    <3> QED BY <1>1, <3>1
  <2>4. CASE PyRaise \/ DefaultReturns \/ TextReturns \/ OffsetInvalid \/ ArrayWritten
             \/ ArrayDeclined \/ ProbeReturns
    BY <2>4 DEF PyRaise, DefaultReturns, TextReturns, OffsetInvalid, ArrayWritten,
       ArrayDeclined, ProbeReturns, InvokeDefault, Return
  <2> QED BY <1>5, <2>1, <2>2, <2>3, <2>4 DEF Python
<1>6. CASE Terminated
  BY <1>6 DEF Terminated, vars
<1> QED BY <1>2, <1>3, <1>4, <1>5, <1>6 DEF Next

LEMMA TextStep ==
  ASSUME TextInv, [Next]_vars
  PROVE  TextInv'
<1>1. ShapeInv' /\ ShapeInv /\ TypeInv /\ TextOK(pc, stack, ok, out)
  BY ShapeStep DEF TextInv, ShapeInv
<1>2. CASE UNCHANGED vars \/ Terminated
  BY <1>1, <1>2 DEF Terminated, vars, TextInv
<1>3. CASE Next /\ ~ok
  <2>1. ~ok' /\ out' = out
    BY <1>1, <1>3, FailedStep
  <2>2. pc' = "done" => stack' = <<>>
    BY <1>1, <1>3, DoneStep DEF TextOK
  <2>3. After(out) # <<>>
    BY <1>1 DEF TextOK
  <2>4. TextOK(pc', stack', ok', out')
    BY <2>1, <2>2, <2>3 DEF TextOK
  <2> QED BY <1>1, <2>4 DEF TextInv
<1>4. CASE ok /\ (Serialize \/ Loop \/ Returned \/ Python)
  <2>1. TextOK(pc', stack', ok', out')
    BY <1>4, TextSerialize, TextLoop, TextReturned, TextPython
  <2> QED BY <1>1, <2>1 DEF TextInv
<1> QED BY <1>2, <1>3, <1>4 DEF Next

LEMMA TextStart ==
  ASSUME Init
  PROVE  TextInv
<1>1. Settled(stack) /\ stack = <<>> /\ stack \in Seq(GoodFrame) /\ pc = "call" /\ ok = TRUE
      /\ out = <<>>
  BY DEF Init, Settled
<1>2. ShapeInv
  BY <1>1, TypeInit, ShapeMoves DEF ShapeInv
<1>3. After(out) = <<"T0">>
  <2>1. out \in Seq(Marks \X Obj) /\ Len(out) = 0
    BY <1>1
  <2>2. MarksOf(out) \in Seq(Marks) /\ Len(MarksOf(out)) = 0
        /\ After(out) = End(<<"T0">>, MarksOf(out))
    BY <2>1, MarksType
  <2>3. MarksOf(out) = <<>>
    BY <2>2
  <2> QED BY <2>2, <2>3, EndType, DocumentStart
<1>4. ValueDue(<<>>, <<"T0">>)
  <2>1. "T0" \in ExpectsValue /\ AfterValue("T0") = "T1" /\ <<>> \in Seq(Contexts)
    BY DEF ExpectsValue, AfterValue
  <2>2. Append(<<>>, "T0") = <<"T0">> /\ Append(<<>>, "T1") = <<"T1">>
    OBVIOUS
  <2>3. Full(<<>>, Append(<<>>, "T1"))
    BY <2>2, FullStart
  <2> QED BY <2>1, <2>2, <2>3 DEF ValueDue
<1>5. TextOK(pc, stack, ok, out)
  BY <1>1, <1>3, <1>4, TextMoves
<1> QED BY <1>2, <1>5 DEF TextInv

(* The buffer holds a prefix of a JSON document at every moment, failing   *)
(* or not, and a call that succeeds leaves a whole document in it: for any *)
(* heap, any changes Python makes to the containers while the loops run,   *)
(* any options, and arrays rolled back at any element.                     *)
THEOREM TextCorrect == Spec => []WellFormed
<1>1. Init => TextInv
  BY TextStart
<1>2. TextInv /\ [Next]_vars => TextInv'
  BY TextStep
<1>3. TextInv => WellFormed
  <2> SUFFICES ASSUME TextInv PROVE WellFormed
    OBVIOUS
  <2>1. TextOK(pc, stack, ok, out)
    BY DEF TextInv
  <2>2. After(out) # <<>>
    BY <2>1 DEF TextOK
  <2>3. ASSUME pc = "done", ok PROVE After(out) = <<"T1">>
    <3>1. stack = <<>> /\ Full(stack, After(out))
      BY <2>1, <2>3 DEF TextOK
    <3> QED BY <3>1, FullStart
  <2> QED BY <2>2, <2>3 DEF WellFormed, After
<1> QED BY <1>1, <1>2, <1>3, PTL DEF Spec
=============================================================================
