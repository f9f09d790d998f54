------------------------- MODULE EncoderMemoryProofs -------------------------
(***************************************************************************)
(* What the encoder's frames own and point at: the theorems RefsBalanced,  *)
(* NoUseAfterFree, GuardSound, StackBounded and LateDatetimeHonoured of    *)
(* Encoder.                                                                *)
(*                                                                         *)
(* Every step of the walk is one of a few moves of the stack and of the    *)
(* references (StepMoves); each invariant is kept by each move.            *)
(***************************************************************************)
EXTENDS EncoderProofs

-----------------------------------------------------------------------------
(* The moves. *)

Quiet == items' = items /\ refs' = refs
Asking == Transient \ {"del"}

(* A frame without a snapshot, about o.                                    *)
Bare(f, o) ==
  /\ f \in GoodFrame /\ f.obj = o /\ f.snap = <<>>
  /\ f.fn = "tuple" => Kind[o] = "tuple"

(* The frame f of a loop, moved.                                           *)
Moved(f, g) == g \in GoodFrame /\ g.fn = f.fn /\ g.obj = f.obj /\ g.snap = f.snap

(* A reference that was the last one has gone, and a finalizer runs.       *)
Lost == Reach(Held(refs'), items, Boxes) # Alive

Stays ==
  /\ stack' = stack /\ Quiet
  /\ pc' = "call" => pc = "call" /\ arg' = arg
  /\ pc' \in {"python", "rollback"} <=> pc \in {"python", "rollback"}

Changes ==
  /\ stack' = stack /\ refs' = refs /\ pc = "python" /\ pc' = "python"
  /\ \A o \in Obj : Kind[o] = "tuple" => items'[o] = items[o]

Asks ==
  /\ pc = "call" /\ pc' = "python" /\ Quiet
  /\ \/ Kind[arg] = "hugeint"
     \/ ~RunsNoPython(arg) /\ (enc.default \/ Opt("numpy") \/ enc.dt)
  /\ \E f : Bare(f, arg) /\ f.fn \in Asking /\ stack' = Append(stack, f)

Opens ==
  /\ pc = "call" /\ pc' = "step" /\ Quiet /\ arg \in Boxes
  /\ \E f : Bare(f, arg) /\ f.fn \in {"list", "tuple", "dict"} /\ stack' = Append(stack, f)

(* The frame of a new snapshot of o.                                       *)
Shot(f, o) ==
  /\ f \in GoodFrame /\ f.obj = o /\ f.snap = items[o]
  /\ f.fn \in {"sorted", "release"} /\ f.pos = 0 /\ f.first

Snaps ==
  /\ pc = "call" /\ pc' = "step" /\ items' = items /\ Kind[arg] = "dict"
  /\ refs' = refs \cup SnapRefs(Height + 1, items[arg])
  /\ \E f : Shot(f, arg) /\ stack' = Append(stack, f)

(* The object of one call into Python is given to another.                 *)
Hands ==
  /\ pc \in {"python", "rollback"} /\ pc' = "python" /\ Quiet
  /\ Height > 0 /\ Top.fn \in Asking
  /\ \E f : /\ f \in GoodFrame /\ f.obj = Top.obj /\ f.snap \in {<<>>, Top.snap}
            /\ f.fn \in Asking /\ stack' = Append(Below, f)

Leaves ==
  /\ Height > 0 /\ stack' = Below /\ Quiet /\ pc' \in {"ret", "step"}
  /\ Top.fn \notin {"hold", "result", "sorted"}
  /\ Top.fn = "release" => Top.pos >= Len(Top.snap)

(* From writing a snapshot to releasing it, and past a hole.               *)
Turned(f, g) ==
  /\ g \in GoodFrame /\ g.fn = "release" /\ g.obj = f.obj /\ g.snap = f.snap
  /\ \/ f.fn = "sorted" /\ g.pos = 0 /\ g.first
     \/ /\ f.fn = "release" /\ f.snap[f.pos + 1] = <<>>
        /\ f.pos < Len(f.snap) /\ g.pos = f.pos + 1 /\ g.first = f.first

Turns ==
  /\ Height > 0 /\ Quiet /\ pc' = "step"
  /\ \E f : Turned(Top, f) /\ stack' = Append(Below, f)

(* What a step of release drops, and where it leaves the frame.            *)
Half(f) == IF f.first THEN 2 ELSE 1
Released(f, g) ==
  /\ f.fn = "release" /\ f.pos < Len(f.snap) /\ f.snap[f.pos + 1] # <<>>
  /\ Moved(f, g)
  /\ IF f.first THEN ~g.first /\ g.pos = f.pos ELSE g.first /\ g.pos = f.pos + 1

Releases ==
  /\ Height > 0 /\ items' = items
  /\ \E f : /\ Released(Top, f)
            /\ refs' = refs \ {<<Height, Top.pos + 1, Half(Top),
                                 Top.snap[Top.pos + 1][Half(Top)]>>}
            /\ \/ pc' = "step" /\ stack' = Append(Below, f)
               \/ /\ pc' = "python" /\ Lost
                  /\ \E d : /\ Bare(d, Root) /\ d.fn = "del"
                            /\ stack' = Append(Append(Below, f), d)

Drops ==
  /\ pc = "ret" /\ Height > 0 /\ Top.fn \in {"hold", "result"} /\ items' = items
  /\ refs' = refs \ {<<Height, 0, 0, Top.obj>>}
  /\ \/ pc' = "ret" /\ stack' = Below
     \/ /\ pc' = "python" /\ Lost
        /\ \E d : Bare(d, Root) /\ d.fn = "del" /\ stack' = Append(Below, d)

Takes ==
  /\ pc = "python" /\ pc' = "call" /\ items' = items
  /\ Height > 0 /\ Top.fn = "default"
  /\ arg' \in Obj /\ refs' = refs \cup {<<Height, 0, 0, arg'>>}
  /\ \E f : Bare(f, arg') /\ f.fn = "result" /\ stack' = Append(Below, f)

(* A loop goes to its next entry: one that is not held, a list's item that *)
(* is, and a dict's key and value.                                         *)
Visits ==
  /\ pc = "step" /\ pc' = "call" /\ Quiet /\ Height > 0 /\ arg' \in Obj
  /\ \/ Top.fn = "tuple" /\ arg' \in Contents(items, Top.obj)
     \/ Top.fn \in {"list", "dict"} /\ arg' \in Contents(items, Top.obj) /\ ~Guarded(arg')
     \/ Top.fn = "sorted" /\ \E i \in Filled(Top.snap) : arg' = Top.snap[i][2]
  /\ \E f : Moved(Top, f) /\ stack' = Append(Below, f)

HoldsItem ==
  /\ pc = "step" /\ pc' = "call" /\ items' = items /\ Height > 0 /\ arg' \in Obj
  /\ Top.fn = "list" /\ Guarded(arg')
  /\ refs' = refs \cup {<<Height + 1, 0, 0, arg'>>}
  /\ \E f, h : /\ Moved(Top, f) /\ Bare(h, arg') /\ h.fn = "hold"
               /\ stack' = Append(Append(Below, f), h)

HoldsPair ==
  /\ pc = "step" /\ pc' = "call" /\ items' = items /\ Height > 0 /\ arg' \in Obj
  /\ Top.fn = "dict" /\ Guarded(arg')
  /\ \E k \in Obj :
       /\ refs' = refs \cup {<<Height + 1, 0, 0, k>>, <<Height + 2, 0, 0, arg'>>}
       /\ \E f, g, h : /\ Moved(Top, f) /\ Bare(g, k) /\ g.fn = "hold"
                       /\ Bare(h, arg') /\ h.fn = "hold"
                       /\ stack' = Append(Append(Append(Below, f), g), h)

Move ==
  \/ Stays \/ Changes \/ Asks \/ Opens \/ Snaps \/ Hands \/ Leaves \/ Turns
  \/ Releases \/ Drops \/ Takes \/ Visits \/ HoldsItem \/ HoldsPair

-----------------------------------------------------------------------------
(* Every step is a move. *)

LEMMA BareCall ==
  ASSUME NEW f \in Fns \ {"sorted"}, NEW o \in Obj,
         f = "list" => Kind[o] \in {"list", "tuple"}, f = "tuple" => Kind[o] = "tuple",
         f \in {"dict", "release"} => Kind[o] = "dict"
  PROVE  Bare(Call(f, o), o) /\ Call(f, o).fn = f
<1>1. Call(f, o) \in GoodFrame
  BY CallGood
<1>2. Call(f, o).fn = f /\ Call(f, o).obj = o /\ Call(f, o).snap = <<>>
  BY DEF Call
<1> QED BY <1>1, <1>2 DEF Bare

(* Frames that only their caller knows.                                    *)
LEMMA BarePython ==
  ASSUME NEW f \in Asking \cup {"hold", "result"}, NEW o \in Obj
  PROVE  Bare(Call(f, o), o) /\ Call(f, o).fn = f
<1>1. f \in Fns \ {"sorted"} /\ f \notin {"list", "tuple", "dict", "release"}
  BY DEF Asking, Transient, Fns
<1> QED BY <1>1, BareCall

LEMMA BareArray ==
  ASSUME NEW o \in Obj, NEW n \in Nat
  PROVE  /\ Bare([Call("array", o) EXCEPT !.pos = n], o)
         /\ [Call("array", o) EXCEPT !.pos = n].fn = "array"
<1> DEFINE c == Call("array", o)
           f == [c EXCEPT !.pos = n]
<1>1. c \in GoodFrame /\ c.obj = o /\ c.snap = <<>> /\ c.fn = "array"
  BY BarePython DEF Bare, Asking, Transient
<1>2. c \in Frame
  BY <1>1 DEF GoodFrame
<1> HIDE DEF c
<1>3. f \in GoodFrame
  BY <1>1, FrameMoves
<1>4. f.fn = c.fn /\ f.obj = c.obj /\ f.snap = c.snap
  BY <1>2 DEF Frame
<1> HIDE DEF f
<1>5. Bare(f, o) /\ f.fn = "array"
  BY <1>1, <1>3, <1>4 DEF Bare
<1> QED BY <1>5 DEF f, c

LEMMA BareDel ==
  ASSUME NEW next \in {"ret", "step"}
  PROVE  /\ Bare([Call("del", Root) EXCEPT !.next = next], Root)
         /\ [Call("del", Root) EXCEPT !.next = next].fn = "del"
<1> DEFINE c == Call("del", Root)
           f == [c EXCEPT !.next = next]
<1>0. Root \in Obj /\ "del" \in Fns
  BY EncoderAssumption DEF Fns
<1>1. c \in GoodFrame /\ c.obj = Root /\ c.snap = <<>> /\ c.fn = "del"
  BY <1>0, BareCall DEF Bare
<1>2. c \in Frame
  BY <1>1 DEF GoodFrame
<1> HIDE DEF c
<1>3. f \in Frame /\ f.fn = c.fn /\ f.obj = c.obj /\ f.snap = c.snap
  BY <1>2 DEF Frame
<1> HIDE DEF f
<1>4. Bare(f, Root) /\ f.fn = "del"
  BY <1>1, <1>3 DEF Bare, GoodFrame, FrameOK
<1> QED BY <1>4 DEF f, c

LEMMA DecrefMoves ==
  ASSUME NEW drop, NEW s, NEW next \in {"ret", "step"}, Decref(drop, s, next)
  PROVE  /\ refs' = refs \ drop
         /\ \/ pc' = next /\ stack' = s
            \/ /\ pc' = "python" /\ Lost
               /\ \E d : Bare(d, Root) /\ d.fn = "del" /\ stack' = Append(s, d)
<1> DEFINE f == [Call("del", Root) EXCEPT !.next = next]
<1>1. Bare(f, Root) /\ f.fn = "del"
  BY BareDel
<1>2. /\ refs' = refs \ drop
      /\ \/ pc' = next /\ stack' = s
         \/ pc' = "python" /\ Lost /\ stack' = Append(s, f)
  BY DEF Decref, Lost
<1> HIDE DEF f, Lost
<1> QED BY <1>1, <1>2

(* FrameMoves, with what it leaves alone.                                  *)
Onward(f) == [f EXCEPT !.pos = @ + 1]
Jumped(f, i) == [f EXCEPT !.pos = i, !.first = FALSE]
HalfOnward(f) ==
  IF f.first THEN [f EXCEPT !.first = FALSE] ELSE [f EXCEPT !.first = TRUE, !.pos = @ + 1]

LEMMA FrameMoved ==
  ASSUME NEW f \in GoodFrame
  PROVE  /\ Moved(f, Onward(f)) /\ Onward(f).pos = f.pos + 1 /\ Onward(f).first = f.first
         /\ \A i \in Nat : Moved(f, Jumped(f, i))
         /\ Moved(f, HalfOnward(f))
         /\ IF f.first THEN ~HalfOnward(f).first /\ HalfOnward(f).pos = f.pos
            ELSE HalfOnward(f).first /\ HalfOnward(f).pos = f.pos + 1
<1>1. f \in Frame /\ f.pos \in Nat /\ f.pos + 1 \in Nat /\ f.first \in BOOLEAN
  BY DEF GoodFrame, Frame
<1>2. Moved(f, Onward(f)) /\ Onward(f).pos = f.pos + 1 /\ Onward(f).first = f.first
  <2>1. Onward(f) \in GoodFrame
    BY <1>1, FrameMoves DEF Onward
  <2> QED BY <1>1, <2>1 DEF Moved, Frame, Onward
<1>3. ASSUME NEW i \in Nat PROVE Moved(f, Jumped(f, i))
  <2>1. Jumped(f, i) \in GoodFrame
    BY <1>1, FrameMoves DEF Jumped
  <2> QED BY <1>1, <2>1 DEF Moved, Frame, Jumped
<1>4. CASE f.first
  <2>1. HalfOnward(f) \in GoodFrame
    BY <1>1, <1>4, FrameMoves DEF HalfOnward
  <2>2. Moved(f, HalfOnward(f)) /\ ~HalfOnward(f).first /\ HalfOnward(f).pos = f.pos
    BY <1>1, <1>4, <2>1 DEF Moved, Frame, HalfOnward
  <2> QED BY <1>2, <1>3, <1>4, <2>2
<1>5. CASE ~f.first
  <2>1. HalfOnward(f) \in GoodFrame
    BY <1>1, <1>5, FrameMoves DEF HalfOnward
  <2>2. Moved(f, HalfOnward(f)) /\ HalfOnward(f).first /\ HalfOnward(f).pos = f.pos + 1
    BY <1>1, <1>5, <2>1 DEF Moved, Frame, HalfOnward
  <2> QED BY <1>2, <1>3, <1>5, <2>2
<1> QED BY <1>4, <1>5

LEMMA InvokeMoves ==
  ASSUME NEW o \in Obj, NEW s, InvokeDefault(o, s)
  PROVE  \/ pc' = "ret" /\ stack' = s
         \/ /\ pc' = "python" /\ enc.default
            /\ \E f : Bare(f, o) /\ f.fn = "default" /\ stack' = Append(s, f)
<1>1. Bare(Call("default", o), o) /\ Call("default", o).fn = "default"
  BY BarePython DEF Asking, Transient
<1>2. \/ pc' = "ret" /\ stack' = s
      \/ pc' = "python" /\ enc.default /\ stack' = Append(s, Call("default", o))
  BY DEF InvokeDefault, Return
<1> QED BY <1>1, <1>2

LEMMA SerializeMoves ==
  ASSUME ShapeInv, Serialize
  PROVE  Move
<1>1. arg \in Obj /\ stack \in Seq(GoodFrame) /\ Kind[arg] \in Kinds
  BY EncoderAssumption DEF ShapeInv, TypeInv
<1>2. CASE pc = "call" /\ pc' \in {"ret", "call"} /\ stack' = stack /\ arg' = arg
           /\ UNCHANGED <<pyVars, refs>>
  BY <1>2 DEF Move, Stays, Quiet, pyVars
<1>3. ASSUME pc = "call", NEW f, Bare(f, arg), f.fn \in Asking, stack' = Append(stack, f),
             pc' = "python", UNCHANGED <<pyVars, refs>>,
             \/ Kind[arg] = "hugeint"
             \/ ~RunsNoPython(arg) /\ (enc.default \/ Opt("numpy") \/ enc.dt)
      PROVE  Move
  <2>1. Asks
    BY <1>3 DEF Asks, Quiet, pyVars
  <2> QED BY <2>1 DEF Move
<1>4. CASE WriteHugeInt
  <2>1. Bare(Call("digits", arg), arg) /\ Call("digits", arg).fn = "digits"
    BY <1>1, BarePython DEF Asking, Transient
  <2> QED BY <1>3, <1>4, <2>1 DEF WriteHugeInt, Asking, Transient
<1>5. ASSUME Unrecognised(arg) \/ DatetimeLike(arg) PROVE ~RunsNoPython(arg)
  BY <1>1, <1>5 DEF Unrecognised, DatetimeLike, RunsNoPython, Scalar, ByClass
<1>6. CASE CallUtcoffset
  <2>1. Bare(Call("utcoffset", arg), arg) /\ Call("utcoffset", arg).fn = "utcoffset"
    BY <1>1, BarePython DEF Asking, Transient
  <2> QED BY <1>3, <1>5, <1>6, <2>1 DEF CallUtcoffset, Asking, Transient
<1>7. CASE NumpyHit
  <2>1. Len(out) \in Nat
    BY DEF ShapeInv, TypeInv
  <2> DEFINE f == [Call("array", arg) EXCEPT !.pos = Len(out)]
  <2>2. Bare(f, arg) /\ f.fn = "array"
    BY <1>1, <2>1, BareArray
  <2>3. pc = "call" /\ pc' = "python" /\ stack' = Append(stack, f) /\ Unrecognised(arg)
        /\ Opt("numpy") /\ UNCHANGED <<pyVars, refs>>
    BY <1>7 DEF NumpyHit, PastDatetime
  <2> HIDE DEF f
  <2> QED BY <1>3, <1>5, <2>2, <2>3 DEF Asking, Transient
<1>8. CASE NumpyProbe
  <2>1. Bare(Call("probe", arg), arg) /\ Call("probe", arg).fn = "probe"
    BY <1>1, BarePython DEF Asking, Transient
  <2> QED BY <1>3, <1>5, <1>8, <2>1 DEF NumpyProbe, PastDatetime, Asking, Transient
<1>9. CASE CallDefault
  <2>1. pc = "call" /\ Unrecognised(arg) /\ InvokeDefault(arg, stack) /\ arg' = arg
        /\ UNCHANGED <<pyVars, refs>>
    BY <1>9 DEF CallDefault, PastDatetime
  <2>2. CASE pc' = "ret" /\ stack' = stack
    BY <1>2, <2>1, <2>2
  <2>3. CASE /\ pc' = "python" /\ enc.default
             /\ \E f : Bare(f, arg) /\ f.fn = "default" /\ stack' = Append(stack, f)
    BY <1>3, <1>5, <2>1, <2>3 DEF Asking, Transient
  <2> QED BY <1>1, <2>1, <2>2, <2>3, InvokeMoves
<1>10. CASE Rollback
  <2>1. pc = "rollback" /\ InvokeDefault(Top.obj, Below) /\ UNCHANGED <<pyVars, refs>>
    BY <1>10 DEF Rollback
  <2>2. Height > 0 /\ Top.fn = "array" /\ Top.obj \in Obj
    <3>1. Height > 0 /\ Top.fn = "array"
      BY <2>1 DEF ShapeInv, TypeInv, TopOK, Height, Top
    <3> QED BY <3>1, StackFacts DEF ShapeInv, Frame
  <2>3. CASE pc' = "ret" /\ stack' = Below
    <3>1. Leaves
      BY <2>1, <2>2, <2>3 DEF Leaves, Quiet, pyVars
    <3> QED BY <3>1 DEF Move
  <2>4. CASE /\ pc' = "python"
             /\ \E f : Bare(f, Top.obj) /\ f.fn = "default" /\ stack' = Append(Below, f)
    <3>1. Hands
      BY <2>1, <2>2, <2>4 DEF Hands, Quiet, pyVars, Bare, Asking, Transient
    <3> QED BY <3>1 DEF Move
  <2> QED BY <2>1, <2>2, <2>3, <2>4, InvokeMoves
<1>11. CASE Open
  <2> DEFINE g == IF DictLike(arg) THEN "dict" ELSE IF ListLike(arg) THEN "list" ELSE "tuple"
  <2>1. /\ g \in {"list", "tuple", "dict"} /\ arg \in Boxes
        /\ g = "list" => Kind[arg] \in {"list", "tuple"}
        /\ g = "tuple" => Kind[arg] = "tuple"
        /\ g = "dict" => Kind[arg] = "dict"
    BY <1>1, <1>11 DEF Open, Opening, Container, DictLike, ListLike, TupleLike, Boxes
  <2>2. pc = "call" /\ pc' = "step" /\ stack' = Append(stack, Call(g, arg))
        /\ UNCHANGED <<pyVars, refs>>
    BY <1>11 DEF Open, Opening
  <2> HIDE DEF g
  <2>3. Bare(Call(g, arg), arg) /\ Call(g, arg).fn = g
    BY <1>1, <2>1, BareCall DEF Fns
  <2>4. Opens
    BY <2>1, <2>2, <2>3 DEF Opens, Quiet, pyVars
  <2> QED BY <2>4 DEF Move
<1>12. CASE OpenSorted
  <2> DEFINE es == items[arg]
             g(f) == [Call("sorted", arg) EXCEPT !.snap = es, !.order = f]
             h == [Call("release", arg) EXCEPT !.snap = es]
  <2>1. /\ pc = "call" /\ pc' = "step" /\ UNCHANGED pyVars /\ Kind[arg] = "dict"
        /\ refs' = refs \cup SnapRefs(Height + 1, es)
        /\ \/ \E f \in Sorted(es) : stack' = Append(stack, g(f))
           \/ stack' = Append(stack, h)
    BY <1>12 DEF OpenSorted, Opening, DictLike
  <2>2. \A f : g(f).fn = "sorted" /\ g(f).obj = arg /\ g(f).snap = es /\ g(f).pos = 0
               /\ g(f).first = TRUE
    BY DEF Call
  <2>3. h.fn = "release" /\ h.obj = arg /\ h.snap = es /\ h.pos = 0 /\ h.first = TRUE
    BY DEF Call
  <2> HIDE DEF g, h
  <2>4. PICK f : /\ stack' = Append(stack, f) /\ f.fn \in {"sorted", "release"}
                 /\ f.obj = arg /\ f.snap = es /\ f.pos = 0 /\ f.first = TRUE
    BY <2>1, <2>2, <2>3
  <2>5. f \in GoodFrame
    <3>1. stack' \in Seq(GoodFrame)
      BY <1>12, TypeSerialize DEF Serialize, ShapeInv, TypeInv
    <3>2. stack'[Len(stack) + 1] = f /\ Len(stack') = Len(stack) + 1 /\ Len(stack) \in Nat
      BY <1>1, <2>4
    <3>3. Len(stack) + 1 \in 1 .. Len(stack')
      BY <3>2
    <3> QED BY <3>1, <3>2, <3>3, ElementOfSeq
  <2>6. Snaps
    BY <2>1, <2>4, <2>5 DEF Snaps, Shot, pyVars
  <2> QED BY <2>6 DEF Move
<1> QED BY <1>2, <1>4, <1>6, <1>7, <1>8, <1>9, <1>10, <1>11, <1>12
       DEF Serialize, WriteScalar, RejectScalar, EnterTooDeep, WriteEmpty, WriteDate,
           LateDatetime, LateDatetimeFails, Return

(* What a list or tuple, and a dict, hold in a place.                      *)
LEMMA ItemIs ==
  ASSUME NEW it, HeapType(it), NEW o \in Obj, Kind[o] \in {"list", "tuple"},
         NEW i \in DOMAIN it[o]
  PROVE  it[o][i][1] \in Obj /\ DOMAIN it[o][i] = {1}
BY EntryTypes

LEMMA PairIs ==
  ASSUME NEW it, HeapType(it), NEW o \in Obj, Kind[o] = "dict", NEW i \in Filled(it[o])
  PROVE  it[o][i][1] \in Obj /\ it[o][i][2] \in Obj /\ DOMAIN it[o][i] = {1, 2}
BY EntryTypes

(* An entry is part of what its container holds.                           *)
LEMMA EntryHeld ==
  ASSUME NEW it, NEW o, NEW i \in DOMAIN it[o], NEW j \in DOMAIN it[o][i]
  PROVE  it[o][i][j] \in Contents(it, o)
BY DEF Contents

LEMMA LoopMoves ==
  ASSUME ShapeInv, Loop
  PROVE  Move
<1>1. pc = "step" /\ UNCHANGED pyVars
  BY DEF Loop, NextItem, CloseList, NextPair, BadKey, CloseDict, NextSorted, EndSorted,
         SkipHole, ReleaseStep, EndRelease
<1>2. /\ Height > 0 /\ Top \in GoodFrame /\ Top \in Frame /\ Top.obj \in Obj
      /\ Top.pos \in Nat /\ Top.pos + 1 \in Nat /\ Height \in Nat
      /\ Below \in Seq(GoodFrame) /\ Len(Below) = Height - 1
      /\ items' = items /\ TypeInv
  <2>1. TypeInv /\ items' = items /\ Height > 0
    BY <1>1, ShapeFacts DEF ShapeInv, pyVars
  <2>2. /\ Top \in GoodFrame /\ Top \in Frame /\ Height \in Nat
        /\ Below \in Seq(GoodFrame) /\ Len(Below) = Height - 1
    BY <2>1, StackFacts DEF GoodFrame
  <2>3. Top.obj \in Obj /\ Top.pos \in Nat
    BY <2>2 DEF Frame
  <2> QED BY <2>1, <2>2, <2>3
<1>3. \A f \in GoodFrame : SetTop(f) = Append(Below, f)
  BY <1>2, StackMoves
<1>4. /\ Moved(Top, Onward(Top))
      /\ Onward(Top).pos = Top.pos + 1 /\ Onward(Top).first = Top.first
  BY <1>2, FrameMoved
<1>5. CASE /\ pc' = "ret" /\ stack' = Below /\ refs' = refs
           /\ Top.fn \in {"list", "tuple", "dict"}
  BY <1>2, <1>5 DEF Move, Leaves, Quiet
<1>6. CASE EndRelease
  BY <1>2, <1>6 DEF Move, Leaves, Quiet, EndRelease, Return, Running
<1>7. CASE NextItem
  <2> DEFINE x == items[Top.obj][Top.pos + 1][1]
             g == Onward(Top)
             h == Call("hold", x)
  <2>1. Top.fn \in {"list", "tuple"} /\ Top.pos < Len(items[Top.obj])
        /\ Visit(x, Top.fn = "list" /\ Guarded(x), SetTop(g))
    BY <1>7 DEF NextItem, Running, Onward
  <2>2. x \in Contents(items, Top.obj) /\ x \in Obj
    <3>1. Kind[Top.obj] \in {"list", "tuple"}
      BY <1>2, <2>1, StackFacts DEF FrameOK
    <3>2. Top.pos + 1 \in DOMAIN items[Top.obj]
      BY <1>2, <2>1, EntryTypes DEF TypeInv
    <3>3. x \in Obj /\ DOMAIN items[Top.obj][Top.pos + 1] = {1}
      <4>1. HeapType(items)
        BY <1>2 DEF TypeInv
      <4> QED BY <1>2, <3>1, <3>2, <4>1, ItemIs
    <3> QED BY <3>2, <3>3, EntryHeld
  <2>3. Moved(Top, g) /\ SetTop(g) = Append(Below, g) /\ g \in GoodFrame
    BY <1>3, <1>4 DEF Moved
  <2>4. Bare(h, x) /\ h.fn = "hold"
    BY <2>2, BarePython
  <2> HIDE DEF g, x, h
  <2>5. Len(Append(Below, g)) = Height
    BY <1>2, <2>3, Pushed
  <2>6. pc' = "call" /\ arg' = x
    BY <2>1 DEF Visit
  <2>7. CASE Top.fn = "list" /\ Guarded(x)
    <3>1. stack' = Append(Append(Below, g), h) /\ refs' = refs \cup {<<Height + 1, 0, 0, x>>}
      BY <2>1, <2>3, <2>5, <2>7 DEF Visit, h
    <3>2. HoldsItem
      BY <1>1, <1>2, <2>2, <2>3, <2>4, <2>6, <2>7, <3>1 DEF HoldsItem
    <3> QED BY <3>2 DEF Move
  <2>8. CASE ~(Top.fn = "list" /\ Guarded(x))
    <3>1. stack' = Append(Below, g) /\ refs' = refs
      BY <2>1, <2>3, <2>8 DEF Visit
    <3>2. Visits
      BY <1>1, <1>2, <2>1, <2>2, <2>3, <2>6, <2>8, <3>1 DEF Visits, Quiet
    <3> QED BY <3>2 DEF Move
  <2> QED BY <2>7, <2>8
<1>8. CASE NextPair
  <2> DEFINE k(i) == items[Top.obj][i][1]
             v(i) == items[Top.obj][i][2]
             g(i) == Jumped(Top, i)
             h(o) == Call("hold", o)
  <2>1. PICK i \in NextEntry(Top.obj, Top.pos) :
          /\ pc' = "call" /\ arg' = v(i)
          /\ IF Guarded(v(i))
               THEN /\ stack' = SetTop(g(i)) \o <<h(k(i)), h(v(i))>>
                    /\ refs' = refs \cup {<<Height + 1, 0, 0, k(i)>>, <<Height + 2, 0, 0, v(i)>>}
               ELSE stack' = SetTop(g(i)) /\ refs' = refs
    BY <1>8 DEF NextPair, Jumped
  <2>2. Top.fn = "dict" /\ Kind[Top.obj] = "dict"
    BY <1>2, <1>8, StackFacts DEF NextPair, Running, FrameOK
  <2>3. i \in Filled(items[Top.obj]) /\ i \in Nat
    BY <1>2, EntryTypes DEF NextEntry, Filled, TypeInv
  <2>4. k(i) \in Obj /\ v(i) \in Obj /\ v(i) \in Contents(items, Top.obj)
    <3>1. k(i) \in Obj /\ v(i) \in Obj /\ DOMAIN items[Top.obj][i] = {1, 2}
      <4>1. HeapType(items)
        BY <1>2 DEF TypeInv
      <4> QED BY <1>2, <2>2, <2>3, <4>1, PairIs
    <3>2. i \in DOMAIN items[Top.obj]
      BY <2>3 DEF Filled
    <3> QED BY <3>1, <3>2, EntryHeld
  <2>5. Moved(Top, g(i)) /\ g(i) \in GoodFrame /\ SetTop(g(i)) = Append(Below, g(i))
    BY <1>2, <1>3, <2>3, FrameMoved DEF Moved
  <2>6. Bare(h(k(i)), k(i)) /\ h(k(i)).fn = "hold" /\ Bare(h(v(i)), v(i)) /\ h(v(i)).fn = "hold"
    BY <2>4, BarePython
  <2> HIDE DEF k, v, g, h
  <2>7. CASE Guarded(v(i))
    <3> DEFINE s == Append(Below, g(i))
               a == h(k(i))
               b == h(v(i))
    <3>1. s \in Seq(GoodFrame) /\ a \in GoodFrame /\ b \in GoodFrame
      BY <1>2, <2>5, <2>6, Pushed DEF Bare
    <3>2. stack' = s \o <<a, b>>
      BY <2>1, <2>5, <2>7
    <3> HIDE DEF s, a, b
    <3>3. s \o <<a, b>> = Append(Append(s, a), b)
      BY <3>1
    <3>4. stack' = Append(Append(Append(Below, g(i)), h(k(i))), h(v(i)))
      BY <3>2, <3>3 DEF s, a, b
    <3>5. HoldsPair
      BY <1>1, <1>2, <2>1, <2>2, <2>4, <2>5, <2>6, <2>7, <3>4 DEF HoldsPair
    <3> QED BY <3>5 DEF Move
  <2>8. CASE ~Guarded(v(i))
    <3>1. Visits
      BY <1>1, <1>2, <2>1, <2>2, <2>4, <2>5, <2>8 DEF Visits, Quiet
    <3> QED BY <3>1 DEF Move
  <2> QED BY <2>7, <2>8
<1>9. CASE NextSorted
  <2> DEFINE n == Top.order[Top.pos + 1]
             x == Top.snap[n][2]
             g == Onward(Top)
  <2>1. Top.pos < Len(Top.order) /\ Top.fn = "sorted" /\ Visit(x, FALSE, SetTop(g))
    BY <1>9 DEF NextSorted, Running, Onward
  <2>2. n \in Filled(Top.snap) /\ x \in Obj
    <3>1. Top.order \in Seq(Nat)
      BY <1>2 DEF Frame
    <3>2. Top.pos + 1 \in DOMAIN Top.order
      BY <1>2, <2>1, <3>1
    <3>3. n \in Filled(Top.snap)
      BY <1>2, <2>1, <3>2, StackFacts DEF FrameOK
    <3> QED BY <1>2, <3>3, SnapTypes
  <2>3. Moved(Top, g) /\ SetTop(g) = Append(Below, g)
    BY <1>3, <1>4 DEF Moved
  <2>4. pc' = "call" /\ arg' = x /\ stack' = SetTop(g) /\ refs' = refs
    BY <2>1 DEF Visit
  <2>5. \E m \in Filled(Top.snap) : arg' = Top.snap[m][2]
    BY <2>2, <2>4
  <2> HIDE DEF n, x, g
  <2>6. Visits
    BY <1>1, <1>2, <2>1, <2>2, <2>3, <2>4, <2>5 DEF Visits, Quiet
  <2> QED BY <2>6 DEF Move
<1>10. CASE EndSorted
  <2> DEFINE g == Releasing(Top)
  <2>1. Top.fn = "sorted" /\ stack' = SetTop(g) /\ pc' = "step" /\ refs' = refs
    BY <1>1, <1>10 DEF EndSorted, Running
  <2>2. g \in GoodFrame /\ g.fn = "release" /\ g.obj = Top.obj /\ g.snap = Top.snap
        /\ g.pos = 0 /\ g.first = TRUE
    BY <1>2, <2>1, FrameMoves DEF Releasing, Frame
  <2> HIDE DEF g
  <2>3. Turned(Top, g)
    BY <2>1, <2>2 DEF Turned
  <2>4. Turns
    BY <1>2, <1>3, <2>1, <2>2, <2>3 DEF Turns, Quiet
  <2> QED BY <2>4 DEF Move
<1>11. CASE SkipHole
  <2> DEFINE g == Onward(Top)
  <2>1. Top.fn = "release" /\ stack' = SetTop(g) /\ pc' = "step" /\ refs' = refs
        /\ Top.pos < Len(Top.snap) /\ Top.snap[Top.pos + 1] = <<>>
    BY <1>1, <1>11 DEF SkipHole, Running, Onward
  <2>2. Moved(Top, g) /\ g.pos = Top.pos + 1 /\ g.first = Top.first /\ g \in GoodFrame
    BY <1>4 DEF Moved
  <2> HIDE DEF g
  <2>3. Turned(Top, g)
    BY <2>1, <2>2 DEF Turned, Moved
  <2>4. Turns
    BY <1>2, <1>3, <2>1, <2>2, <2>3 DEF Turns, Quiet
  <2> QED BY <2>4 DEF Move
<1>12. CASE ReleaseStep
  <2> DEFINE g == HalfOnward(Top)
             d == {<<Height, Top.pos + 1, Half(Top), Top.snap[Top.pos + 1][Half(Top)]>>}
  <2>1. Decref(d, SetTop(g), "step") /\ Top.fn = "release"
        /\ Top.pos < Len(Top.snap) /\ Top.snap[Top.pos + 1] # <<>>
    BY <1>12 DEF ReleaseStep, Running, Half, HalfOnward
  <2>2. Moved(Top, g) /\ g \in GoodFrame
    BY <1>2, FrameMoved DEF Moved
  <2>3. IF Top.first THEN ~g.first /\ g.pos = Top.pos ELSE g.first /\ g.pos = Top.pos + 1
    BY <1>2, FrameMoved
  <2> HIDE DEF g
  <2>4. Released(Top, g)
    BY <2>1, <2>2, <2>3 DEF Released
  <2>5. SetTop(g) = Append(Below, g)
    BY <1>3, <2>2
  <2>6. /\ refs' = refs \ d
        /\ \/ pc' = "step" /\ stack' = Append(Below, g)
           \/ /\ pc' = "python" /\ Lost
              /\ \E e : Bare(e, Root) /\ e.fn = "del" /\ stack' = Append(Append(Below, g), e)
    BY <2>1, <2>5, DecrefMoves
  <2>7. Releases
    BY <1>2, <2>4, <2>6 DEF Releases
  <2> QED BY <2>7 DEF Move
<1> QED BY <1>2, <1>5, <1>6, <1>7, <1>8, <1>9, <1>10, <1>11, <1>12
       DEF Loop, CloseList, CloseDict, BadKey, Return, Running

LEMMA ReturnedMoves ==
  ASSUME ShapeInv, Returned
  PROVE  Move
<1>1. pc = "ret" /\ UNCHANGED pyVars
  BY DEF Returned, ReturnToLoop, ReturnToSorted, ReturnToHold, ReturnToResult, Finish
<1>2. items' = items /\ TypeInv
  BY <1>1 DEF ShapeInv, pyVars
<1>3. ASSUME Height > 0
      PROVE  /\ Top \in GoodFrame /\ Top \in Frame
             /\ \A f \in GoodFrame : SetTop(f) = Append(Below, f)
  BY <1>2, <1>3, StackFacts, StackMoves DEF GoodFrame
<1>4. CASE stack' = stack /\ refs' = refs /\ pc' \in {"step", "done"}
  <2>1. Stays
    BY <1>1, <1>2, <1>4 DEF Stays, Quiet
  <2> QED BY <2>1 DEF Move
<1>5. CASE ReturnToLoop
  <2>1. CASE ok
    BY <1>4, <1>5, <2>1 DEF ReturnToLoop
  <2>2. CASE ~ok
    <3>1. Leaves
      BY <1>2, <1>5, <2>2 DEF ReturnToLoop, Return, Leaves, Quiet
    <3> QED BY <3>1 DEF Move
  <2> QED BY <2>1, <2>2
<1>6. CASE ReturnToSorted
  <2>1. CASE ok
    BY <1>4, <1>6, <2>1 DEF ReturnToSorted
  <2>2. CASE ~ok
    <3> DEFINE g == Releasing(Top)
    <3>1. Height > 0 /\ Top.fn = "sorted" /\ stack' = SetTop(g) /\ pc' = "step" /\ refs' = refs
      BY <1>6, <2>2 DEF ReturnToSorted, Running
    <3>2. g \in GoodFrame /\ g.fn = "release" /\ g.obj = Top.obj /\ g.snap = Top.snap
          /\ g.pos = 0 /\ g.first = TRUE
      BY <1>3, <3>1, FrameMoves DEF Releasing, Frame
    <3> HIDE DEF g
    <3>3. Turned(Top, g)
      BY <3>1, <3>2 DEF Turned
    <3>4. Turns
      BY <1>2, <1>3, <3>1, <3>2, <3>3 DEF Turns, Quiet
    <3> QED BY <3>4 DEF Move
  <2> QED BY <2>1, <2>2
<1>7. CASE ReturnToHold \/ ReturnToResult
  <2>1. Height > 0 /\ Top.fn \in {"hold", "result"}
        /\ Decref({<<Height, 0, 0, Top.obj>>}, Below, "ret")
    BY <1>7 DEF ReturnToHold, ReturnToResult, Running
  <2>2. Drops
    BY <1>1, <1>2, <2>1, DecrefMoves DEF Drops
  <2> QED BY <2>2 DEF Move
<1>8. CASE Finish
  BY <1>4, <1>8 DEF Finish
<1> QED BY <1>5, <1>6, <1>7, <1>8 DEF Returned

LEMMA PythonMoves ==
  ASSUME ShapeInv, Python
  PROVE  Move
<1>1. pc = "python"
  BY DEF Python, PyClear, PyDelete, PyAppend, PyRebuild, PyImport, PyRaise, DefaultReturns,
         TextReturns, OffsetInvalid, ArrayWritten, ArrayDeclined, ProbeReturns, FinalizerReturns
<1>2. /\ Height > 0 /\ TypeInv /\ Top \in GoodFrame /\ Top \in Frame /\ Top.obj \in Obj
      /\ Top.fn \in Transient /\ Top.next \in {"ret", "step"}
  <2>1. TypeInv /\ Height > 0 /\ Top.fn \in Transient
    BY <1>1, ShapeFacts DEF ShapeInv
  <2>2. Top \in GoodFrame /\ Top \in Frame
    BY <2>1, StackFacts DEF GoodFrame
  <2> QED BY <2>1, <2>2 DEF Frame
<1>3. \A f \in GoodFrame : SetTop(f) = Append(Below, f)
  BY <1>2, StackMoves
<1>4. CASE pc' \in {"ret", "step"} /\ stack' = Below /\ items' = items /\ refs' = refs
  <2>1. Leaves
    BY <1>2, <1>4 DEF Leaves, Quiet, Transient
  <2> QED BY <2>1 DEF Move
<1>5. CASE PyRaise \/ TextReturns \/ ArrayWritten \/ FinalizerReturns
  BY <1>2, <1>4, <1>5
     DEF PyRaise, TextReturns, ArrayWritten, FinalizerReturns, Return, pyVars
<1>6. ASSUME NEW o \in Mutable, NEW es, PyChange(o, es) PROVE Move
  <2>1. items' = [items EXCEPT ![o] = es] /\ stack' = stack /\ refs' = refs /\ pc' = pc
    BY <1>6 DEF PyChange, rustVars
  <2>2. \A p \in Obj : Kind[p] = "tuple" => items'[p] = items[p]
    <3>1. items \in [Obj -> Seq(Entry)] /\ Kind[o] \in {"list", "dict"}
      BY <1>2 DEF TypeInv, HeapType, Mutable
    <3> QED BY <2>1, <3>1
  <2>3. Changes
    BY <1>1, <2>1, <2>2 DEF Changes
  <2> QED BY <2>3 DEF Move
<1>7. CASE PyClear \/ PyDelete \/ PyAppend \/ PyRebuild
  <2>1. \E o \in Mutable : \E es : PyChange(o, es)
    BY <1>7 DEF PyClear, PyDelete, PyAppend, PyRebuild
  <2> QED BY <1>6, <2>1
<1>8. CASE PyImport \/ ArrayDeclined
  <2>1. stack' = stack /\ items' = items /\ refs' = refs /\ pc' \in {"python", "rollback"}
    BY <1>1, <1>8 DEF PyImport, ArrayDeclined, pyVars, rustVars
  <2>2. Stays
    BY <1>1, <2>1 DEF Stays, Quiet
  <2> QED BY <2>2 DEF Move
<1>9. CASE DefaultReturns
  <2>1. PICK r \in PyValues : /\ stack' = Append(Below, Call("result", r))
                              /\ refs' = refs \cup {<<Height, 0, 0, r>>} /\ arg' = r
    BY <1>9 DEF DefaultReturns
  <2>2. r \in Obj
    BY <1>2, AliveType
  <2>3. Bare(Call("result", r), r) /\ Call("result", r).fn = "result"
    BY <2>2, BarePython
  <2>4. pc' = "call" /\ items' = items /\ Top.fn = "default"
    BY <1>9 DEF DefaultReturns, Running
  <2>5. Takes
    BY <1>1, <1>2, <2>1, <2>2, <2>3, <2>4 DEF Takes
  <2> QED BY <2>5 DEF Move
<1>10. ASSUME NEW f \in GoodFrame, f.obj = Top.obj, f.snap \in {<<>>, Top.snap},
              f.fn \in Asking, stack' = Append(Below, f), Top.fn \in Asking,
              pc' = "python", items' = items, refs' = refs
       PROVE  Move
  <2>1. Hands
    BY <1>1, <1>2, <1>10 DEF Hands, Quiet
  <2> QED BY <2>1 DEF Move
<1>11. CASE OffsetInvalid
  <2> DEFINE f == [Top EXCEPT !.pos = 1]
  <2>1. f \in GoodFrame
    BY <1>2, FrameMoves
  <2>2. f.fn = Top.fn /\ f.obj = Top.obj /\ f.snap = Top.snap
    BY <1>2 DEF Frame
  <2>3. Top.fn = "utcoffset" /\ stack' = SetTop(f) /\ pc' = "python" /\ items' = items
        /\ refs' = refs
    BY <1>11 DEF OffsetInvalid, Running, pyVars
  <2> HIDE DEF f
  <2>4. stack' = Append(Below, f)
    BY <1>3, <2>1, <2>3
  <2> QED BY <1>10, <2>1, <2>2, <2>3, <2>4 DEF Asking, Transient
<1>12. CASE ProbeReturns
  <2>1. Top.fn = "probe" /\ items' = items /\ refs' = refs
    BY <1>12 DEF ProbeReturns, Running, pyVars
  <2>2. CASE InvokeDefault(Top.obj, Below)
    <3>1. CASE pc' = "ret" /\ stack' = Below
      BY <1>4, <2>1, <3>1
    <3>2. CASE /\ pc' = "python"
               /\ \E f : Bare(f, Top.obj) /\ f.fn = "default" /\ stack' = Append(Below, f)
      <4>1. PICK f : Bare(f, Top.obj) /\ f.fn = "default" /\ stack' = Append(Below, f)
        BY <3>2
      <4> QED BY <1>10, <2>1, <3>2, <4>1 DEF Bare, Asking, Transient
    <3> QED BY <1>2, <2>2, <3>1, <3>2, InvokeMoves
  <2>3. CASE /\ stack' = SetTop([Call("array", Top.obj) EXCEPT !.pos = Len(out)])
             /\ UNCHANGED <<pc, ok>>
    <3> DEFINE f == [Call("array", Top.obj) EXCEPT !.pos = Len(out)]
    <3>1. Len(out) \in Nat
      BY <1>2 DEF TypeInv
    <3>2. Bare(f, Top.obj) /\ f.fn = "array"
      BY <1>2, <3>1, BareArray
    <3>3. stack' = SetTop(f) /\ pc' = "python"
      BY <1>1, <2>3
    <3> HIDE DEF f
    <3>4. f \in GoodFrame /\ f.obj = Top.obj /\ f.snap = <<>> /\ stack' = Append(Below, f)
      BY <1>3, <3>2, <3>3 DEF Bare
    <3> QED BY <1>10, <2>1, <3>2, <3>3, <3>4 DEF Asking, Transient
  <2> QED BY <1>12, <2>2, <2>3 DEF ProbeReturns
<1> QED BY <1>5, <1>7, <1>8, <1>9, <1>11, <1>12 DEF Python

LEMMA StepMoves ==
  ASSUME ShapeInv, [Next]_vars
  PROVE  Move
<1>1. CASE UNCHANGED vars \/ Terminated
  BY <1>1 DEF Terminated, vars, Move, Stays, Quiet
<1> QED BY <1>1, SerializeMoves, LoopMoves, ReturnedMoves, PythonMoves DEF Next

-----------------------------------------------------------------------------
(* What frames own. *)

(* The references of the frame f at level l, and those of a whole stack.   *)
Ours(l, f) ==
  CASE f.fn \in {"hold", "result"}    -> {<<l, 0, 0, f.obj>>}
    [] f.fn \in {"sorted", "release"} -> {<<l, p[1], p[2], f.snap[p[1]][p[2]]>> :
                                            p \in Unreleased(f)}
    [] OTHER                          -> {}
AllOf(s) == UNION {Ours(l, s[l]) : l \in DOMAIN s}

(* release stands between a value and its key only at an entry.            *)
Neat(f) ==
  /\ f.fn \notin {"sorted", "release"} => f.snap = <<>>
  /\ f.fn = "tuple" => Kind[f.obj] = "tuple"
  /\ f.fn = "release" /\ ~f.first => f.pos < Len(f.snap) /\ f.snap[f.pos + 1] # <<>>
NeatOn(s) == \A l \in DOMAIN s : Neat(s[l])

BalanceInv == ShapeInv /\ NeatOn(stack) /\ refs = AllOf(stack)

(* Entry i's part j has not been released.                                 *)
Kept(f, i, j) ==
  f.fn = "release" => i > f.pos + 1 \/ (i = f.pos + 1 /\ (f.first \/ j = 1))

LEMMA OursIs ==
  ASSUME NEW l, NEW f \in GoodFrame
  PROVE  /\ f.fn \in {"hold", "result"} => Ours(l, f) = {<<l, 0, 0, f.obj>>}
         /\ f.fn \in {"sorted", "release"} =>
              \A t : t \in Ours(l, f) <=>
                       \E i \in Filled(f.snap), j \in {1, 2} :
                         Kept(f, i, j) /\ t = <<l, i, j, f.snap[i][j]>>
         /\ f.fn \notin {"hold", "result", "sorted", "release"} => Ours(l, f) = {}
         /\ \A t \in Ours(l, f) : t[1] = l
<1>1. f.fn \in {"hold", "result"} => Ours(l, f) = {<<l, 0, 0, f.obj>>}
  BY DEF Ours
<1>2. f.fn \notin {"hold", "result", "sorted", "release"} => Ours(l, f) = {}
  BY DEF Ours
<1>3. ASSUME f.fn \in {"sorted", "release"}, NEW t
      PROVE  t \in Ours(l, f) <=> \E i \in Filled(f.snap), j \in {1, 2} :
                                    Kept(f, i, j) /\ t = <<l, i, j, f.snap[i][j]>>
  <2>1. Ours(l, f) = {<<l, p[1], p[2], f.snap[p[1]][p[2]]>> : p \in Unreleased(f)}
    BY <1>3 DEF Ours
  <2>2. ASSUME t \in Ours(l, f)
        PROVE  \E i \in Filled(f.snap), j \in {1, 2} :
                 Kept(f, i, j) /\ t = <<l, i, j, f.snap[i][j]>>
    <3>1. PICK p \in Unreleased(f) : t = <<l, p[1], p[2], f.snap[p[1]][p[2]]>>
      BY <2>1, <2>2
    <3>2. p \in Filled(f.snap) \X {1, 2} /\ Kept(f, p[1], p[2])
      BY <3>1 DEF Unreleased, Kept
    <3>3. p[1] \in Filled(f.snap) /\ p[2] \in {1, 2}
      BY <3>2
    <3> QED BY <3>1, <3>2, <3>3
  <2>3. ASSUME NEW i \in Filled(f.snap), NEW j \in {1, 2}, Kept(f, i, j),
               t = <<l, i, j, f.snap[i][j]>>
        PROVE  t \in Ours(l, f)
    <3>1. <<i, j>> \in Filled(f.snap) \X {1, 2} /\ <<i, j>>[1] = i /\ <<i, j>>[2] = j
      OBVIOUS
    <3>2. <<i, j>> \in Unreleased(f)
      BY <2>3, <3>1 DEF Unreleased, Kept
    <3> QED BY <2>1, <2>3, <3>1, <3>2
  <2> QED BY <2>2, <2>3
<1>4. ASSUME NEW t \in Ours(l, f) PROVE t[1] = l
  <2>1. CASE f.fn \in {"hold", "result"}
    BY <1>1, <1>4, <2>1
  <2>2. CASE f.fn \in {"sorted", "release"}
    <3>1. PICK i \in Filled(f.snap), j \in {1, 2} : t = <<l, i, j, f.snap[i][j]>>
      BY <1>3, <1>4, <2>2
    <3> QED BY <3>1
  <2>3. CASE f.fn \notin {"hold", "result", "sorted", "release"}
    BY <1>2, <1>4, <2>3
  <2> QED BY <2>1, <2>2, <2>3
<1> QED BY <1>1, <1>2, <1>3, <1>4

LEMMA SnapFacts ==
  ASSUME NEW f \in GoodFrame
  PROVE  /\ Filled(f.snap) \subseteq 1 .. Len(f.snap) /\ Len(f.snap) \in Nat
         /\ f.pos \in Nat /\ f.first \in BOOLEAN /\ f.obj \in Obj
         /\ \A i \in Filled(f.snap) : f.snap[i] # <<>>
         /\ \A i \in 1 .. Len(f.snap) : f.snap[i] # <<>> => i \in Filled(f.snap)
<1>1. f \in Frame
  BY DEF GoodFrame
<1>2. DOMAIN f.snap = 1 .. Len(f.snap) /\ Len(f.snap) \in Nat
  BY <1>1, SnapTypes
<1> QED BY <1>1, <1>2 DEF Filled, Frame

LEMMA OursTurned ==
  ASSUME NEW l, NEW f \in GoodFrame, NEW g, Turned(f, g), Neat(f)
  PROVE  Ours(l, g) = Ours(l, f) /\ Neat(g)
<1>1. /\ g \in GoodFrame /\ g.fn = "release" /\ g.snap = f.snap /\ g.obj = f.obj
      /\ f.fn \in {"sorted", "release"}
  BY DEF Turned
<1>2. g.first
  BY DEF Turned, Neat
<1>3. ASSUME NEW i \in Filled(f.snap), NEW j \in {1, 2} PROVE Kept(g, i, j) <=> Kept(f, i, j)
  <2>1. i \in Nat \ {0} /\ f.snap[i] # <<>> /\ f.pos \in Nat
    BY <1>3, SnapFacts
  <2>2. CASE f.fn = "sorted"
    BY <1>1, <1>2, <2>1, <2>2 DEF Turned, Kept
  <2>3. CASE f.fn = "release"
    <3>1. f.first /\ f.snap[f.pos + 1] = <<>> /\ g.pos = f.pos + 1
      BY <2>3 DEF Turned, Neat
    <3>2. i # f.pos + 1
      BY <2>1, <3>1
    <3>3. i > f.pos + 1 <=> i > f.pos + 2 \/ i = f.pos + 2
      BY <2>1
    <3> QED BY <1>1, <1>2, <2>1, <2>3, <3>1, <3>2, <3>3 DEF Kept
  <2> QED BY <1>1, <2>2, <2>3
<1>4. \A t : t \in Ours(l, g) <=> t \in Ours(l, f)
  BY <1>1, <1>3, OursIs
<1> QED BY <1>1, <1>2, <1>4 DEF Neat

LEMMA OursReleased ==
  ASSUME NEW l, NEW f \in GoodFrame, NEW g, Released(f, g), Neat(f)
  PROVE  /\ Ours(l, g) = Ours(l, f) \ {<<l, f.pos + 1, Half(f), f.snap[f.pos + 1][Half(f)]>>}
         /\ Neat(g)
<1>1. /\ g \in GoodFrame /\ g.fn = "release" /\ g.snap = f.snap /\ g.obj = f.obj
      /\ f.fn = "release" /\ f.pos < Len(f.snap) /\ f.snap[f.pos + 1] # <<>>
      /\ IF f.first THEN ~g.first /\ g.pos = f.pos ELSE g.first /\ g.pos = f.pos + 1
  BY DEF Released, Moved
<1>2. f.pos \in Nat /\ Half(f) \in {1, 2} /\ f.pos + 1 \in Nat
  BY SnapFacts DEF Half
<1>3. ASSUME NEW i \in Filled(f.snap), NEW j \in {1, 2}
      PROVE  Kept(g, i, j) <=> Kept(f, i, j) /\ ~(i = f.pos + 1 /\ j = Half(f))
  <2>1. i \in Nat
    <3>1. i \in 1 .. Len(f.snap) /\ Len(f.snap) \in Nat
      BY <1>3, SnapFacts
    <3> QED BY <3>1
  <2>2. CASE f.first
    BY <1>1, <1>2, <1>3, <2>1, <2>2 DEF Kept, Half
  <2>3. CASE ~f.first
    BY <1>1, <1>2, <1>3, <2>1, <2>3 DEF Kept, Half
  <2> QED BY <2>2, <2>3
<1> DEFINE u == <<l, f.pos + 1, Half(f), f.snap[f.pos + 1][Half(f)]>>
<1>4. ASSUME NEW t PROVE t \in Ours(l, g) <=> t \in Ours(l, f) /\ t # u
  <2>1. ASSUME t \in Ours(l, g) PROVE t \in Ours(l, f) /\ t # u
    <3>1. PICK i \in Filled(f.snap), j \in {1, 2} : Kept(g, i, j) /\ t = <<l, i, j, f.snap[i][j]>>
      BY <1>1, <2>1, OursIs
    <3>2. Kept(f, i, j) /\ ~(i = f.pos + 1 /\ j = Half(f))
      BY <1>3, <3>1
    <3>3. t # u
      BY <3>1, <3>2
    <3>4. t \in Ours(l, f)
      BY <1>1, <3>1, <3>2, OursIs
    <3> QED BY <3>3, <3>4
  <2>2. ASSUME t \in Ours(l, f), t # u PROVE t \in Ours(l, g)
    <3>1. PICK i \in Filled(f.snap), j \in {1, 2} : Kept(f, i, j) /\ t = <<l, i, j, f.snap[i][j]>>
      BY <1>1, <2>2, OursIs
    <3>2. ~(i = f.pos + 1 /\ j = Half(f))
      BY <2>2, <3>1
    <3>3. Kept(g, i, j)
      BY <1>3, <3>1, <3>2
    <3> QED BY <1>1, <3>1, <3>3, OursIs
  <2> QED BY <2>1, <2>2
<1>5. Neat(g)
  BY <1>1 DEF Neat
<1> QED BY <1>4, <1>5

LEMMA AllPushed ==
  ASSUME NEW s \in Seq(GoodFrame), NEW f \in GoodFrame
  PROVE  /\ Append(s, f) \in Seq(GoodFrame) /\ Len(Append(s, f)) = Len(s) + 1
         /\ Len(s) \in Nat
         /\ AllOf(Append(s, f)) = AllOf(s) \cup Ours(Len(s) + 1, f)
         /\ AllOf(s) = AllOf(Append(s, f)) \ Ours(Len(s) + 1, f)
         /\ NeatOn(Append(s, f)) <=> NeatOn(s) /\ Neat(f)
<1> DEFINE t == Append(s, f)
           n == Len(s)
<1>1. DOMAIN s = 1 .. n /\ n \in Nat
  OBVIOUS
<1>2. /\ t \in Seq(GoodFrame) /\ Len(t) = n + 1 /\ \A l \in 1 .. n : t[l] = s[l]
      /\ t[n + 1] = f
  BY Pushed
<1>3. DOMAIN t = 1 .. n + 1
  BY <1>2
<1> HIDE DEF t, n
<1>4. DOMAIN t = DOMAIN s \cup {n + 1} /\ n + 1 \notin DOMAIN s
  BY <1>1, <1>3
<1>5. \A l \in DOMAIN s : t[l] = s[l]
  BY <1>1, <1>2
<1>6. AllOf(t) = AllOf(s) \cup Ours(n + 1, f)
  <2>1. ASSUME NEW x \in AllOf(t) PROVE x \in AllOf(s) \cup Ours(n + 1, f)
    <3>1. PICK l \in DOMAIN t : x \in Ours(l, t[l])
      BY <2>1 DEF AllOf
    <3>2. CASE l \in DOMAIN s
      BY <1>5, <3>1, <3>2 DEF AllOf
    <3>3. CASE l = n + 1
      BY <1>2, <3>1, <3>3
    <3> QED BY <1>4, <3>1, <3>2, <3>3
  <2>2. ASSUME NEW x \in AllOf(s) PROVE x \in AllOf(t)
    <3>1. PICK l \in DOMAIN s : x \in Ours(l, s[l])
      BY <2>2 DEF AllOf
    <3>2. l \in DOMAIN t /\ x \in Ours(l, t[l])
      BY <1>4, <1>5, <3>1
    <3> QED BY <3>2 DEF AllOf
  <2>3. ASSUME NEW x \in Ours(n + 1, f) PROVE x \in AllOf(t)
    <3>1. n + 1 \in DOMAIN t /\ x \in Ours(n + 1, t[n + 1])
      BY <1>2, <1>4, <2>3
    <3> QED BY <3>1 DEF AllOf
  <2> QED BY <2>1, <2>2, <2>3
<1>7. AllOf(s) \cap Ours(n + 1, f) = {}
  <2> SUFFICES ASSUME NEW x \in AllOf(s), x \in Ours(n + 1, f) PROVE FALSE
    OBVIOUS
  <2>1. PICK l \in DOMAIN s : x \in Ours(l, s[l])
    BY DEF AllOf
  <2>2. s[l] \in GoodFrame
    BY <1>1, ElementOfSeq DEF n
  <2>3. x[1] = l /\ x[1] = n + 1
    BY <2>1, <2>2, OursIs
  <2> QED BY <1>4, <2>1, <2>3
<1>8. NeatOn(t) <=> NeatOn(s) /\ Neat(f)
  BY <1>2, <1>4, <1>5 DEF NeatOn
<1>9. AllOf(s) = AllOf(t) \ Ours(n + 1, f)
  BY <1>6, <1>7
<1> QED BY <1>1, <1>2, <1>6, <1>8, <1>9 DEF t, n

LEMMA OwnNothing ==
  ASSUME NEW l, NEW f \in GoodFrame, f.snap = <<>>, f.fn \notin {"hold", "result"}
  PROVE  Ours(l, f) = {}
<1>1. Filled(f.snap) = {}
  BY DEF Filled
<1>2. \A t : t \notin Ours(l, f)
  BY <1>1, OursIs
<1> QED BY <1>2

(* A loop that moves on owns what it owned.                                *)
LEMMA OursMoved ==
  ASSUME NEW l, NEW f \in GoodFrame, NEW g, Moved(f, g), f.fn # "release", Neat(f)
  PROVE  Ours(l, g) = Ours(l, f) /\ Neat(g)
<1>1. g \in GoodFrame /\ g.fn = f.fn /\ g.obj = f.obj /\ g.snap = f.snap /\ g.fn # "release"
  BY DEF Moved
<1>2. Unreleased(g) = Unreleased(f)
  BY <1>1 DEF Unreleased
<1>3. Ours(l, g) = Ours(l, f)
  BY <1>1, <1>2 DEF Ours
<1> QED BY <1>1, <1>3 DEF Neat

(* A snapshot that was just taken, and one that has been released.         *)
LEMMA OursShot ==
  ASSUME NEW l, NEW f, NEW o, Shot(f, o)
  PROVE  Ours(l, f) = SnapRefs(l, items[o]) /\ Neat(f)
<1>1. f \in GoodFrame /\ f.snap = items[o] /\ f.fn \in {"sorted", "release"} /\ f.pos = 0
      /\ f.first
  BY DEF Shot
<1>2. ASSUME NEW i \in Filled(f.snap), NEW j \in {1, 2} PROVE Kept(f, i, j)
  <2>1. i \in 1 .. Len(f.snap) /\ Len(f.snap) \in Nat
    BY <1>1, SnapFacts
  <2>2. i > 1 \/ i = 1
    BY <2>1
  <2> QED BY <1>1, <2>2 DEF Kept
<1>3. \A t : t \in Ours(l, f) <=>
               \E i \in Filled(f.snap), j \in {1, 2} : t = <<l, i, j, f.snap[i][j]>>
  BY <1>1, <1>2, OursIs
<1>4. \A t : t \in SnapRefs(l, items[o]) <=>
               \E i \in Filled(f.snap), j \in {1, 2} : t = <<l, i, j, f.snap[i][j]>>
  BY <1>1 DEF SnapRefs
<1> QED BY <1>1, <1>3, <1>4, ZenonT(60) DEF Neat

LEMMA OursGone ==
  ASSUME NEW l, NEW f \in GoodFrame, f.fn = "release", f.pos >= Len(f.snap)
  PROVE  Ours(l, f) = {}
<1>1. ASSUME NEW i \in Filled(f.snap), NEW j PROVE ~Kept(f, i, j)
  <2>1. i \in 1 .. Len(f.snap) /\ Len(f.snap) \in Nat /\ f.pos \in Nat
    BY SnapFacts
  <2>2. ~(i > f.pos + 1) /\ i # f.pos + 1
    BY <2>1
  <2> QED BY <2>2 DEF Kept
<1>2. \A t : t \notin Ours(l, f)
  BY <1>1, OursIs
<1> QED BY <1>2

(* The references of the top frame and those below it.                     *)
LEMMA BalanceSplit ==
  ASSUME BalanceInv, Height > 0
  PROVE  /\ Below \in Seq(GoodFrame) /\ Top \in GoodFrame /\ Len(Below) + 1 = Height
         /\ Height \in Nat
         /\ stack = Append(Below, Top)
         /\ NeatOn(Below) /\ Neat(Top)
         /\ refs = AllOf(Below) \cup Ours(Height, Top)
         /\ AllOf(Below) = refs \ Ours(Height, Top)
<1>1. /\ Below \in Seq(GoodFrame) /\ Top \in GoodFrame /\ Len(Below) + 1 = Height
      /\ Height \in Nat /\ stack = Append(Below, Top)
  BY StackFacts, StackMoves DEF BalanceInv, ShapeInv, GoodFrame
<1>2. /\ AllOf(stack) = AllOf(Below) \cup Ours(Height, Top)
      /\ AllOf(Below) = AllOf(stack) \ Ours(Height, Top)
      /\ NeatOn(stack) => NeatOn(Below) /\ Neat(Top)
  BY <1>1, AllPushed
<1> QED BY <1>1, <1>2 DEF BalanceInv

Balanced(s, r) == NeatOn(s) /\ r = AllOf(s)

(* Pushing a frame that owns what was added.                               *)
LEMMA BalancedPush ==
  ASSUME NEW s \in Seq(GoodFrame), NEW r, Balanced(s, r), NEW f \in GoodFrame, Neat(f)
  PROVE  Balanced(Append(s, f), r \cup Ours(Len(s) + 1, f))
BY AllPushed DEF Balanced

LEMMA BalancedBare ==
  ASSUME NEW s \in Seq(GoodFrame), NEW r, Balanced(s, r), NEW o, NEW f, Bare(f, o),
         f.fn \notin {"hold", "result", "release"}
  PROVE  Balanced(Append(s, f), r) /\ Append(s, f) \in Seq(GoodFrame)
<1>1. f \in GoodFrame /\ f.snap = <<>> /\ Neat(f)
  BY DEF Bare, Neat
<1>2. Ours(Len(s) + 1, f) = {}
  BY <1>1, OwnNothing
<1> QED BY <1>1, <1>2, AllPushed, ZenonT(60) DEF Balanced

LEMMA BalancedTaken ==
  ASSUME NEW s \in Seq(GoodFrame), NEW r, Balanced(s, r), NEW o, NEW f, Bare(f, o),
         f.fn \in {"hold", "result"}
  PROVE  /\ Balanced(Append(s, f), r \cup {<<Len(s) + 1, 0, 0, o>>})
         /\ Append(s, f) \in Seq(GoodFrame) /\ Len(Append(s, f)) = Len(s) + 1
<1>1. f \in GoodFrame /\ f.obj = o /\ Neat(f)
  BY DEF Bare, Neat
<1>2. Ours(Len(s) + 1, f) = {<<Len(s) + 1, 0, 0, o>>}
  BY <1>1, OursIs
<1> QED BY <1>1, <1>2, AllPushed DEF Balanced

LEMMA BalanceStep ==
  ASSUME BalanceInv, [Next]_vars
  PROVE  BalanceInv'
<1>1. Move /\ ShapeInv'
  BY StepMoves, ShapeStep DEF BalanceInv
<1>2. Balanced(stack, refs) /\ stack \in Seq(GoodFrame) /\ Len(stack) = Height
  BY DEF BalanceInv, ShapeInv, TypeInv, Balanced, Height
<1>3. SUFFICES Balanced(stack', refs')
  BY <1>1 DEF BalanceInv, Balanced, NeatOn, AllOf, Neat, Ours
<1>4. ASSUME Height > 0
      PROVE  /\ Below \in Seq(GoodFrame) /\ Top \in GoodFrame /\ Len(Below) + 1 = Height
             /\ NeatOn(Below) /\ Neat(Top) /\ Height \in Nat
             /\ refs = AllOf(Below) \cup Ours(Height, Top)
             /\ AllOf(Below) = refs \ Ours(Height, Top)
             /\ Balanced(Below, refs \ Ours(Height, Top))
  BY <1>4, BalanceSplit DEF Balanced
<1>5. ASSUME Height > 0, Ours(Height, Top) = {} PROVE Balanced(Below, refs)
  BY <1>4, <1>5 DEF Balanced
<1>6. ASSUME Height > 0, NEW f \in GoodFrame, Neat(f), Ours(Height, f) = Ours(Height, Top)
      PROVE  Balanced(Append(Below, f), refs)
  <2>1. Len(Below) + 1 = Height /\ Below \in Seq(GoodFrame) /\ NeatOn(Below)
        /\ refs = AllOf(Below) \cup Ours(Height, Top)
    BY <1>4, <1>6
  <2> QED BY <1>6, <2>1, AllPushed DEF Balanced
<1>7. CASE Stays \/ Changes
  BY <1>2, <1>7 DEF Stays, Changes, Quiet
<1>8. CASE Asks \/ Opens
  <2>1. PICK f : /\ Bare(f, arg) /\ f.fn \notin {"hold", "result", "release"}
                 /\ stack' = Append(stack, f) /\ refs' = refs
    BY <1>8 DEF Asks, Opens, Quiet, Asking, Transient
  <2> QED BY <1>2, <2>1, BalancedBare
<1>9. CASE Snaps
  <2>1. PICK f : /\ Shot(f, arg) /\ stack' = Append(stack, f)
                 /\ refs' = refs \cup SnapRefs(Height + 1, items[arg])
    BY <1>9 DEF Snaps
  <2>2. Neat(f) /\ f \in GoodFrame /\ Ours(Height + 1, f) = SnapRefs(Height + 1, items[arg])
    BY <2>1, OursShot DEF Shot
  <2> QED BY <1>2, <2>1, <2>2, BalancedPush
<1>10. CASE Hands
  <2>1. PICK f : /\ f \in GoodFrame /\ f.snap \in {<<>>, Top.snap} /\ f.fn \in Asking
                 /\ Height > 0 /\ Top.fn \in Asking
                 /\ stack' = Append(Below, f) /\ refs' = refs
    BY <1>10 DEF Hands, Quiet
  <2>2. Top.snap = <<>> /\ f.snap = <<>> /\ Neat(f)
    BY <1>4, <2>1 DEF Neat, Asking, Transient
  <2>3. Ours(Height, f) = {} /\ Ours(Height, Top) = {}
    BY <1>4, <2>1, <2>2, OwnNothing DEF Asking, Transient
  <2> QED BY <1>6, <2>1, <2>2, <2>3
<1>11. CASE Leaves
  <2>1. /\ Height > 0 /\ stack' = Below /\ refs' = refs
        /\ Top.fn \notin {"hold", "result", "sorted"}
        /\ Top.fn = "release" => Top.pos >= Len(Top.snap)
    BY <1>11 DEF Leaves, Quiet
  <2>2. Ours(Height, Top) = {}
    BY <1>4, <2>1, OursIs, OursGone
  <2> QED BY <1>5, <2>1, <2>2
<1>12. CASE Turns
  <2>1. PICK f : Turned(Top, f) /\ stack' = Append(Below, f) /\ refs' = refs /\ Height > 0
    BY <1>12 DEF Turns, Quiet
  <2>2. f \in GoodFrame /\ Neat(f) /\ Ours(Height, f) = Ours(Height, Top)
    BY <1>4, <2>1, OursTurned DEF Turned
  <2> QED BY <1>6, <2>1, <2>2
<1>13. CASE Releases
  <2> DEFINE t == <<Height, Top.pos + 1, Half(Top), Top.snap[Top.pos + 1][Half(Top)]>>
  <2>1. PICK f : /\ Released(Top, f) /\ refs' = refs \ {t} /\ Height > 0
                 /\ \/ stack' = Append(Below, f)
                    \/ \E d : /\ Bare(d, Root) /\ d.fn = "del"
                              /\ stack' = Append(Append(Below, f), d)
    BY <1>13 DEF Releases
  <2>2. f \in GoodFrame /\ Neat(f) /\ Ours(Height, f) = Ours(Height, Top) \ {t}
    BY <1>4, <2>1, OursReleased DEF Released, Moved
  <2>3. t \notin AllOf(Below)
    <3>1. CASE t \in Ours(Height, Top)
      BY <1>4, <2>1, <3>1
    <3>2. CASE t \notin Ours(Height, Top)
      <4>1. /\ Top.fn = "release" /\ Top.pos < Len(Top.snap) /\ Top.snap[Top.pos + 1] # <<>>
        BY <2>1 DEF Released
      <4>2. Top.pos + 1 \in Filled(Top.snap) /\ Half(Top) \in {1, 2} /\ Top.pos \in Nat
            /\ Top.pos + 1 = Top.pos + 1
        BY <1>4, <2>1, <4>1, SnapFacts DEF Half
      <4>3. Kept(Top, Top.pos + 1, Half(Top))
        BY <4>2 DEF Kept, Half
      <4>4. t \in Ours(Height, Top)
        BY <1>4, <2>1, <4>1, <4>2, <4>3, OursIs, SMTT(60)
      <4> QED BY <3>2, <4>4
    <3> QED BY <3>1, <3>2
  <2> HIDE DEF t
  <2>4. Balanced(Append(Below, f), refs') /\ Append(Below, f) \in Seq(GoodFrame)
    <3>1. Below \in Seq(GoodFrame) /\ Len(Below) + 1 = Height /\ NeatOn(Below)
          /\ refs = AllOf(Below) \cup Ours(Height, Top)
      BY <1>4, <2>1
    <3>2. refs' = AllOf(Below) \cup Ours(Height, f)
      BY <2>1, <2>2, <2>3, <3>1
    <3> QED BY <2>2, <3>1, <3>2, AllPushed DEF Balanced
  <2> QED BY <2>1, <2>4, BalancedBare
<1>14. CASE Drops
  <2>1. /\ Height > 0 /\ Top.fn \in {"hold", "result"}
        /\ refs' = refs \ {<<Height, 0, 0, Top.obj>>}
        /\ \/ stack' = Below
           \/ \E d : Bare(d, Root) /\ d.fn = "del" /\ stack' = Append(Below, d)
    BY <1>14 DEF Drops
  <2>2. Ours(Height, Top) = {<<Height, 0, 0, Top.obj>>}
    BY <1>4, <2>1, OursIs
  <2>3. Balanced(Below, refs') /\ Below \in Seq(GoodFrame)
    BY <1>4, <2>1, <2>2
  <2> QED BY <2>1, <2>3, BalancedBare
<1>15. CASE Takes
  <2>1. PICK f : /\ Bare(f, arg') /\ f.fn = "result" /\ stack' = Append(Below, f)
                 /\ Height > 0 /\ Top.fn = "default" /\ refs' = refs \cup {<<Height, 0, 0, arg'>>}
    BY <1>15 DEF Takes
  <2>2. Ours(Height, Top) = {}
    BY <1>4, <2>1, OursIs
  <2>3. Balanced(Below, refs) /\ Below \in Seq(GoodFrame) /\ Len(Below) + 1 = Height
    BY <1>4, <1>5, <2>1, <2>2
  <2>4. Balanced(Append(Below, f), refs \cup {<<Len(Below) + 1, 0, 0, arg'>>})
    BY <2>1, <2>3, BalancedTaken
  <2> QED BY <2>1, <2>3, <2>4
<1>16. ASSUME Height > 0, NEW f, Moved(Top, f), Top.fn # "release"
       PROVE  /\ Balanced(Append(Below, f), refs) /\ Append(Below, f) \in Seq(GoodFrame)
              /\ Len(Append(Below, f)) = Height /\ Height \in Nat
  <2>1. f \in GoodFrame /\ Neat(f) /\ Ours(Height, f) = Ours(Height, Top)
    BY <1>4, <1>16, OursMoved DEF Moved
  <2> QED BY <1>4, <1>6, <1>16, <2>1, AllPushed
<1>17. CASE Visits
  <2>1. PICK f : /\ Moved(Top, f) /\ Height > 0 /\ Top.fn # "release"
                 /\ stack' = Append(Below, f) /\ refs' = refs
    BY <1>17 DEF Visits, Quiet
  <2> QED BY <1>16, <2>1
<1>18. CASE HoldsItem
  <2>1. PICK f, h : /\ Moved(Top, f) /\ Height > 0 /\ Top.fn # "release"
                    /\ Bare(h, arg') /\ h.fn = "hold"
                    /\ stack' = Append(Append(Below, f), h)
                    /\ refs' = refs \cup {<<Height + 1, 0, 0, arg'>>}
    BY <1>18 DEF HoldsItem
  <2> DEFINE s == Append(Below, f)
  <2>2. Balanced(s, refs) /\ s \in Seq(GoodFrame) /\ Len(s) = Height
    BY <1>16, <2>1
  <2>3. stack' = Append(s, h)
    BY <2>1
  <2> HIDE DEF s
  <2> QED BY <2>1, <2>2, <2>3, BalancedTaken
<1>19. CASE HoldsPair
  <2>1. PICK k, f, g, h :
          /\ k \in Obj
          /\ Moved(Top, f) /\ Height > 0 /\ Top.fn # "release"
          /\ Bare(g, k) /\ g.fn = "hold" /\ Bare(h, arg') /\ h.fn = "hold"
          /\ stack' = Append(Append(Append(Below, f), g), h)
          /\ refs' = refs \cup {<<Height + 1, 0, 0, k>>, <<Height + 2, 0, 0, arg'>>}
    BY <1>19 DEF HoldsPair
  <2> DEFINE s == Append(Below, f)
             t == Append(s, g)
             r == refs \cup {<<Height + 1, 0, 0, k>>}
  <2>2. Balanced(s, refs) /\ s \in Seq(GoodFrame) /\ Len(s) = Height /\ Height \in Nat
    BY <1>16, <2>1
  <2>3. stack' = Append(t, h) /\ refs' = r \cup {<<Height + 2, 0, 0, arg'>>}
    BY <2>1
  <2> HIDE DEF s
  <2>4. Balanced(t, r) /\ t \in Seq(GoodFrame) /\ Len(t) = Height + 1
    BY <2>1, <2>2, BalancedTaken
  <2> HIDE DEF t, r
  <2>5. Len(t) + 1 = Height + 2
    BY <2>2, <2>4
  <2>6. Balanced(Append(t, h), r \cup {<<Len(t) + 1, 0, 0, arg'>>})
    BY <2>1, <2>4, BalancedTaken
  <2> QED BY <2>3, <2>5, <2>6
<1> QED BY <1>1, <1>7, <1>8, <1>9, <1>10, <1>11, <1>12, <1>13, <1>14, <1>15, <1>17, <1>18,
           <1>19 DEF Move

LEMMA Balances == Spec => []BalanceInv
<1>1. Init => ShapeInv /\ BalanceInv
  <2> SUFFICES ASSUME Init PROVE ShapeInv /\ BalanceInv
    OBVIOUS
  <2>1. Settled(stack) /\ stack \in Seq(GoodFrame) /\ pc = "call" /\ ok = TRUE
        /\ stack = <<>> /\ refs = {}
    BY DEF Init, Settled
  <2>2. ShapeInv
    BY <2>1, TypeInit, ShapeMoves DEF ShapeInv
  <2> QED BY <2>1, <2>2 DEF BalanceInv, NeatOn, AllOf
<1>2. BalanceInv /\ [Next]_vars => BalanceInv'
  BY BalanceStep
<1> QED BY <1>1, <1>2, PTL DEF Spec

(* At every moment the walk owns exactly the references its frames will    *)
(* give back: none leaks and none is given back twice, through guarded,    *)
(* dict_in_order, dict_sorted and serialize_default_result, on success, on *)
(* failure and around a finalizer.                                         *)
THEOREM AlwaysBalanced == Spec => []RefsBalanced
<1>1. BalanceInv => RefsBalanced
  BY DEF BalanceInv, RefsBalanced, AllOf, Owned, Ours
<1> QED BY <1>1, Balances, PTL

-----------------------------------------------------------------------------
(* The guard.  It is right as long as no integer is so long that CPython   *)
(* converts it in Python code: nothing holds an exact int, and nothing     *)
(* sets guard for it.                                                      *)

NoHugeInt == \A o \in Obj : Kind[o] # "hugeint"

(* Every call into Python but the digits of an int needs one of these.     *)
Asked(e) == e.default \/ "numpy" \in e.opts \/ e.dt
Config(e) == Asked(e) => e.guard

LEMMA ConfigKept ==
  ASSUME TypeInv, [Next]_vars, Config(enc)
  PROVE  Config(enc') /\ enc'.guard = enc.guard
<1>1. enc \in EncShape
  BY DEF TypeInv
<1>2. CASE UNCHANGED enc
  BY <1>2 DEF Config, Asked
<1>3. ASSUME \/ \E n : enc' = [enc EXCEPT !.depth = n] \/ enc' = [enc EXCEPT !.ddepth = n]
             \/ enc' = [enc EXCEPT !.rechecked = TRUE]
      PROVE  Config(enc') /\ enc'.guard = enc.guard
  BY <1>1, <1>3 DEF Config, Asked, EncShape
<1>4. CASE LateDatetime
  BY <1>1, <1>4 DEF LateDatetime, DatetimeRetry, Config, Asked, EncShape
<1>5. CASE Serialize
  BY <1>2, <1>3, <1>4, <1>5
     DEF Serialize, WriteScalar, RejectScalar, WriteHugeInt, EnterTooDeep, WriteEmpty, Open,
         OpenSorted, Opening, WriteDate, CallUtcoffset, LateDatetimeFails, NumpyHit, NumpyProbe,
         CallDefault, Rollback
<1>6. CASE Loop
  BY <1>2, <1>3, <1>6
     DEF Loop, NextItem, CloseList, NextPair, BadKey, CloseDict, NextSorted, EndSorted, SkipHole,
         ReleaseStep, EndRelease, Close
<1>7. CASE Returned
  BY <1>2, <1>3, <1>7
     DEF Returned, ReturnToLoop, ReturnToSorted, ReturnToHold, ReturnToResult, Finish
<1>8. CASE Python
  <2>1. CASE PyClear \/ PyDelete \/ PyAppend \/ PyRebuild \/ PyImport
    BY <1>2, <2>1 DEF PyClear, PyDelete, PyAppend, PyRebuild, PyImport, PyChange, rustVars
  <2> QED BY <1>2, <1>3, <1>8, <2>1
             DEF Python, PyRaise, DefaultReturns, TextReturns, OffsetInvalid, ArrayWritten,
                 ArrayDeclined, ProbeReturns, FinalizerReturns
<1>9. CASE UNCHANGED vars \/ Terminated
  BY <1>2, <1>9 DEF vars, Terminated
<1> QED BY <1>5, <1>6, <1>7, <1>8, <1>9 DEF Next

(* What is alive whatever the walk does: while nothing else has run, every *)
(* frame is about it.                                                      *)
Base == Reach(Held({}), items, Boxes)

Within(f, S) ==
  /\ f.obj \in S
  /\ \A i \in Filled(f.snap), j \in {1, 2} : f.snap[i][j] \in S

WithinOn(s, S) == \A l \in DOMAIN s : Within(s[l], S)

GuardInv ==
  /\ Config(enc)
  /\ pc \in {"python", "rollback"} => enc.guard
  /\ ~enc.guard => WithinOn(stack, Base) /\ (pc = "call" => arg \in Base)

LEMMA WithinPushed ==
  ASSUME NEW s \in Seq(GoodFrame), NEW f \in GoodFrame, NEW S
  PROVE  WithinOn(Append(s, f), S) <=> WithinOn(s, S) /\ Within(f, S)
<1> DEFINE t == Append(s, f)
<1>1. /\ DOMAIN s = 1 .. Len(s) /\ Len(s) \in Nat
      /\ t \in Seq(GoodFrame) /\ Len(t) = Len(s) + 1
      /\ \A l \in 1 .. Len(s) : t[l] = s[l]
      /\ t[Len(s) + 1] = f
  BY Pushed
<1>2. DOMAIN t = 1 .. Len(s) + 1
  BY <1>1
<1> HIDE DEF t
<1>3. DOMAIN t = DOMAIN s \cup {Len(s) + 1}
  BY <1>1, <1>2
<1>4. WithinOn(t, S) <=> WithinOn(s, S) /\ Within(f, S)
  BY <1>1, <1>3 DEF WithinOn
<1> QED BY <1>4 DEF t

(* What owns nothing but what is alive anyway loses nothing.               *)
LEMMA NothingLost ==
  ASSUME BalanceInv, WithinOn(stack, Base), NEW drop
  PROVE  Alive = Base /\ Reach(Held(refs \ drop), items, Boxes) = Alive
<1>1. \A t \in refs : t[4] \in Base
  <2> SUFFICES ASSUME NEW t \in refs PROVE t[4] \in Base
    OBVIOUS
  <2>1. PICK l \in DOMAIN stack : t \in Ours(l, stack[l])
    BY DEF BalanceInv, AllOf
  <2>2. stack[l] \in GoodFrame /\ Within(stack[l], Base)
    BY <2>1, ElementOfSeq DEF BalanceInv, ShapeInv, TypeInv, WithinOn
  <2> DEFINE f == stack[l]
  <2>3. CASE f.fn \in {"hold", "result"}
    BY <2>1, <2>2, <2>3, OursIs DEF Within
  <2>4. CASE f.fn \in {"sorted", "release"}
    <3>1. PICK i \in Filled(f.snap), j \in {1, 2} : t = <<l, i, j, f.snap[i][j]>>
      BY <2>1, <2>2, <2>4, OursIs
    <3> QED BY <2>2, <3>1 DEF Within
  <2> QED BY <2>1, <2>2, <2>3, <2>4, OursIs
<1>2. ASSUME NEW rs \in SUBSET refs PROVE Reach(Held(rs), items, Boxes) = Base
  <2>1. Held(rs) \subseteq Base
    <3>1. Held({}) \subseteq Base
      BY ReachRoots DEF Base
    <3>2. Held(rs) = Held({}) \cup {t[4] : t \in rs}
      BY DEF Held
    <3> QED BY <1>1, <3>1, <3>2
  <2>2. \A o \in Base \cap Boxes : Contents(items, o) \subseteq Base
    BY ReachStep DEF Base
  <2>3. Reach(Held(rs), items, Boxes) \subseteq Base
    BY <2>1, <2>2, ReachLeast
  <2>4. Held({}) \subseteq Held(rs)
    BY DEF Held
  <2>5. Base \subseteq Reach(Held(rs), items, Boxes)
    BY <2>4, ReachMonotone DEF Base
  <2> QED BY <2>3, <2>5
<1>3. Reach(Held(refs), items, Boxes) = Base /\ Reach(Held(refs \ drop), items, Boxes) = Base
  BY <1>2
<1> QED BY <1>3 DEF Alive

(* The entries of a container in a closed set are in it.                   *)
LEMMA EntriesWithin ==
  ASSUME TypeInv, NEW R, NEW o \in Reach(R, items, Boxes) \cap Boxes
  PROVE  /\ Contents(items, o) \subseteq Reach(R, items, Boxes)
         /\ Kind[o] = "dict" => \A i \in Filled(items[o]), j \in {1, 2} :
              items[o][i][j] \in Reach(R, items, Boxes)
<1>1. Contents(items, o) \subseteq Reach(R, items, Boxes)
  BY ReachStep
<1>2. ASSUME Kind[o] = "dict", NEW i \in Filled(items[o]), NEW j \in {1, 2}
      PROVE  items[o][i][j] \in Contents(items, o)
  <2>1. o \in Obj
    BY DEF Boxes
  <2>2. i \in DOMAIN items[o] /\ DOMAIN items[o][i] = {1, 2}
    BY <1>2, <2>1, EntryTypes DEF TypeInv, Filled
  <2> QED BY <2>2, EntryHeld
<1> QED BY <1>1, <1>2

LEMMA WithinBare ==
  ASSUME NEW f, NEW o, Bare(f, o), NEW S, o \in S
  PROVE  Within(f, S) /\ f \in GoodFrame
BY DEF Within, Bare, Filled

LEMMA GuardStep ==
  ASSUME BalanceInv, GuardInv, NoHugeInt, [Next]_vars
  PROVE  GuardInv'
<1>1. Move /\ TypeInv /\ ShapeInv
  BY StepMoves DEF BalanceInv, ShapeInv
<1>2. Config(enc') /\ enc'.guard = enc.guard
  BY <1>1, ConfigKept DEF GuardInv
<1>3. CASE enc.guard
  BY <1>2, <1>3 DEF GuardInv
<1>4. CASE ~enc.guard
  <2>1. /\ pc \notin {"python", "rollback"} /\ WithinOn(stack, Base)
        /\ pc = "call" => arg \in Base
    BY <1>4 DEF GuardInv
  <2>2. ~Asked(enc)
    BY <1>4 DEF GuardInv, Config
  <2>3. /\ stack \in Seq(GoodFrame)
        /\ Height > 0 => /\ Below \in Seq(GoodFrame) /\ Top \in GoodFrame
                         /\ WithinOn(Below, Base) /\ Within(Top, Base)
    <3>1. ASSUME Height > 0
          PROVE  Below \in Seq(GoodFrame) /\ Top \in GoodFrame /\ stack = Append(Below, Top)
      BY <3>1, BalanceSplit
    <3>2. ASSUME Height > 0 PROVE WithinOn(Below, Base) /\ Within(Top, Base)
      BY <2>1, <3>1, <3>2, WithinPushed
    <3> QED BY <1>1, <3>1, <3>2 DEF TypeInv
  <2>4. ASSUME Height > 0, NEW f \in GoodFrame, f.obj = Top.obj, f.snap = Top.snap
        PROVE  WithinOn(Append(Below, f), Base) /\ Append(Below, f) \in Seq(GoodFrame)
    <3>1. Within(f, Base)
      BY <2>3, <2>4 DEF Within
    <3> QED BY <2>3, <2>4, <3>1, WithinPushed, Pushed
  <2>5. SUFFICES ASSUME NEW B, B = Base
                 PROVE  /\ items' = items /\ pc' \notin {"python", "rollback"}
                        /\ WithinOn(stack', B) /\ (pc' = "call" => arg' \in B)
    <3>1. items' = items => Base' = Base
      BY DEF Base
    <3> QED BY <1>2, <1>4, <2>5, <3>1 DEF GuardInv, WithinOn, Within
  <2>6. CASE Stays
    BY <2>1, <2>5, <2>6 DEF Stays, Quiet
  <2>7. CASE Changes \/ Hands \/ Takes
    BY <2>1, <2>7 DEF Changes, Hands, Takes
  <2>8. CASE Asks
    BY <1>1, <2>2, <2>8 DEF Asks, NoHugeInt, Asked, Opt, TypeInv
  <2>9. CASE Opens
    BY <2>1, <2>3, <2>5, <2>9, WithinBare, WithinPushed DEF Opens, Quiet
  <2>10. CASE Snaps
    <3>1. PICK f : Shot(f, arg) /\ stack' = Append(stack, f)
      BY <2>10 DEF Snaps
    <3>2. pc = "call" /\ pc' = "step" /\ items' = items /\ Kind[arg] = "dict" /\ arg \in Base
      BY <2>1, <2>10 DEF Snaps
    <3>3. arg \in Base \cap Boxes
      BY <1>1, <3>2 DEF Boxes, TypeInv
    <3>4. Within(f, Base) /\ f \in GoodFrame
      BY <1>1, <3>1, <3>2, <3>3, EntriesWithin DEF Shot, Within, Base
    <3> QED BY <2>1, <2>3, <2>5, <3>1, <3>2, <3>4, WithinPushed
  <2>11. CASE Leaves
    BY <2>3, <2>5, <2>11 DEF Leaves, Quiet
  <2>12. CASE Turns
    BY <2>4, <2>5, <2>12 DEF Turns, Turned, Quiet
  <2>13. ASSUME NEW drop, refs' = refs \ drop PROVE ~Lost
    BY <2>1, <2>13, NothingLost DEF Lost
  <2>14. CASE Releases
    <3>1. PICK f : /\ Released(Top, f) /\ Height > 0 /\ items' = items
                   /\ (pc' = "step" /\ stack' = Append(Below, f)) \/ Lost
      BY <2>14 DEF Releases
    <3>2. ~Lost
      BY <2>13, <2>14 DEF Releases
    <3>3. f \in GoodFrame /\ f.obj = Top.obj /\ f.snap = Top.snap
      BY <3>1 DEF Released, Moved
    <3> QED BY <2>4, <2>5, <3>1, <3>2, <3>3
  <2>15. CASE Drops
    <3>1. ~Lost
      BY <2>13, <2>15 DEF Drops
    <3> QED BY <2>3, <2>5, <2>15, <3>1 DEF Drops
  <2>16. CASE Visits
    <3>1. PICK f : Moved(Top, f) /\ stack' = Append(Below, f)
      BY <2>16 DEF Visits
    <3>2. f \in GoodFrame /\ f.obj = Top.obj /\ f.snap = Top.snap
      BY <3>1 DEF Moved
    <3>3. Height > 0 /\ items' = items /\ pc' = "call"
          /\ \/ Top.fn \in {"tuple", "list", "dict"} /\ arg' \in Contents(items, Top.obj)
             \/ \E i \in Filled(Top.snap) : arg' = Top.snap[i][2]
      BY <2>16 DEF Visits, Quiet
    <3>4. arg' \in Base
      <4>1. CASE Top.fn \in {"tuple", "list", "dict"} /\ arg' \in Contents(items, Top.obj)
        <5>1. Top.obj \in Base /\ Top.obj \in Boxes
          BY <2>3, <3>3, <4>1 DEF Within, GoodFrame, FrameOK, Frame, Boxes
        <5> QED BY <1>1, <4>1, <5>1, EntriesWithin DEF Base
      <4>2. CASE \E i \in Filled(Top.snap) : arg' = Top.snap[i][2]
        BY <2>3, <3>3, <4>2 DEF Within
      <4> QED BY <3>3, <4>1, <4>2
    <3> QED BY <2>4, <2>5, <3>1, <3>2, <3>3, <3>4
  <2>17. CASE HoldsItem \/ HoldsPair
    BY <1>4, <2>17 DEF HoldsItem, HoldsPair, Guarded
  <2> QED BY <1>1, <2>6, <2>7, <2>8, <2>9, <2>10, <2>11, <2>12, <2>14, <2>15, <2>16, <2>17
          DEF Move
<1> QED BY <1>3, <1>4

LEMMA Guards == NoHugeInt => (Spec => []GuardInv)
<1> SUFFICES ASSUME NoHugeInt PROVE Spec => []GuardInv
  OBVIOUS
<1>1. Init => GuardInv
  <2> SUFFICES ASSUME Init PROVE GuardInv
    OBVIOUS
  <2>1. PICK o \in OptSets, d \in Defaults :
          enc = [opts |-> o, default |-> d, guard |-> Guard(o, d, sysdt), dt |-> sysdt,
                 depth |-> 0, ddepth |-> 0, rechecked |-> FALSE]
    BY DEF Init
  <2>2. Config(enc)
    BY <2>1 DEF Config, Asked, Guard
  <2>3. pc = "call" /\ arg = Root /\ stack = <<>>
    BY DEF Init
  <2>4. Root \in Base
    BY ReachRoots DEF Base, Held
  <2> QED BY <2>2, <2>3, <2>4 DEF GuardInv, WithinOn
<1>2. BalanceInv /\ GuardInv /\ [Next]_vars => GuardInv'
  BY GuardStep
<1> QED BY <1>1, <1>2, Balances, PTL DEF Spec

(* When guard is false no Python code runs during the walk, finalizers     *)
(* included: an object that would be freed was never held.  It is what     *)
(* guarded, and the debug_asserts of invoke_default, utcoffset_of and      *)
(* array_struct, rely on.  A too long int breaks it (EncoderHugeInt).      *)
THEOREM GuardCorrect == NoHugeInt => (Spec => []GuardSound)
<1>1. GuardInv => GuardSound
  BY DEF GuardInv, GuardSound
<1> QED BY <1>1, Guards, PTL

-----------------------------------------------------------------------------
(* What stays alive below a frame.  Python can empty every list and dict,  *)
(* so a frame can only count on what the references below it hold and on   *)
(* what is reached from those through tuples, which never change.          *)

Tuples == {o \in Obj : Kind[o] = "tuple"}
Roots(l, rs) == {Root} \cup Globals \cup {t[4] : t \in {u \in rs : u[1] <= l}}
Firm(l, rs, it) == Reach(Roots(l, rs), it, Tuples)

(* What the object of a frame at level l relies on.                        *)
Secure(l, f, rs, it) == f.fn \notin {"hold", "result", "del"} => f.obj \in Firm(l - 1, rs, it)
SecureOn(s, rs, it) == \A l \in DOMAIN s : Secure(l, s[l], rs, it)

(* What serialize(o) relies on above n frames: what Python cannot run for  *)
(* needs no reference.                                                     *)
Entered(o, n, rs, it) ==
  IF RunsNoPython(o) THEN o \in Reach(Held(rs), it, Boxes) ELSE o \in Firm(n, rs, it)

FirmInv ==
  enc.guard => /\ SecureOn(stack, refs, items)
               /\ pc = "call" => Entered(arg, Height, refs, items)

LEMMA FirmMonotone ==
  ASSUME NEW l, NEW m, NEW rs, NEW rs2, NEW it, NEW it2,
         \A u \in rs : u[1] <= l => u \in rs2 /\ u[1] <= m,
         \A o \in Tuples : it2[o] = it[o]
  PROVE  Firm(l, rs, it) \subseteq Firm(m, rs2, it2)
<1>1. Roots(l, rs) \subseteq Roots(m, rs2)
  BY DEF Roots
<1>2. \A o \in Tuples : Contents(it, o) = Contents(it2, o)
  BY DEF Contents
<1> QED BY <1>1, <1>2, ReachMonotone DEF Firm

(* Higher frames can count on more.                                        *)
LEMMA FirmGrows ==
  ASSUME TypeInv, NEW l \in Int, NEW m \in Int, l <= m
  PROVE  Firm(l, refs, items) \subseteq Firm(m, refs, items)
<1>1. \A u \in refs : u[1] \in Nat
  BY DEF TypeInv
<1>2. \A u \in refs : u[1] <= l => u \in refs /\ u[1] <= m
  BY <1>1
<1> QED BY <1>2, FirmMonotone

LEMMA FirmAlive ==
  ASSUME NEW l, NEW rs, NEW it
  PROVE  /\ Firm(l, rs, it) \subseteq Reach(Held(rs), it, Boxes)
         /\ \A o \in Firm(l, rs, it) : Entered(o, l, rs, it)
<1>1. Roots(l, rs) \subseteq Held(rs) /\ Tuples \subseteq Boxes
  BY DEF Roots, Held, Tuples, Boxes
<1>2. Firm(l, rs, it) \subseteq Reach(Held(rs), it, Boxes)
  BY <1>1, ReachMonotone DEF Firm
<1> QED BY <1>2 DEF Entered

LEMMA FirmHeld ==
  ASSUME NEW rs, NEW it, NEW t \in rs, NEW l, t[1] <= l
  PROVE  t[4] \in Firm(l, rs, it)
<1>1. t[4] \in Roots(l, rs)
  BY DEF Roots
<1> QED BY <1>1, ReachRoots DEF Firm

LEMMA SecurePushed ==
  ASSUME NEW s \in Seq(GoodFrame), NEW f \in GoodFrame, NEW rs, NEW it
  PROVE  SecureOn(Append(s, f), rs, it) <=> SecureOn(s, rs, it) /\ Secure(Len(s) + 1, f, rs, it)
<1> DEFINE t == Append(s, f)
<1>1. /\ DOMAIN s = 1 .. Len(s) /\ Len(s) \in Nat
      /\ t \in Seq(GoodFrame) /\ Len(t) = Len(s) + 1
      /\ \A l \in 1 .. Len(s) : t[l] = s[l]
      /\ t[Len(s) + 1] = f
  BY Pushed
<1>2. DOMAIN t = 1 .. Len(s) + 1
  BY <1>1
<1> HIDE DEF t
<1>3. DOMAIN t = DOMAIN s \cup {Len(s) + 1} /\ \A l \in DOMAIN s : t[l] = s[l]
  BY <1>1, <1>2
<1>4. SecureOn(t, rs, it) <=> SecureOn(s, rs, it) /\ Secure(Len(s) + 1, f, rs, it)
  BY <1>1, <1>3 DEF SecureOn
<1> QED BY <1>4 DEF t

(* Below a level from which references are added or dropped nothing        *)
(* becomes less secure.                                                    *)
LEMMA SecureKept ==
  ASSUME NEW s \in Seq(GoodFrame), NEW rs \in SUBSET (Nat \X Nat \X Nat \X Obj), NEW rs2,
         NEW it, NEW it2, SecureOn(s, rs, it),
         \A u \in rs : u[1] <= Len(s) => u \in rs2,
         \A o \in Tuples : it2[o] = it[o]
  PROVE  SecureOn(s, rs2, it2)
<1> SUFFICES ASSUME NEW l \in DOMAIN s PROVE Secure(l, s[l], rs2, it2)
  BY DEF SecureOn
<1>1. l \in 1 .. Len(s) /\ Len(s) \in Nat /\ l \in Nat
  OBVIOUS
<1>2. ASSUME NEW u \in rs, u[1] <= l - 1 PROVE u \in rs2 /\ u[1] <= l - 1
  <2>1. u[1] \in Nat
    OBVIOUS
  <2>2. u[1] <= Len(s)
    BY <1>1, <1>2, <2>1
  <2> QED BY <1>2, <2>2
<1> DEFINE m == l - 1
<1>3. Firm(m, rs, it) \subseteq Firm(m, rs2, it2)
  BY <1>2, FirmMonotone
<1>4. Secure(l, s[l], rs, it)
  BY DEF SecureOn
<1> QED BY <1>3, <1>4 DEF Secure

LEMMA FirmStep ==
  ASSUME BalanceInv, GuardInv, FirmInv, NoHugeInt, [Next]_vars
  PROVE  FirmInv'
<1>1. Move /\ TypeInv
  BY StepMoves DEF BalanceInv, ShapeInv
<1>2. enc'.guard = enc.guard
  BY <1>1, ConfigKept DEF GuardInv
<1>3. SUFFICES ASSUME enc.guard
               PROVE  /\ SecureOn(stack', refs', items')
                      /\ pc' = "call" => Entered(arg', Len(stack'), refs', items')
  BY <1>2 DEF FirmInv, Height, SecureOn, Secure, Firm, Roots, Entered, Held
<1>4. /\ SecureOn(stack, refs, items) /\ stack \in Seq(GoodFrame) /\ Len(stack) = Height
      /\ pc = "call" => Entered(arg, Height, refs, items)
      /\ refs \in SUBSET (Nat \X Nat \X Nat \X Obj) /\ Height \in Nat /\ arg \in Obj
  BY <1>1, <1>3 DEF FirmInv, TypeInv, Height
<1>5. ASSUME Height > 0
      PROVE  /\ Below \in Seq(GoodFrame) /\ Top \in GoodFrame /\ Len(Below) + 1 = Height
             /\ Len(Below) = Height - 1 /\ stack = Append(Below, Top)
             /\ SecureOn(Below, refs, items) /\ Secure(Height, Top, refs, items)
             /\ Top.obj \in Obj
  <2>1. /\ Below \in Seq(GoodFrame) /\ Top \in GoodFrame /\ Len(Below) + 1 = Height
        /\ stack = Append(Below, Top)
    BY <1>5, BalanceSplit
  <2>2. SecureOn(Below, refs, items) /\ Secure(Height, Top, refs, items)
    BY <1>4, <2>1, SecurePushed
  <2>3. Len(Below) = Height - 1 /\ Top.obj \in Obj
    BY <1>4, <2>1 DEF GoodFrame, Frame
  <2> QED BY <2>1, <2>2, <2>3
<1>6. ASSUME pc = "call", ~RunsNoPython(arg), refs \subseteq refs', items' = items,
             NEW f \in GoodFrame, f.obj = arg
      PROVE  SecureOn(Append(stack, f), refs', items')
  <2>1. SecureOn(stack, refs', items')
    BY <1>4, <1>6, SecureKept
  <2> DEFINE n == Height + 1
  <2>2. arg \in Firm(n - 1, refs', items')
    <3>1. arg \in Firm(Height, refs, items)
      BY <1>4, <1>6 DEF Entered
    <3>2. Firm(Height, refs, items) \subseteq Firm(Height, refs', items')
      BY <1>6, FirmMonotone
    <3>3. n - 1 = Height
      BY <1>4
    <3> QED BY <3>1, <3>2, <3>3
  <2> HIDE DEF n
  <2>3. Secure(n, f, refs', items')
    BY <1>6, <2>2 DEF Secure
  <2> QED BY <1>4, <2>1, <2>3, SecurePushed DEF n
<1>7. ASSUME Height > 0, items' = items, \A u \in refs : u[1] <= Height - 1 => u \in refs'
      PROVE  /\ SecureOn(Below, refs', items')
             /\ Firm(Height - 1, refs, items) \subseteq Firm(Height - 1, refs', items')
  <2>1. SecureOn(Below, refs', items')
    BY <1>4, <1>5, <1>7, SecureKept
  <2> DEFINE n == Height - 1
  <2>2. Firm(n, refs, items) \subseteq Firm(n, refs', items')
    BY <1>7, FirmMonotone
  <2> QED BY <2>1, <2>2
<1>8. ASSUME Height > 0, items' = items, \A u \in refs : u[1] <= Height - 1 => u \in refs',
             NEW f \in GoodFrame, f.obj = Top.obj, Top.fn \notin {"hold", "result", "del"}
      PROVE  /\ SecureOn(Append(Below, f), refs', items')
             /\ Append(Below, f) \in Seq(GoodFrame) /\ Len(Append(Below, f)) = Height
  <2>1. Secure(Height, f, refs', items')
    BY <1>5, <1>7, <1>8 DEF Secure
  <2> QED BY <1>5, <1>7, <1>8, <2>1, SecurePushed, Pushed
<1>9. ASSUME NEW s \in Seq(GoodFrame), NEW f \in GoodFrame, SecureOn(s, refs', items'),
             f.fn \in {"hold", "result", "del"}
      PROVE  SecureOn(Append(s, f), refs', items')
  BY <1>9, SecurePushed DEF Secure
<1>10. CASE Stays
  BY <1>4, <1>10 DEF Stays, Quiet
<1>11. CASE Changes
  <2>1. \A o \in Tuples : items'[o] = items[o]
    BY <1>11 DEF Changes, Tuples
  <2> QED BY <1>4, <1>11, <2>1, SecureKept DEF Changes
<1>12. CASE Asks
  BY <1>4, <1>6, <1>12 DEF Asks, Quiet, NoHugeInt, Bare
<1>13. CASE Opens
  BY <1>4, <1>6, <1>13 DEF Opens, Quiet, Bare, Boxes, RunsNoPython
<1>14. CASE Snaps
  BY <1>4, <1>6, <1>14 DEF Snaps, Shot, RunsNoPython
<1>15. CASE Hands
  <2>1. PICK f : /\ f \in GoodFrame /\ f.obj = Top.obj /\ stack' = Append(Below, f)
    BY <1>15 DEF Hands
  <2>2. Height > 0 /\ Top.fn \notin {"hold", "result", "del"} /\ items' = items /\ refs' = refs
        /\ pc' = "python"
    BY <1>15 DEF Hands, Quiet, Asking, Transient
  <2> QED BY <1>8, <2>1, <2>2
<1>16. CASE Leaves
  BY <1>5, <1>16 DEF Leaves, Quiet
<1>17. CASE Turns
  <2>1. PICK f : Turned(Top, f) /\ stack' = Append(Below, f)
    BY <1>17 DEF Turns
  <2>2. Height > 0 /\ items' = items /\ refs' = refs /\ pc' = "step"
    BY <1>17 DEF Turns, Quiet
  <2> QED BY <1>8, <2>1, <2>2 DEF Turned
<1>18. ASSUME NEW t, refs' = refs \ {t}, t[1] = Height, Height > 0
       PROVE  \A u \in refs : u[1] <= Height - 1 => u \in refs'
  <2>1. ~(Height <= Height - 1)
    BY <1>4
  <2> QED BY <1>18, <2>1
<1>19. CASE Releases
  <2> DEFINE t == <<Height, Top.pos + 1, Half(Top), Top.snap[Top.pos + 1][Half(Top)]>>
  <2>1. PICK f : /\ Released(Top, f) /\ refs' = refs \ {t} /\ Height > 0 /\ items' = items
                 /\ \/ pc' = "step" /\ stack' = Append(Below, f)
                    \/ /\ pc' = "python"
                       /\ \E d : /\ Bare(d, Root) /\ d.fn = "del"
                                 /\ stack' = Append(Append(Below, f), d)
    BY <1>19 DEF Releases
  <2>2. t[1] = Height
    OBVIOUS
  <2> HIDE DEF t
  <2>3. f \in GoodFrame /\ f.obj = Top.obj /\ Top.fn = "release"
    BY <2>1 DEF Released, Moved
  <2>4. SecureOn(Append(Below, f), refs', items') /\ Append(Below, f) \in Seq(GoodFrame)
    BY <1>8, <1>18, <2>1, <2>2, <2>3
  <2> QED BY <1>9, <2>1, <2>4 DEF Bare
<1>20. CASE Drops
  <2> DEFINE t == <<Height, 0, 0, Top.obj>>
  <2>1. /\ refs' = refs \ {t} /\ Height > 0 /\ items' = items /\ pc' # "call"
        /\ \/ stack' = Below
           \/ \E d : Bare(d, Root) /\ d.fn = "del" /\ stack' = Append(Below, d)
    BY <1>20 DEF Drops
  <2>2. t[1] = Height
    OBVIOUS
  <2> HIDE DEF t
  <2>3. SecureOn(Below, refs', items') /\ Below \in Seq(GoodFrame)
    BY <1>5, <1>7, <1>18, <2>1, <2>2
  <2> QED BY <1>9, <2>1, <2>3 DEF Bare
<1>21. ASSUME NEW n, <<n, 0, 0, arg'>> \in refs', n \in Nat
       PROVE  Entered(arg', n, refs', items')
  <2> DEFINE t == <<n, 0, 0, arg'>>
  <2>1. t[4] = arg' /\ t[1] = n /\ t[1] <= n /\ t \in refs'
    BY <1>21
  <2> HIDE DEF t
  <2>2. arg' \in Firm(n, refs', items')
    BY <2>1, FirmHeld
  <2> QED BY <2>2, FirmAlive
<1>22. CASE Takes
  <2>1. PICK f : Bare(f, arg') /\ f.fn = "result" /\ stack' = Append(Below, f)
    BY <1>22 DEF Takes
  <2>2. Height > 0 /\ items' = items /\ refs' = refs \cup {<<Height, 0, 0, arg'>>}
    BY <1>22 DEF Takes
  <2>3. SecureOn(Below, refs', items') /\ Below \in Seq(GoodFrame) /\ Len(Below) + 1 = Height
    BY <1>5, <1>7, <2>2
  <2>4. SecureOn(stack', refs', items') /\ Len(stack') = Height
    BY <1>9, <2>1, <2>3, Pushed DEF Bare
  <2>5. Entered(arg', Height, refs', items')
    BY <1>4, <1>21, <2>2
  <2> QED BY <2>4, <2>5
<1>23. CASE Visits
  <2>1. PICK f : Moved(Top, f) /\ stack' = Append(Below, f)
    BY <1>23 DEF Visits
  <2>2. /\ Height > 0 /\ items' = items /\ refs' = refs /\ pc' = "call"
        /\ \/ Top.fn = "tuple" /\ arg' \in Contents(items, Top.obj)
           \/ Top.fn \in {"list", "dict"} /\ arg' \in Contents(items, Top.obj) /\ ~Guarded(arg')
           \/ Top.fn = "sorted" /\ \E i \in Filled(Top.snap) : arg' = Top.snap[i][2]
    BY <1>23 DEF Visits, Quiet
  <2>3. SecureOn(stack', refs', items') /\ Len(stack') = Height
    BY <1>8, <2>1, <2>2 DEF Moved
  <2>4. ASSUME Top.fn \in {"list", "dict", "tuple"}
        PROVE  Top.obj \in Firm(Height - 1, refs, items)
    BY <1>5, <2>2, <2>4 DEF Secure
  <2>5. CASE Top.fn = "tuple" /\ arg' \in Contents(items, Top.obj)
    <3>1. Top.obj \in Tuples
      BY <1>5, <2>2, <2>5, BalanceSplit DEF Neat, Tuples
    <3> DEFINE n == Height - 1
    <3>2. Top.obj \in Firm(n, refs, items) \cap Tuples
      BY <2>4, <2>5, <3>1
    <3>3. n \in Int /\ n <= Height /\ Height \in Int
      BY <1>4, <2>2
    <3> HIDE DEF n
    <3>4. arg' \in Firm(n, refs, items)
      BY <2>5, <3>2, ReachStep DEF Firm
    <3>5. arg' \in Firm(Height, refs, items)
      BY <1>1, <3>3, <3>4, FirmGrows
    <3> QED BY <2>2, <2>3, <3>5, FirmAlive
  <2>6. CASE Top.fn \in {"list", "dict"} /\ arg' \in Contents(items, Top.obj) /\ ~Guarded(arg')
    <3>1. RunsNoPython(arg')
      BY <1>3, <2>6 DEF Guarded
    <3>2. Top.obj \in Boxes
      BY <1>5, <2>2, <2>6 DEF GoodFrame, FrameOK, Boxes
    <3>3. Top.obj \in Reach(Held(refs), items, Boxes)
      BY <2>4, <2>6, FirmAlive
    <3>4. arg' \in Reach(Held(refs), items, Boxes)
      BY <2>6, <3>2, <3>3, ReachStep
    <3> QED BY <2>2, <2>3, <3>1, <3>4 DEF Entered
  <2>7. CASE Top.fn = "sorted" /\ \E i \in Filled(Top.snap) : arg' = Top.snap[i][2]
    <3>1. PICK i \in Filled(Top.snap) : arg' = Top.snap[i][2]
      BY <2>7
    <3> DEFINE t == <<Height, i, 2, Top.snap[i][2]>>
    <3>2. t \in Ours(Height, Top)
      BY <1>5, <2>2, <2>7, OursIs DEF Kept
    <3>3. t \in refs
      BY <2>2, <3>2, BalanceSplit
    <3>4. t[1] <= Height /\ t[4] = arg'
      BY <1>4, <3>1
    <3> HIDE DEF t
    <3>5. arg' \in Firm(Height, refs, items)
      BY <3>3, <3>4, FirmHeld
    <3> QED BY <2>2, <2>3, <3>5, FirmAlive
  <2> QED BY <2>2, <2>5, <2>6, <2>7
<1>24. CASE HoldsItem
  <2>1. PICK f, h : /\ Moved(Top, f) /\ Bare(h, arg') /\ h.fn = "hold"
                    /\ stack' = Append(Append(Below, f), h)
    BY <1>24 DEF HoldsItem
  <2>2. /\ Height > 0 /\ items' = items /\ Top.fn = "list"
        /\ refs' = refs \cup {<<Height + 1, 0, 0, arg'>>}
    BY <1>24 DEF HoldsItem
  <2> DEFINE s == Append(Below, f)
  <2>3. SecureOn(s, refs', items') /\ s \in Seq(GoodFrame) /\ Len(s) = Height
    BY <1>8, <2>1, <2>2 DEF Moved
  <2>4. stack' = Append(s, h)
    BY <2>1
  <2> HIDE DEF s
  <2>5. SecureOn(stack', refs', items') /\ Len(stack') = Height + 1
    BY <1>9, <2>1, <2>3, <2>4, Pushed DEF Bare
  <2>6. Entered(arg', Height + 1, refs', items')
    <3>1. Height + 1 \in Nat /\ <<Height + 1, 0, 0, arg'>> \in refs'
      BY <1>4, <2>2
    <3> QED BY <1>21, <3>1
  <2> QED BY <2>5, <2>6
<1>25. CASE HoldsPair
  <2>1. PICK k, f, g, h :
          /\ k \in Obj
          /\ Moved(Top, f) /\ Bare(g, k) /\ g.fn = "hold" /\ Bare(h, arg') /\ h.fn = "hold"
          /\ stack' = Append(Append(Append(Below, f), g), h)
          /\ refs' = refs \cup {<<Height + 1, 0, 0, k>>, <<Height + 2, 0, 0, arg'>>}
    BY <1>25 DEF HoldsPair
  <2>2. Height > 0 /\ items' = items /\ Top.fn = "dict" /\ refs \subseteq refs'
    BY <1>25 DEF HoldsPair
  <2> DEFINE s == Append(Below, f)
             t == Append(s, g)
  <2>3. SecureOn(s, refs', items') /\ s \in Seq(GoodFrame) /\ Len(s) = Height
    BY <1>8, <2>1, <2>2 DEF Moved
  <2>4. stack' = Append(t, h)
    BY <2>1
  <2> HIDE DEF s
  <2>5. SecureOn(t, refs', items') /\ t \in Seq(GoodFrame) /\ Len(t) = Height + 1
    BY <1>9, <2>1, <2>3, Pushed, ZenonT(60) DEF Bare
  <2> HIDE DEF t
  <2>6. SecureOn(stack', refs', items') /\ Len(stack') = Height + 1 + 1
    <3>1. h \in GoodFrame /\ h.fn = "hold"
      BY <2>1 DEF Bare
    <3>2. SecureOn(Append(t, h), refs', items') /\ Len(Append(t, h)) = Len(t) + 1
      BY <1>9, <2>5, <3>1, Pushed
    <3> QED BY <2>4, <2>5, <3>2
  <2>7. Entered(arg', Height + 2, refs', items') /\ Height + 2 = Height + 1 + 1
    <3>1. Height + 2 \in Nat /\ <<Height + 2, 0, 0, arg'>> \in refs'
      BY <1>4, <2>1
    <3> QED BY <1>4, <1>21, <3>1
  <2> QED BY <2>6, <2>7
<1> QED BY <1>1, <1>10, <1>11, <1>12, <1>13, <1>14, <1>15, <1>16, <1>17, <1>19, <1>20, <1>22,
           <1>23, <1>24, <1>25 DEF Move

LEMMA Firmness == NoHugeInt => (Spec => [](BalanceInv /\ GuardInv /\ FirmInv))
<1> SUFFICES ASSUME NoHugeInt PROVE Spec => [](BalanceInv /\ GuardInv /\ FirmInv)
  OBVIOUS
<1>1. Init => FirmInv
  <2> SUFFICES ASSUME Init PROVE FirmInv
    OBVIOUS
  <2>1. arg = Root /\ stack = <<>> /\ refs = {} /\ Height = 0
    BY DEF Init, Height
  <2>2. Root \in Firm(Height, refs, items)
    BY ReachRoots DEF Firm, Roots
  <2>3. Entered(arg, Height, refs, items)
    BY <2>1, <2>2, FirmAlive
  <2> QED BY <2>1, <2>3 DEF FirmInv, SecureOn
<1>2. BalanceInv /\ GuardInv /\ FirmInv /\ [Next]_vars => FirmInv'
  BY FirmStep
<1>3. Spec => []GuardInv
  BY Guards
<1> QED BY <1>1, <1>2, <1>3, Balances, PTL DEF Spec

(* FR-13.  Whatever Python code does to the containers while it runs, the  *)
(* encoder never has a pointer to an object that was freed: the container  *)
(* a loop is in, a snapshot's part, an object held by guarded or being     *)
(* asked for its offset, its array or its default, or the argument of      *)
(* serialize.  A too long int breaks it (EncoderHugeInt).                  *)
THEOREM NothingDangles == NoHugeInt => (Spec => []NoUseAfterFree)
<1>1. ASSUME BalanceInv, GuardInv, FirmInv PROVE NoUseAfterFree
  <2>1. TypeInv /\ stack \in Seq(GoodFrame) /\ refs = AllOf(stack) /\ NeatOn(stack)
        /\ Height = Len(stack)
    BY <1>1 DEF BalanceInv, ShapeInv, TypeInv, Height
  <2>2. \A t \in refs : t[4] \in Alive
    <3>1. \A t \in refs : t[4] \in Held(refs)
      BY DEF Held
    <3> QED BY <3>1, ReachRoots DEF Alive
  <2>3. ASSUME ~enc.guard
        PROVE  WithinOn(stack, Alive) /\ (pc = "call" => arg \in Alive)
    <3>1. Held({}) \subseteq Held(refs)
      BY DEF Held
    <3>2. Base \subseteq Alive
      BY <3>1, ReachMonotone DEF Base, Alive
    <3> QED BY <1>1, <2>3, <3>2 DEF GuardInv, WithinOn, Within
  <2>4. ASSUME enc.guard
        PROVE  /\ \A l \in DOMAIN stack : stack[l].fn \notin {"hold", "result", "del"}
                                            => stack[l].obj \in Alive
               /\ pc = "call" => arg \in Alive
    BY <1>1, <2>4, FirmAlive DEF FirmInv, SecureOn, Secure, Entered, Alive
  <2>5. pc = "call" => arg \in Alive
    BY <2>3, <2>4
  <2>6. ASSUME NEW l \in DOMAIN stack, NEW x \in Pointers(stack[l]) PROVE x \in Alive
    <3> DEFINE f == stack[l]
    <3>1. f \in GoodFrame /\ Neat(f) /\ Ours(l, f) \subseteq refs
      <4>1. l \in 1 .. Len(stack)
        BY <2>1
      <4> QED BY <2>1, <4>1, ElementOfSeq DEF NeatOn, AllOf
    <3>2. CASE \E p \in Unreleased(f) : x = f.snap[p[1]][p[2]]
      <4>1. PICK p \in Unreleased(f) : x = f.snap[p[1]][p[2]]
        BY <3>2
      <4>2. p[1] \in Filled(f.snap) /\ p[2] \in {1, 2}
        BY <4>1 DEF Unreleased
      <4>3. f.fn \in {"sorted", "release"}
        BY <3>1, <4>2 DEF Neat, Filled
      <4> DEFINE t == <<l, p[1], p[2], f.snap[p[1]][p[2]]>>
      <4>4. t \in Ours(l, f)
        BY <4>1, <4>3 DEF Ours
      <4>5. t[4] = x
        BY <4>1
      <4> HIDE DEF t
      <4> QED BY <2>2, <3>1, <4>4, <4>5
    <3>3. CASE x = f.obj /\ f.fn # "del"
      <4>1. CASE f.fn \in {"hold", "result"}
        <5> DEFINE t == <<l, 0, 0, f.obj>>
        <5>1. t \in refs
          BY <3>1, <4>1, OursIs
        <5>2. t[4] = x
          BY <3>3
        <5> HIDE DEF t
        <5> QED BY <2>2, <5>1, <5>2
      <4>2. CASE f.fn \notin {"hold", "result"}
        BY <2>3, <2>4, <3>3, <4>2 DEF WithinOn, Within
      <4> QED BY <4>1, <4>2
    <3> QED BY <2>6, <3>2, <3>3 DEF Pointers
  <2> QED BY <2>5, <2>6 DEF NoUseAfterFree
<1>2. NoHugeInt => (Spec => [](BalanceInv /\ GuardInv /\ FirmInv))
  BY Firmness
<1> QED BY <1>1, <1>2, PTL

-----------------------------------------------------------------------------
(* The height of the stack.  A held item, or a held key and value, stand   *)
(* directly on their container.                                            *)

Propped(s) ==
  \A l \in DOMAIN s : s[l].fn = "hold" =>
    \E k \in {1, 2} : l - k \in DOMAIN s /\ s[l - k].fn \in Containers

LEMMA ProppedPush ==
  ASSUME NEW s \in Seq(GoodFrame), NEW f \in GoodFrame
  PROVE  /\ Propped(Append(s, f)) => Propped(s)
         /\ Propped(s) /\ f.fn # "hold" => Propped(Append(s, f))
         /\ \A k \in {1, 2} :
              Propped(s) /\ Len(s) + 1 - k \in DOMAIN s /\ s[Len(s) + 1 - k].fn \in Containers
                => Propped(Append(s, f))
<1> DEFINE t == Append(s, f)
           n == Len(s)
<1>1. /\ DOMAIN s = 1 .. n /\ n \in Nat /\ t \in Seq(GoodFrame) /\ Len(t) = n + 1
      /\ \A l \in 1 .. n : t[l] = s[l]
      /\ t[n + 1] = f
  BY Pushed
<1>2. DOMAIN t = 1 .. n + 1
  BY <1>1
<1> HIDE DEF t, n
<1>3. ASSUME Propped(t) PROVE Propped(s)
  <2> SUFFICES ASSUME NEW l \in DOMAIN s, s[l].fn = "hold"
               PROVE  \E k \in {1, 2} : l - k \in DOMAIN s /\ s[l - k].fn \in Containers
    BY DEF Propped
  <2>1. l \in DOMAIN t /\ t[l].fn = "hold"
    BY <1>1, <1>2
  <2>2. PICK k \in {1, 2} : l - k \in DOMAIN t /\ t[l - k].fn \in Containers
    BY <1>3, <2>1 DEF Propped
  <2>3. l - k \in DOMAIN s
    BY <1>1, <1>2, <2>2
  <2> QED BY <1>1, <2>2, <2>3
<1>4. ASSUME Propped(s), \/ f.fn # "hold"
                         \/ \E k \in {1, 2} : n + 1 - k \in DOMAIN s /\ s[n + 1 - k].fn \in Containers
      PROVE  Propped(t)
  <2> SUFFICES ASSUME NEW l \in DOMAIN t, t[l].fn = "hold"
               PROVE  \E k \in {1, 2} : l - k \in DOMAIN t /\ t[l - k].fn \in Containers
    BY DEF Propped
  <2>1. ASSUME NEW k \in {1, 2}, l - k \in DOMAIN s, s[l - k].fn \in Containers
        PROVE  l - k \in DOMAIN t /\ t[l - k].fn \in Containers
    BY <1>1, <1>2, <2>1
  <2>2. CASE l \in DOMAIN s
    <3>1. s[l].fn = "hold"
      BY <1>1, <2>2
    <3>2. PICK k \in {1, 2} : l - k \in DOMAIN s /\ s[l - k].fn \in Containers
      BY <1>4, <2>2, <3>1 DEF Propped
    <3> QED BY <2>1, <3>2
  <2>3. CASE l = n + 1
    <3>1. PICK k \in {1, 2} : n + 1 - k \in DOMAIN s /\ s[n + 1 - k].fn \in Containers
      BY <1>1, <1>4, <2>3
    <3>2. l - k \in DOMAIN s /\ s[l - k].fn \in Containers
      <4>1. l - k = n + 1 - k
        BY <1>1, <2>3
      <4> QED BY <3>1, <4>1
    <3>3. l - k \in DOMAIN t /\ t[l - k].fn \in Containers
      BY <2>1, <3>2
    <3> QED BY <3>3
  <2> QED BY <1>1, <1>2, <2>2, <2>3
<1> QED BY <1>3, <1>4 DEF t, n

LEMMA ProppedStep ==
  ASSUME BalanceInv, Propped(stack), [Next]_vars
  PROVE  Propped(stack')
<1>1. Move /\ stack \in Seq(GoodFrame)
  BY StepMoves DEF BalanceInv, ShapeInv, TypeInv
<1>2. ASSUME Height > 0
      PROVE  /\ Below \in Seq(GoodFrame) /\ Top \in GoodFrame /\ Propped(Below)
             /\ Height \in Nat /\ Len(Below) + 1 = Height
  <2>1. /\ Below \in Seq(GoodFrame) /\ Top \in GoodFrame /\ stack = Append(Below, Top)
        /\ Height \in Nat /\ Len(Below) + 1 = Height
    BY <1>2, BalanceSplit
  <2> QED BY <2>1, ProppedPush
<1>3. ASSUME Height > 0, NEW f \in GoodFrame, f.fn # "hold"
      PROVE  /\ Propped(Append(Below, f)) /\ Append(Below, f) \in Seq(GoodFrame)
             /\ Len(Append(Below, f)) = Height /\ Append(Below, f)[Height] = f
             /\ Height \in DOMAIN Append(Below, f)
  <2>1. /\ Append(Below, f) \in Seq(GoodFrame) /\ Propped(Append(Below, f))
        /\ Len(Append(Below, f)) = Height /\ Append(Below, f)[Height] = f
    BY <1>2, <1>3, ProppedPush, Pushed
  <2>2. Height \in DOMAIN Append(Below, f)
    BY <1>2, <1>3, <2>1
  <2> QED BY <2>1, <2>2
<1>4. ASSUME NEW s \in Seq(GoodFrame), Propped(s), NEW f \in GoodFrame, f.fn # "hold"
      PROVE  Propped(Append(s, f))
  BY <1>4, ProppedPush
<1>5. CASE Stays \/ Changes
  BY <1>5 DEF Stays, Changes
<1>6. CASE Asks \/ Opens
  <2>1. PICK f : Bare(f, arg) /\ f.fn # "hold" /\ stack' = Append(stack, f)
    BY <1>6 DEF Asks, Opens, Asking, Transient
  <2> QED BY <1>1, <1>4, <2>1 DEF Bare
<1>7. CASE Snaps
  BY <1>1, <1>4, <1>7 DEF Snaps, Shot
<1>8. CASE Hands
  BY <1>3, <1>8 DEF Hands, Asking, Transient
<1>9. CASE Leaves
  BY <1>2, <1>9 DEF Leaves
<1>10. CASE Turns
  BY <1>3, <1>10 DEF Turns, Turned
<1>11. CASE Releases
  <2>1. PICK f : /\ Released(Top, f) /\ Height > 0
                 /\ \/ stack' = Append(Below, f)
                    \/ \E d : /\ Bare(d, Root) /\ d.fn = "del"
                              /\ stack' = Append(Append(Below, f), d)
    BY <1>11 DEF Releases
  <2>2. Propped(Append(Below, f)) /\ Append(Below, f) \in Seq(GoodFrame)
    BY <1>3, <2>1 DEF Released, Moved
  <2> QED BY <1>4, <2>1, <2>2 DEF Bare
<1>12. CASE Drops
  BY <1>2, <1>4, <1>12 DEF Drops, Bare
<1>13. CASE Takes
  BY <1>3, <1>13 DEF Takes, Bare
<1>14. CASE Visits
  BY <1>3, <1>14 DEF Visits, Moved
<1>15. ASSUME NEW f, Moved(Top, f), Height > 0, Top.fn \in Containers
       PROVE  LET s == Append(Below, f)
              IN  /\ s \in Seq(GoodFrame) /\ Len(s) = Height /\ Height \in DOMAIN s
                  /\ s[Height].fn \in Containers /\ Propped(s)
  BY <1>3, <1>15 DEF Moved, Containers
<1>16. ASSUME NEW s \in Seq(GoodFrame), Len(s) = Height, Height \in DOMAIN s,
              s[Height].fn \in Containers, Propped(s), NEW g \in GoodFrame
       PROVE  /\ Propped(Append(s, g)) /\ Append(s, g) \in Seq(GoodFrame)
              /\ \A h \in GoodFrame : Propped(Append(Append(s, g), h))
  <2> DEFINE t == Append(s, g)
  <2>1. Height \in Nat /\ Height + 1 - 1 = Height /\ Height + 1 + 1 - 2 = Height
    BY <1>16
  <2>2. Len(s) + 1 - 1 \in DOMAIN s /\ s[Len(s) + 1 - 1].fn \in Containers
    BY <1>16, <2>1
  <2>3. Propped(t)
    BY <1>16, <2>2, ProppedPush
  <2>4. /\ t \in Seq(GoodFrame) /\ Len(t) = Height + 1 /\ t[Height] = s[Height]
        /\ Height \in DOMAIN t
    <3>1. Height \in 1 .. Len(s)
      BY <1>16
    <3>2. t \in Seq(GoodFrame) /\ Len(t) = Len(s) + 1 /\ t[Height] = s[Height]
      BY <3>1, Pushed
    <3> QED BY <1>16, <2>1, <3>1, <3>2
  <2> HIDE DEF t
  <2>5. Len(t) + 1 - 2 \in DOMAIN t /\ t[Len(t) + 1 - 2].fn \in Containers
    BY <1>16, <2>1, <2>4
  <2>6. \A h \in GoodFrame : Propped(Append(t, h))
    BY <2>3, <2>4, <2>5, ProppedPush
  <2> QED BY <2>3, <2>4, <2>6 DEF t
<1>17. CASE HoldsItem \/ HoldsPair
  <2>1. PICK f, g, h :
          /\ Moved(Top, f) /\ g \in GoodFrame /\ h \in GoodFrame
          /\ \/ stack' = Append(Append(Below, f), g)
             \/ stack' = Append(Append(Append(Below, f), g), h)
    BY <1>17 DEF HoldsItem, HoldsPair, Bare
  <2>2. Height > 0 /\ Top.fn \in Containers
    BY <1>17 DEF HoldsItem, HoldsPair, Containers
  <2> DEFINE s == Append(Below, f)
  <2>3. /\ s \in Seq(GoodFrame) /\ Len(s) = Height /\ Height \in DOMAIN s
        /\ s[Height].fn \in Containers /\ Propped(s)
    BY <1>15, <2>1, <2>2
  <2>4. stack' = Append(s, g) \/ stack' = Append(Append(s, g), h)
    BY <2>1
  <2> HIDE DEF s
  <2> QED BY <1>16, <2>1, <2>3, <2>4
<1> QED BY <1>1, <1>5, <1>6, <1>7, <1>8, <1>9, <1>10, <1>11, <1>12, <1>13, <1>14, <1>17
       DEF Move

(* The frames at distance k above a container are no more than the         *)
(* containers.                                                             *)
LEMMA ShiftedCount ==
  ASSUME NEW C \in SUBSET Int, IsFiniteSet(C), NEW k \in Int, NEW H \in SUBSET Int,
         \A l \in H : l - k \in C
  PROVE  IsFiniteSet(H) /\ Cardinality(H) <= Cardinality(C)
<1> DEFINE g == [l \in H |-> l - k]
<1>1. g \in [H -> C]
  OBVIOUS
<1>2. \A a, b \in H : g[a] = g[b] => a = b
  OBVIOUS
<1> HIDE DEF g
<1>3. g \in Injection(H, C)
  BY <1>1, <1>2 DEF Injection, IsInjective
<1> QED BY <1>3, FS_Injection

LEMMA UnionCount ==
  ASSUME NEW A, NEW B, IsFiniteSet(A), IsFiniteSet(B)
  PROVE  /\ IsFiniteSet(A \cup B) /\ Cardinality(A \cup B) \in Nat
         /\ Cardinality(A) \in Nat /\ Cardinality(B) \in Nat
         /\ Cardinality(A \cup B) <= Cardinality(A) + Cardinality(B)
<1>1. /\ IsFiniteSet(A \cup B)
      /\ Cardinality(A \cup B) = Cardinality(A) + Cardinality(B) - Cardinality(A \cap B)
  BY FS_Union
<1>2. IsFiniteSet(A \cap B)
  BY FS_Subset
<1>3. Cardinality(A) \in Nat /\ Cardinality(B) \in Nat /\ Cardinality(A \cap B) \in Nat
      /\ Cardinality(A \cup B) \in Nat
  BY <1>1, <1>2, FS_CardinalityType
<1> QED BY <1>1, <1>3

(* The native stack is bounded by the two limits, for cyclic documents and *)
(* for a default that returns its argument too (enter, invoke_default).    *)
THEOREM HeightCorrect == Spec => []StackBounded
<1>1. Init => Propped(stack)
  BY DEF Init, Propped
<1>2. BalanceInv /\ Propped(stack) /\ [Next]_vars => Propped(stack)'
  BY ProppedStep DEF Propped
<1>3. ASSUME DepthInv, Propped(stack) PROVE StackBounded
  <2> DEFINE D == DOMAIN stack
             C == {l \in D : stack[l].fn \in Containers}
             R == {l \in D : stack[l].fn \in {"result"}}
             H1 == {l \in D : l - 1 \in C}
             H2 == {l \in D : l - 2 \in C}
             T == {Height}
  <2>1. /\ stack \in Seq(GoodFrame) /\ Height \in Nat /\ D = 1 .. Height
        /\ Shape(pc, stack, ok) /\ Height = Len(stack)
    BY <1>3 DEF DepthInv, ShapeInv, TypeInv, Height
  <2>2. Cardinality(C) <= MaxDepth /\ Cardinality(R) <= MaxDefaultDepth
        /\ MaxDepth \in Nat /\ MaxDefaultDepth \in Nat
    <3>1. Conts(stack) = Cardinality(C) /\ Results(stack) = Cardinality(R)
      BY DEF Conts, Results, CountOf
    <3> HIDE DEF C, R
    <3>2. /\ enc.depth \in Int /\ enc.ddepth \in Int /\ Conts(stack) \in Nat
          /\ enc.ddepth = Results(stack) /\ enc.ddepth <= MaxDefaultDepth
          /\ enc.depth >= Conts(stack) /\ enc.depth <= MaxDepth
          /\ MaxDepth \in Nat /\ MaxDefaultDepth \in Nat
      BY <1>3, DepthFacts
    <3> QED BY <3>1, <3>2
  <2>3. /\ IsFiniteSet(D) /\ Cardinality(D) = Height
        /\ C \in SUBSET Int /\ H1 \in SUBSET Int /\ H2 \in SUBSET Int
        /\ C \subseteq D /\ R \subseteq D
    <3> HIDE DEF D
    <3>1. 1 \in Int /\ Height \in Int
      BY <2>1
    <3>2. IsFiniteSet(D) /\ Cardinality(D) = Height
      <4> DEFINE a == 1
      <4>1. a \in Int /\ D = a .. Height
        BY <2>1
      <4> HIDE DEF a
      <4>2. /\ IsFiniteSet(a .. Height)
            /\ Cardinality(a .. Height) = IF a > Height THEN 0 ELSE Height - a + 1
        BY <3>1, <4>1, FS_Interval
      <4> QED BY <2>1, <4>1, <4>2 DEF a
    <3>3. D \in SUBSET Int
      BY <2>1
    <3> QED BY <3>2, <3>3
  <2>4. D \subseteq ((C \cup R) \cup (H1 \cup H2)) \cup T
    <3> SUFFICES ASSUME NEW l \in D PROVE l \in ((C \cup R) \cup (H1 \cup H2)) \cup T
      OBVIOUS
    <3>1. stack[l] \in GoodFrame
      BY <2>1, ElementOfSeq
    <3>2. stack[l].fn \in Containers \cup {"result", "hold"} \cup Transient
      BY <3>1 DEF GoodFrame, Frame, Fns, Containers, Transient
    <3>3. CASE stack[l].fn \in Transient
      <4>1. l = Height
        BY <2>1, <3>3 DEF Shape
      <4> QED BY <4>1
    <3>4. CASE stack[l].fn = "hold"
      <4>1. PICK k \in {1, 2} : l - k \in DOMAIN stack /\ stack[l - k].fn \in Containers
        BY <1>3, <3>4 DEF Propped
      <4>2. CASE k = 1
        <5>1. l - 1 \in C
          BY <4>1, <4>2
        <5> QED BY <5>1
      <4>3. CASE k = 2
        <5>1. l - 2 \in C
          BY <4>1, <4>3
        <5> QED BY <5>1
      <4> QED BY <4>2, <4>3
    <3>5. CASE stack[l].fn \in Containers \cup {"result"}
      BY <3>5
    <3> QED BY <3>2, <3>3, <3>4, <3>5
  <2>5. \A l \in H1 : l - 1 \in C
    OBVIOUS
  <2>6. \A l \in H2 : l - 2 \in C
    OBVIOUS
  <2> HIDE DEF D, C, R, H1, H2
  <2>7. IsFiniteSet(C) /\ IsFiniteSet(R)
    BY <2>3, FS_Subset
  <2>8. IsFiniteSet(H1) /\ Cardinality(H1) <= Cardinality(C)
    <3> DEFINE k == 1
    <3>1. k \in Int /\ \A l \in H1 : l - k \in C
      BY <2>5
    <3> HIDE DEF k
    <3> QED BY <2>3, <2>7, <3>1, ShiftedCount
  <2>9. IsFiniteSet(H2) /\ Cardinality(H2) <= Cardinality(C)
    <3> DEFINE k == 2
    <3>1. k \in Int /\ \A l \in H2 : l - k \in C
      BY <2>6
    <3> HIDE DEF k
    <3> QED BY <2>3, <2>7, <3>1, ShiftedCount
  <2>10. IsFiniteSet(T) /\ Cardinality(T) = 1
    BY FS_Singleton
  <2> HIDE DEF T
  <2> DEFINE A == C \cup R
             B == H1 \cup H2
  <2>11. /\ IsFiniteSet(A) /\ Cardinality(A) <= Cardinality(C) + Cardinality(R)
         /\ Cardinality(C) \in Nat /\ Cardinality(R) \in Nat /\ Cardinality(A) \in Nat
    BY <2>7, UnionCount
  <2>12. /\ IsFiniteSet(B) /\ Cardinality(B) <= Cardinality(H1) + Cardinality(H2)
         /\ Cardinality(H1) \in Nat /\ Cardinality(H2) \in Nat /\ Cardinality(B) \in Nat
    BY <2>8, <2>9, UnionCount
  <2> HIDE DEF A, B
  <2>13. IsFiniteSet(A \cup B) /\ Cardinality(A \cup B) <= Cardinality(A) + Cardinality(B)
         /\ Cardinality(A \cup B) \in Nat
    BY <2>11, <2>12, UnionCount
  <2>14. /\ IsFiniteSet((A \cup B) \cup T)
         /\ Cardinality((A \cup B) \cup T) <= Cardinality(A \cup B) + Cardinality(T)
         /\ Cardinality((A \cup B) \cup T) \in Nat
    BY <2>10, <2>13, UnionCount
  <2>15. Cardinality(D) <= Cardinality((A \cup B) \cup T)
    BY <2>4, <2>14, FS_Subset DEF A, B
  <2>16. Cardinality(D) <= 3 * MaxDepth + MaxDefaultDepth + 1
    BY <2>1, <2>2, <2>3, <2>8, <2>9, <2>10, <2>11, <2>12, <2>13, <2>14, <2>15
  <2> QED BY <2>3, <2>16 DEF StackBounded
<1> QED BY <1>1, <1>2, <1>3, Balances, Depths, PTL DEF Spec

-----------------------------------------------------------------------------
(* The late datetime. *)

(* A date reached after Python imported datetime during the walk is never  *)
(* offered to numpy or to default: the one call into Python serialize      *)
(* makes for it is its own utcoffset (serialize_other, datetime_like).     *)
THEOREM LateDatetimeCorrect == Spec => LateDatetimeHonoured
<1>1. ASSUME ShapeInv, Next, pc = "call", sysdt, enc.guard, DatetimeLike(arg), pc' = "python"
      PROVE  Running("utcoffset")'
  <2>1. ~(Loop \/ Returned \/ Python \/ Terminated)
    BY <1>1 DEF Loop, NextItem, CloseList, NextPair, BadKey, CloseDict, NextSorted, EndSorted,
         SkipHole, ReleaseStep, EndRelease, Returned, ReturnToLoop, ReturnToSorted, ReturnToHold,
         ReturnToResult, Finish, Python, PyClear, PyDelete, PyAppend, PyRebuild, PyImport,
         PyRaise, DefaultReturns, TextReturns, OffsetInvalid, ArrayWritten, ArrayDeclined,
         ProbeReturns, FinalizerReturns, Terminated
  <2>2. ~PastDatetime
    BY <1>1 DEF PastDatetime, Unrecognised, DatetimeRetry, DatetimeLike
  <2>3. ~(NumpyHit \/ NumpyProbe \/ CallDefault \/ Rollback)
    BY <1>1, <2>2 DEF NumpyHit, NumpyProbe, CallDefault, Rollback
  <2>4. ~(WriteHugeInt \/ Open \/ OpenSorted)
    BY <1>1 DEF WriteHugeInt, Open, OpenSorted, DatetimeLike
  <2>5. ~(WriteScalar \/ RejectScalar \/ EnterTooDeep \/ WriteEmpty \/ WriteDate)
    BY <1>1 DEF WriteScalar, RejectScalar, EnterTooDeep, WriteEmpty, WriteDate, Return
  <2>6. ~(LateDatetime \/ LateDatetimeFails)
    BY <1>1 DEF LateDatetime, LateDatetimeFails, Return
  <2>7. CallUtcoffset
    BY <1>1, <2>1, <2>3, <2>4, <2>5, <2>6 DEF Next, Serialize
  <2> DEFINE f == Call("utcoffset", arg)
  <2>8. f \in GoodFrame /\ f.fn = "utcoffset"
    <3>1. arg \in Obj
      BY <1>1 DEF ShapeInv, TypeInv
    <3> QED BY <3>1, BarePython DEF Bare, Asking, Transient
  <2>9. stack' = Append(stack, f) /\ stack \in Seq(GoodFrame)
    BY <1>1, <2>7 DEF CallUtcoffset, ShapeInv, TypeInv
  <2> HIDE DEF f
  <2>10. /\ Len(stack) \in Nat /\ Len(stack') = Len(stack) + 1
         /\ stack'[Len(stack')].fn = "utcoffset"
    BY <2>8, <2>9, Pushed
  <2> QED BY <2>10 DEF Running, Height, Top
<1>2. ShapeInv /\ [Next]_vars
        => [pc = "call" /\ sysdt /\ enc.guard /\ DatetimeLike(arg) /\ pc' = "python"
              => Running("utcoffset")']_vars
  BY <1>1
<1> QED BY <1>2, Shapes, PTL DEF Spec, LateDatetimeHonoured
=============================================================================
