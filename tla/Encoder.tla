------------------------------ MODULE Encoder ------------------------------
(***************************************************************************)
(* The walk of dumps (src/src/encode.rs) over a heap of Python objects     *)
(* that Python code may change while the walk is under way.                *)
(*                                                                         *)
(* The encoder is a recursive descent; its Rust call stack is the variable *)
(* stack, one frame per call that is waiting for something.  pc says what  *)
(* happens next: "call" enters serialize(arg), "step" runs the next loop   *)
(* iteration of the top frame, "ret" hands the result ok to the top frame, *)
(* "rollback" undoes a half-written array, and "python" means that the top *)
(* frame has called into Python, which may do anything the interpreter     *)
(* allows until it returns.  Everything between two Python calls is        *)
(* sequential code under the GIL.                                          *)
(*                                                                         *)
(* Text is abstracted to tokens <<mark, object>>: brackets, commas, "k"    *)
(* for a key with its colon and "v" for a scalar.  Whitespace (INDENT_2,   *)
(* APPEND_NEWLINE) and the spelling of a scalar are left out.              *)
(*                                                                         *)
(* The definitions named Mut... are variants with a plausible bug.  They   *)
(* are part of no specification; each stands before the definition it      *)
(* could replace, to try out that the properties notice.                   *)
(***************************************************************************)
EXTENDS Naturals, Sequences, FiniteSets

CONSTANTS
  Obj,              \* the objects that exist or that Python may create
  Root,             \* the object passed to dumps
  Globals,          \* the objects Python keeps alive throughout
  Kind,             \* what each object is, one of Kinds
  Sub,              \* the objects that are instances of a proper subclass
  Rank,             \* the place of a key's text in code point order
  Docs,             \* the heaps a call may start on
  OptSets,          \* the option sets a call may be given
  Defaults,         \* whether a call may have a default, may have none
  Returns,          \* what default may return for an object
  ArrayTexts,       \* what writing a whole numpy array or scalar emits
  MaxDepth,         \* MAX_DEPTH
  MaxDefaultDepth,  \* MAX_DEFAULT_DEPTH
  PyRaises,         \* whether Python code may raise
  MaxLen,           \* bound: the longest container Python builds
  MaxMutations      \* bound: the containers' changes during one call

Kinds == {"str", "bad", "hugeint", "list", "tuple", "dict", "date", "aware",
          "ndarray", "custom"}
Options == {"sort_keys", "numpy", "passthrough_datetime", "passthrough_subclass"}
Marks == {"[", "]", "{", "}", ",", "k", "v"}

(* A list or tuple entry is <<value>>, a dict entry <<key, value>>, and a  *)
(* deleted dict entry leaves the hole <<>> until the table is rebuilt.     *)
Single == {<<x>> : x \in Obj}
Pair   == {<<>>} \cup (Obj \X Obj)
Entry  == Single \cup Pair
EntryOf(o) == IF Kind[o] = "dict" THEN Pair ELSE Single

ASSUME EncoderAssumption ==
  /\ Root \in Obj /\ Globals \subseteq Obj
  /\ Kind \in [Obj -> Kinds]
  /\ Sub \subseteq Obj
  /\ Rank \in [Obj -> Nat]
  /\ \A d \in Docs : /\ d \in [Obj -> Seq(Entry)]
                     /\ \A o \in Obj : d[o] \in Seq(EntryOf(o))
  /\ OptSets \subseteq SUBSET Options
  /\ Defaults \subseteq BOOLEAN
  /\ Returns \in [Obj -> SUBSET Obj]
  /\ ArrayTexts \subseteq Seq(Marks)
  /\ MaxDepth \in Nat /\ MaxDefaultDepth \in Nat
  /\ PyRaises \in BOOLEAN
  /\ MaxLen \in Nat /\ MaxMutations \in Nat

VARIABLES
  items,    \* the entries of every container
  fresh,    \* the objects Python has not created yet
  sysdt,    \* whether the type cache can produce the datetime group
  budget,   \* the container changes Python has left
  refs,     \* the references the walk owns: <<stack level, entry, part, object>>
  stack,    \* the Rust calls in progress, innermost last
  pc,       \* what happens next
  arg,      \* the object serialize is entered with
  ok,       \* the result the last finished call returned
  enc,      \* the fields of Encoder
  out       \* the tokens in the output buffer

pyVars  == <<items, fresh, sysdt, budget>>
rustVars == <<refs, stack, pc, arg, ok, enc, out>>
vars == <<items, fresh, sysdt, budget, refs, stack, pc, arg, ok, enc, out>>

-----------------------------------------------------------------------------
(* The Python heap. *)

Contents(it, o) ==
  UNION {{it[o][i][j] : j \in DOMAIN it[o][i]} : i \in DOMAIN it[o]}

(* What the objects R keep alive through the containers in via.  Reference *)
(* counting and the cycle collector free nothing else; a cycle is freed    *)
(* here at once, which is the earliest CPython could free it.              *)
Reach(R, it, via) ==
  LET closed == {K \in SUBSET via :
                   R \cap via \subseteq K /\ \A o \in K : Contents(it, o) \cap via \subseteq K}
      core   == {o \in via : \A K \in closed : o \in K}
  IN  R \cup UNION {Contents(it, o) : o \in core}

Boxes == {o \in Obj : Kind[o] \in {"list", "tuple", "dict"}}
Held(rs) == {Root} \cup Globals \cup {t[4] : t \in rs}   \* the caller owns Root
Alive == Reach(Held(refs), items, Boxes)

(* What Python code can get hold of: what is alive, and what it creates.   *)
(* An object that was freed never comes back.                              *)
PyValues ==
  LET alive == Alive
  IN  alive \cup {o \in fresh : Reach({o}, items, Boxes) \subseteq alive \cup fresh}

-----------------------------------------------------------------------------
(* How serialize tells objects apart. *)

Opt(x) == x \in enc.opts
ByClass(o) == o \notin Sub \/ ~Opt("passthrough_subclass")

Scalar(o) == Kind[o] \in {"str", "bad", "hugeint"} /\ ByClass(o)
ListLike(o) == Kind[o] = "list" /\ ByClass(o)
TupleLike(o) == Kind[o] = "tuple" /\ o \notin Sub
DictLike(o) == Kind[o] = "dict" /\ ByClass(o)
DatetimeLike(o) ==
  /\ Kind[o] \in {"date", "aware"} /\ o \notin Sub
  /\ ~Opt("passthrough_datetime")

Unrecognised(o) ==
  ~(Scalar(o) \/ ListLike(o) \/ TupleLike(o) \/ DictLike(o) \/ (enc.dt /\ DatetimeLike(o)))

RunsNoPython(o) == Kind[o] \in {"str", "bad", "hugeint"} /\ o \notin Sub
MutGuarded(o) == enc.default /\ ~RunsNoPython(o)      \* utcoffset forgotten
Guarded(o) == enc.guard /\ ~RunsNoPython(o)

-----------------------------------------------------------------------------
(* Frames.  "hold" is guarded between its INCREF and its DECREF, "result"  *)
(* is serialize_default_result, "release" is dict_sorted giving its        *)
(* snapshot back, "probe" is the re-check of sys.modules["numpy"], and     *)
(* "del" stands below a finalizer that a DECREF runs.                      *)

Fns == {"list", "tuple", "dict", "sorted", "release", "hold", "result", "default",
        "utcoffset", "array", "probe", "digits", "del"}
Containers == {"list", "tuple", "dict", "sorted", "release"}

Frame == [fn : Fns, obj : Obj, pos : Nat, first : BOOLEAN,
          snap : Seq(Pair), order : Seq(Nat), next : {"ret", "step"}]

Call(f, o) == [fn |-> f, obj |-> o, pos |-> 0, first |-> TRUE,
               snap |-> <<>>, order |-> <<>>, next |-> "ret"]

Height == Len(stack)
Top == stack[Height]
Below == SubSeq(stack, 1, Height - 1)
Running(f) == Height > 0 /\ Top.fn = f
SetTop(f) == [stack EXCEPT ![Height] = f]

Emit(marks, o) == out \o [i \in DOMAIN marks |-> <<marks[i], o>>]
Comma(first) == IF first THEN <<>> ELSE <<",">>

(* A call returns b to the frame below it; the stack is s from then on.    *)
Return(b, s) == pc' = "ret" /\ ok' = b /\ stack' = s

(* Py_DECREF of the references in drop, which leave the walk at next with  *)
(* stack s.  Losing a last reference may run a finalizer first.            *)
Decref(drop, s, next) ==
  /\ refs' = refs \ drop
  /\ \/ pc' = next /\ stack' = s
     \/ /\ Reach(Held(refs'), items, Boxes) # Alive
        /\ pc' = "python"
        /\ stack' = Append(s, [Call("del", Root) EXCEPT !.next = next])

-----------------------------------------------------------------------------
(* serialize, for the exact builtin types and their subclasses.            *)

WriteScalar ==
  /\ pc = "call" /\ Scalar(arg) /\ Kind[arg] = "str"
  /\ out' = Emit(<<"v">>, arg)
  /\ Return(TRUE, stack)
  /\ UNCHANGED <<pyVars, refs, arg, enc>>

(* A surrogate, or an integer outside 53 bits under STRICT_INTEGER.        *)
RejectScalar ==
  /\ pc = "call" /\ Scalar(arg) /\ Kind[arg] = "bad"
  /\ Return(FALSE, stack)
  /\ UNCHANGED <<pyVars, refs, arg, enc, out>>

(* An integer so long that CPython's conversion is itself Python code.     *)
WriteHugeInt ==
  /\ pc = "call" /\ Scalar(arg) /\ Kind[arg] = "hugeint"
  /\ stack' = Append(stack, Call("digits", arg))
  /\ pc' = "python"
  /\ UNCHANGED <<pyVars, refs, arg, ok, enc, out>>

(* enter() fails before anything is written.                               *)
MutTooDeep == enc.depth > MaxDepth                      \* off by one
TooDeep == enc.depth >= MaxDepth
Container(o) == ListLike(o) \/ TupleLike(o) \/ DictLike(o)

EnterTooDeep ==
  /\ pc = "call" /\ Container(arg) /\ TooDeep
  /\ Return(FALSE, stack)
  /\ UNCHANGED <<pyVars, refs, arg, enc, out>>

Size(o) == Cardinality({i \in DOMAIN items[o] : items[o][i] # <<>>})
Brackets(o) == IF DictLike(o) THEN <<"{", "}">> ELSE <<"[", "]">>

MutWriteEmpty ==        \* leaves a depth it did not enter
  /\ pc = "call" /\ Container(arg) /\ ~TooDeep /\ Size(arg) = 0
  /\ out' = Emit(Brackets(arg), arg)
  /\ enc' = [enc EXCEPT !.depth = @ - 1]
  /\ Return(TRUE, stack)
  /\ UNCHANGED <<pyVars, refs, arg>>

WriteEmpty ==
  /\ pc = "call" /\ Container(arg) /\ ~TooDeep /\ Size(arg) = 0
  /\ out' = Emit(Brackets(arg), arg)
  /\ Return(TRUE, stack)
  /\ UNCHANGED <<pyVars, refs, arg, enc>>

Opening ==
  /\ pc = "call" /\ Container(arg) /\ ~TooDeep /\ Size(arg) > 0
  /\ out' = Emit(<<Brackets(arg)[1]>>, arg)
  /\ enc' = [enc EXCEPT !.depth = @ + 1]

Open ==
  /\ Opening
  /\ ~(DictLike(arg) /\ Opt("sort_keys"))
  /\ stack' = Append(stack, Call(IF DictLike(arg) THEN "dict"
                                 ELSE IF ListLike(arg) THEN "list" ELSE "tuple", arg))
  /\ pc' = "step"
  /\ UNCHANGED <<pyVars, refs, arg, ok>>

(* dict_sorted takes a reference to every key and value, then checks every *)
(* key, and gives all the references back if one is not text.              *)
Filled(es) == {i \in DOMAIN es : es[i] # <<>>}
SnapRefs(lvl, es) == {<<lvl, i, j, es[i][j]>> : i \in Filled(es), j \in {1, 2}}
GoodKey(k) == Kind[k] = "str"
MutPrecedes(es, i, j) == Rank[es[i][1]] <= Rank[es[j][1]]      \* not stable
Precedes(es, i, j) ==      \* the order of a stable sort by key text
  \/ Rank[es[i][1]] < Rank[es[j][1]]
  \/ Rank[es[i][1]] = Rank[es[j][1]] /\ i < j
Sorted(es) ==
  {f \in [1..Cardinality(Filled(es)) -> Filled(es)] :
     \A i, j \in DOMAIN f : i < j => Precedes(es, f[i], f[j])}

OpenSorted ==
  /\ Opening
  /\ DictLike(arg) /\ Opt("sort_keys")
  /\ refs' = refs \cup SnapRefs(Height + 1, items[arg])
  /\ pc' = "step"
  /\ LET es == items[arg] IN
     \/ /\ \A i \in Filled(es) : GoodKey(es[i][1])
        /\ \E f \in Sorted(es) :
             stack' = Append(stack, [Call("sorted", arg) EXCEPT !.snap = es, !.order = f])
        /\ UNCHANGED ok
     \/ /\ \E i \in Filled(es) : ~GoodKey(es[i][1])
        /\ stack' = Append(stack, [Call("release", arg) EXCEPT !.snap = es])
        /\ ok' = FALSE
  /\ UNCHANGED <<pyVars, arg>>

-----------------------------------------------------------------------------
(* The loops of list, tuple, dict_in_order and dict_sorted.                *)

(* serialize(x), with a reference held across it when h holds.             *)
Visit(x, h, s) ==
  /\ pc' = "call" /\ arg' = x
  /\ IF h THEN /\ stack' = Append(s, Call("hold", x))
               /\ refs' = refs \cup {<<Len(s) + 1, 0, 0, x>>}
          ELSE stack' = s /\ refs' = refs

(* The size is read again at every step.  A tuple's items are not held:    *)
(* the tuple cannot change, and it is alive itself.                        *)
NextItem ==
  /\ pc = "step" /\ (Running("list") \/ Running("tuple"))
  /\ Top.pos < Len(items[Top.obj])
  /\ LET x == items[Top.obj][Top.pos + 1][1] IN
       Visit(x, Top.fn = "list" /\ Guarded(x), SetTop([Top EXCEPT !.pos = @ + 1]))
  /\ out' = Emit(Comma(Top.pos = 0), Top.obj)
  /\ UNCHANGED <<pyVars, ok, enc>>

MutClose(f) ==          \* depth is not given back
  /\ UNCHANGED enc
  /\ out' = Emit(<<IF f.fn \in {"list", "tuple"} THEN "]" ELSE "}">>, f.obj)

Close(f) ==
  /\ enc' = [enc EXCEPT !.depth = @ - 1]
  /\ out' = Emit(<<IF f.fn \in {"list", "tuple"} THEN "]" ELSE "}">>, f.obj)

CloseList ==
  /\ pc = "step" /\ (Running("list") \/ Running("tuple"))
  /\ Top.pos >= Len(items[Top.obj])
  /\ Close(Top)
  /\ Return(TRUE, Below)
  /\ UNCHANGED <<pyVars, refs, arg>>

(* PyDict_Next: the first entry past pos that is not a hole.               *)
NextEntry(o, p) ==
  {i \in Filled(items[o]) : i > p /\ \A j \in Filled(items[o]) : j > p => i <= j}

KeyMarks(first) == Comma(first) \o <<"k">>

NextPair ==
  /\ pc = "step" /\ Running("dict")
  /\ \E i \in NextEntry(Top.obj, Top.pos) :
       LET k == items[Top.obj][i][1]
           v == items[Top.obj][i][2]
           s == SetTop([Top EXCEPT !.pos = i, !.first = FALSE])
       IN  /\ GoodKey(k)
           /\ out' = Emit(KeyMarks(Top.first), k)
           /\ pc' = "call" /\ arg' = v
           /\ IF Guarded(v)
                THEN /\ stack' = s \o <<Call("hold", k), Call("hold", v)>>
                     /\ refs' = refs \cup {<<Height + 1, 0, 0, k>>, <<Height + 2, 0, 0, v>>}
                ELSE stack' = s /\ refs' = refs
  /\ UNCHANGED <<pyVars, ok, enc>>

BadKey ==
  /\ pc = "step" /\ Running("dict")
  /\ \E i \in NextEntry(Top.obj, Top.pos) : ~GoodKey(items[Top.obj][i][1])
  /\ Return(FALSE, Below)
  /\ UNCHANGED <<pyVars, refs, arg, enc, out>>

CloseDict ==
  /\ pc = "step" /\ Running("dict")
  /\ NextEntry(Top.obj, Top.pos) = {}
  /\ Close(Top)
  /\ Return(TRUE, Below)
  /\ UNCHANGED <<pyVars, refs, arg>>

NextSorted ==
  /\ pc = "step" /\ Running("sorted")
  /\ Top.pos < Len(Top.order)
  /\ LET e == Top.snap[Top.order[Top.pos + 1]] IN
       /\ out' = Emit(KeyMarks(Top.pos = 0), e[1])
       /\ Visit(e[2], FALSE, SetTop([Top EXCEPT !.pos = @ + 1]))
  /\ UNCHANGED <<pyVars, ok, enc>>

(* release: per entry the value, then the key.                             *)
Releasing(f) == [f EXCEPT !.fn = "release", !.pos = 0, !.first = TRUE]

EndSorted ==
  /\ pc = "step" /\ Running("sorted")
  /\ Top.pos >= Len(Top.order)
  /\ stack' = SetTop(Releasing(Top))
  /\ ok' = TRUE
  /\ UNCHANGED <<pyVars, refs, pc, arg, enc, out>>

SkipHole ==
  /\ pc = "step" /\ Running("release")
  /\ Top.pos < Len(Top.snap) /\ Top.snap[Top.pos + 1] = <<>>
  /\ stack' = SetTop([Top EXCEPT !.pos = @ + 1])
  /\ UNCHANGED <<pyVars, refs, pc, arg, ok, enc, out>>

ReleaseStep ==
  /\ pc = "step" /\ Running("release")
  /\ Top.pos < Len(Top.snap) /\ Top.snap[Top.pos + 1] # <<>>
  /\ LET i == Top.pos + 1
         j == IF Top.first THEN 2 ELSE 1
         f == IF Top.first THEN [Top EXCEPT !.first = FALSE]
                           ELSE [Top EXCEPT !.first = TRUE, !.pos = @ + 1]
     IN  Decref({<<Height, i, j, Top.snap[i][j]>>}, SetTop(f), "step")
  /\ UNCHANGED <<pyVars, arg, ok, enc, out>>

MutEndRelease ==        \* dict_sorted forgets that it failed
  /\ pc = "step" /\ Running("release")
  /\ Top.pos >= Len(Top.snap)
  /\ Close(Top)
  /\ Return(TRUE, Below)
  /\ UNCHANGED <<pyVars, refs, arg>>

EndRelease ==
  /\ pc = "step" /\ Running("release")
  /\ Top.pos >= Len(Top.snap)
  /\ IF ok THEN Close(Top) ELSE UNCHANGED <<enc, out>>
  /\ Return(ok, Below)
  /\ UNCHANGED <<pyVars, refs, arg>>

-----------------------------------------------------------------------------
(* A call has returned ok to the frame that made it.                       *)

ReturnToLoop ==
  /\ pc = "ret" /\ Height > 0 /\ Top.fn \in {"list", "tuple", "dict"}
  /\ IF ok THEN pc' = "step" /\ UNCHANGED <<stack, ok>> ELSE Return(FALSE, Below)
  /\ UNCHANGED <<pyVars, refs, arg, enc, out>>

ReturnToSorted ==
  /\ pc = "ret" /\ Running("sorted")
  /\ pc' = "step"
  /\ stack' = IF ok THEN stack ELSE SetTop(Releasing(Top))
  /\ UNCHANGED <<pyVars, refs, arg, ok, enc, out>>

MutReturnToHold ==      \* an early return on failure skips the DECREF
  /\ pc = "ret" /\ Running("hold")
  /\ IF ok THEN Decref({<<Height, 0, 0, Top.obj>>}, Below, "ret")
           ELSE pc' = "ret" /\ stack' = Below /\ UNCHANGED refs
  /\ UNCHANGED <<pyVars, arg, ok, enc, out>>

(* The DECREF of guarded, and the one of the dict loop for its key.        *)
ReturnToHold ==
  /\ pc = "ret" /\ Running("hold")
  /\ Decref({<<Height, 0, 0, Top.obj>>}, Below, "ret")
  /\ UNCHANGED <<pyVars, arg, ok, enc, out>>

ReturnToResult ==
  /\ pc = "ret" /\ Running("result")
  /\ enc' = [enc EXCEPT !.ddepth = @ - 1]
  /\ Decref({<<Height, 0, 0, Top.obj>>}, Below, "ret")
  /\ UNCHANGED <<pyVars, arg, ok, out>>

Finish ==
  /\ pc = "ret" /\ Height = 0
  /\ pc' = "done"
  /\ UNCHANGED <<pyVars, refs, stack, arg, ok, enc, out>>

-----------------------------------------------------------------------------
(* serialize_other: datetimes, numpy and default, in that order.           *)

WriteDate ==
  /\ pc = "call" /\ enc.dt /\ DatetimeLike(arg) /\ Kind[arg] = "date"
  /\ out' = Emit(<<"v">>, arg)
  /\ Return(TRUE, stack)
  /\ UNCHANGED <<pyVars, refs, arg, enc>>

(* A datetime or time with a tzinfo calls its utcoffset.                   *)
CallUtcoffset ==
  /\ pc = "call" /\ enc.dt /\ DatetimeLike(arg) /\ Kind[arg] = "aware"
  /\ stack' = Append(stack, Call("utcoffset", arg))
  /\ pc' = "python"
  /\ UNCHANGED <<pyVars, refs, arg, ok, enc, out>>

(* The datetime group is looked up again only while guarded, and only for  *)
(* an object nothing else took.  After it loads, serialize(arg) reaches    *)
(* datetime_like with the same result as being entered again.              *)
MutDatetimeRetry == FALSE      \* the group is only read when dumps starts

DatetimeRetry ==
  /\ Unrecognised(arg) /\ ~enc.dt /\ enc.guard /\ ~Opt("passthrough_datetime")

LateDatetime ==
  /\ pc = "call" /\ DatetimeRetry /\ sysdt
  /\ enc' = [enc EXCEPT !.dt = TRUE]
  /\ UNCHANGED <<pyVars, refs, stack, pc, arg, ok, out>>

LateDatetimeFails ==
  /\ pc = "call" /\ DatetimeRetry /\ PyRaises
  /\ Return(FALSE, stack)
  /\ UNCHANGED <<pyVars, refs, arg, enc, out>>

PastDatetime == pc = "call" /\ Unrecognised(arg) /\ ~(DatetimeRetry /\ sysdt)

(* Whether the type cache knows an ndarray's type is the type cache's      *)
(* business: here it may or may not.                                       *)
NumpyHit ==
  /\ PastDatetime /\ Opt("numpy") /\ Kind[arg] = "ndarray"
  /\ stack' = Append(stack, [Call("array", arg) EXCEPT !.pos = Len(out)])
  /\ pc' = "python"
  /\ UNCHANGED <<pyVars, refs, arg, ok, enc, out>>

(* A miss asks sys.modules once per call, which may release an old module. *)
NumpyProbe ==
  /\ PastDatetime /\ Opt("numpy") /\ ~enc.rechecked
  /\ enc' = [enc EXCEPT !.rechecked = TRUE]
  /\ stack' = Append(stack, Call("probe", arg))
  /\ pc' = "python"
  /\ UNCHANGED <<pyVars, refs, arg, ok, out>>

(* call_default and call_default_declined for o, with stack s.             *)
MutInvokeDefault(o, s) ==      \* no limit on chained defaults
  IF enc.default
    THEN stack' = Append(s, Call("default", o)) /\ pc' = "python" /\ UNCHANGED ok
    ELSE Return(FALSE, s)

InvokeDefault(o, s) ==
  IF enc.default /\ enc.ddepth < MaxDefaultDepth
    THEN stack' = Append(s, Call("default", o)) /\ pc' = "python" /\ UNCHANGED ok
    ELSE Return(FALSE, s)

CallDefault ==
  /\ PastDatetime /\ (Opt("numpy") => enc.rechecked)
  /\ InvokeDefault(arg, stack)
  /\ UNCHANGED <<pyVars, refs, arg, enc, out>>

MutRollback ==          \* the half-written array stays in the buffer
  /\ pc = "rollback"
  /\ InvokeDefault(Top.obj, Below)
  /\ UNCHANGED <<pyVars, refs, arg, enc, out>>

(* An element declined half-way: drop the text, and hand over the array.   *)
Rollback ==
  /\ pc = "rollback"
  /\ out' = SubSeq(out, 1, Top.pos)
  /\ InvokeDefault(Top.obj, Below)
  /\ UNCHANGED <<pyVars, refs, arg, enc>>

-----------------------------------------------------------------------------
(* What Python does while it runs.                                         *)

Mutable == {o \in Alive : Kind[o] \in {"list", "dict"}}
Entries(o) ==
  LET vs == PyValues
  IN  IF Kind[o] = "dict" THEN vs \X vs ELSE {<<v>> : v \in vs}

PyChange(o, es) ==
  /\ budget' = budget - 1
  /\ items' = [items EXCEPT ![o] = es]
  /\ UNCHANGED <<sysdt, rustVars>>

PyClear ==
  /\ pc = "python" /\ budget > 0
  /\ \E o \in Mutable : items[o] # <<>> /\ PyChange(o, <<>>)
  /\ UNCHANGED fresh

PyDelete ==
  /\ pc = "python" /\ budget > 0
  /\ \E o \in Mutable : \E i \in Filled(items[o]) :
       PyChange(o, IF Kind[o] = "dict"
                     THEN [items[o] EXCEPT ![i] = <<>>]
                     ELSE SubSeq(items[o], 1, i - 1) \o SubSeq(items[o], i + 1, Len(items[o])))
  /\ UNCHANGED fresh

PyAppend ==
  /\ pc = "python" /\ budget > 0
  /\ \E o \in Mutable :
       /\ Len(items[o]) < MaxLen
       /\ \E e \in Entries(o) :
            /\ PyChange(o, Append(items[o], e))
            /\ fresh' = fresh \ Reach({e[i] : i \in DOMAIN e}, items, Boxes)

(* A growing dict rebuilds its table without the holes.                    *)
PyRebuild ==
  /\ pc = "python" /\ budget > 0
  /\ \E o \in Mutable :
       /\ Filled(items[o]) # DOMAIN items[o]
       /\ \E f \in [1..Size(o) -> Filled(items[o])] :
            /\ \A i, j \in DOMAIN f : i < j => f[i] < f[j]
            /\ PyChange(o, [i \in DOMAIN f |-> items[o][f[i]]])
  /\ UNCHANGED fresh

PyImport ==
  /\ pc = "python" /\ ~sysdt /\ sysdt' = TRUE
  /\ UNCHANGED <<items, fresh, budget, rustVars>>

-----------------------------------------------------------------------------
(* Python returns to the encoder.                                          *)

PyRaise ==
  /\ pc = "python" /\ PyRaises
  /\ Top.fn \in {"default", "utcoffset", "array", "probe", "digits"}
  /\ Return(FALSE, Below)
  /\ UNCHANGED <<pyVars, refs, arg, enc, out>>

DefaultReturns ==
  /\ pc = "python" /\ Running("default")
  /\ \E r \in PyValues \cap Returns[Top.obj] :
       /\ stack' = Append(Below, Call("result", r))
       /\ refs' = refs \cup {<<Height, 0, 0, r>>}
       /\ fresh' = fresh \ Reach({r}, items, Boxes)
       /\ arg' = r
  /\ enc' = [enc EXCEPT !.ddepth = @ + 1]
  /\ pc' = "call"
  /\ UNCHANGED <<items, sysdt, budget, ok, out>>

(* A valid offset, or the digits of a long integer.                        *)
TextReturns ==
  /\ pc = "python" /\ (Running("utcoffset") \/ Running("digits"))
  /\ out' = Emit(<<"v">>, Top.obj)
  /\ Return(TRUE, Below)
  /\ UNCHANGED <<pyVars, refs, arg, enc>>

MutOffsetInvalid ==     \* asks until the offset is valid
  /\ pc = "python" /\ Running("utcoffset") /\ PyRaises
  /\ stack' = SetTop([Top EXCEPT !.pos = 1 - @])
  /\ UNCHANGED <<pyVars, refs, pc, arg, ok, enc, out>>

(* An invalid offset: obj.utcoffset() is asked once, for its own error.    *)
OffsetInvalid ==
  /\ pc = "python" /\ Running("utcoffset") /\ PyRaises /\ Top.pos = 0
  /\ stack' = SetTop([Top EXCEPT !.pos = 1])
  /\ UNCHANGED <<pyVars, refs, pc, arg, ok, enc, out>>

ArrayWritten ==
  /\ pc = "python" /\ Running("array")
  /\ \E t \in ArrayTexts : out' = Emit(t, Top.obj)
  /\ Return(TRUE, Below)
  /\ UNCHANGED <<pyVars, refs, arg, enc>>

(* The array is declined: by its layout, before any text, or by an element.*)
ArrayDeclined ==
  /\ pc = "python" /\ Running("array")
  /\ \E t \in ArrayTexts : \E n \in 0 .. Len(t) - 1 :
       out' = Emit(SubSeq(t, 1, n), Top.obj)
  /\ pc' = "rollback"
  /\ UNCHANGED <<pyVars, refs, stack, arg, ok, enc>>

(* The probe may have found numpy's types.                                 *)
ProbeReturns ==
  /\ pc = "python" /\ Running("probe")
  /\ \/ /\ Kind[Top.obj] = "ndarray"
        /\ stack' = SetTop([Call("array", Top.obj) EXCEPT !.pos = Len(out)])
        /\ UNCHANGED <<pc, ok>>
     \/ InvokeDefault(Top.obj, Below)
  /\ UNCHANGED <<pyVars, refs, arg, enc, out>>

FinalizerReturns ==
  /\ pc = "python" /\ Running("del")
  /\ stack' = Below /\ pc' = Top.next
  /\ UNCHANGED <<pyVars, refs, arg, ok, enc, out>>

-----------------------------------------------------------------------------

(* dumps: guard is set when any Python code can run during the walk.       *)
MutGuard(o, d, dt) == d \/ "numpy" \in o      \* utcoffset forgotten
Guard(o, d, dt) == d \/ "numpy" \in o \/ dt

Init ==
  /\ items \in Docs
  /\ fresh = Obj \ Reach(Held({}), items, Boxes)
  /\ sysdt \in BOOLEAN
  /\ budget = MaxMutations
  /\ refs = {} /\ stack = <<>> /\ out = <<>>
  /\ pc = "call" /\ arg = Root /\ ok = TRUE
  /\ \E o \in OptSets, d \in Defaults :
       enc = [opts |-> o, default |-> d, guard |-> Guard(o, d, sysdt), dt |-> sysdt,
              depth |-> 0, ddepth |-> 0, rechecked |-> FALSE]

Serialize ==
  \/ WriteScalar \/ RejectScalar \/ WriteHugeInt
  \/ EnterTooDeep \/ WriteEmpty \/ Open \/ OpenSorted
  \/ WriteDate \/ CallUtcoffset \/ LateDatetime \/ LateDatetimeFails
  \/ NumpyHit \/ NumpyProbe \/ CallDefault \/ Rollback

Loop ==
  \/ NextItem \/ CloseList \/ NextPair \/ BadKey \/ CloseDict
  \/ NextSorted \/ EndSorted \/ SkipHole \/ ReleaseStep \/ EndRelease

Returned ==
  \/ ReturnToLoop \/ ReturnToSorted \/ ReturnToHold \/ ReturnToResult \/ Finish

Python ==
  \/ PyClear \/ PyDelete \/ PyAppend \/ PyRebuild \/ PyImport
  \/ PyRaise \/ DefaultReturns \/ TextReturns \/ OffsetInvalid
  \/ ArrayWritten \/ ArrayDeclined \/ ProbeReturns \/ FinalizerReturns

Terminated == pc = "done" /\ UNCHANGED vars

Next == Serialize \/ Loop \/ Returned \/ Python \/ Terminated

(* The thread runs, and Python code returns.  It changes the containers at *)
(* most MaxMutations times in all.                                         *)
Spec == Init /\ [][Next]_vars /\ WF_vars(Serialize \/ Loop \/ Returned \/ Python)

-----------------------------------------------------------------------------
(* Properties.                                                             *)

EncType == [opts : SUBSET Options, default : BOOLEAN, guard : BOOLEAN, dt : BOOLEAN,
            depth : Nat, ddepth : Nat, rechecked : BOOLEAN]

(* Every variable keeps its type: containers hold entries of their own     *)
(* kind, and the encoder's counters (u32 in the code) never go below zero. *)
TypeOK ==
  /\ items \in [Obj -> Seq(Entry)]
  /\ \A o \in Obj : items[o] \in Seq(EntryOf(o))
  /\ fresh \subseteq Obj
  /\ sysdt \in BOOLEAN
  /\ budget \in 0 .. MaxMutations
  /\ refs \subseteq Nat \X Nat \X Nat \X Obj
  /\ stack \in Seq(Frame)
  /\ pc \in {"call", "step", "ret", "rollback", "python", "done"}
  /\ arg \in Obj
  /\ ok \in BOOLEAN
  /\ enc \in EncType
  /\ out \in Seq(Marks \X Obj)

(* What a frame took and has not given back: the item, key or result it    *)
(* holds, or the part of its snapshot that release has not reached.        *)
Unreleased(f) ==
  {p \in Filled(f.snap) \X {1, 2} :
     f.fn = "release" => \/ p[1] > f.pos + 1
                         \/ p[1] = f.pos + 1 /\ (f.first \/ p[2] = 1)}
Owned(l) ==
  LET f == stack[l] IN
  CASE f.fn \in {"hold", "result"}    -> {<<l, 0, 0, f.obj>>}
    [] f.fn \in {"sorted", "release"} -> {<<l, p[1], p[2], f.snap[p[1]][p[2]]>> :
                                            p \in Unreleased(f)}
    [] OTHER                          -> {}

(* No reference leaks and none is given back twice, on any path through    *)
(* success, failure or a finalizer: at every moment the walk owns exactly  *)
(* the references its frames will release (guarded, dict_in_order,         *)
(* dict_sorted, serialize_default_result).                                 *)
RefsBalanced == refs = UNION {Owned(l) : l \in DOMAIN stack}

(* The objects a frame still has a pointer to.                             *)
Pointers(f) ==
  {f.snap[p[1]][p[2]] : p \in Unreleased(f)} \cup (IF f.fn = "del" THEN {} ELSE {f.obj})

(* FR-13: whatever Python code does to the containers during the walk, the *)
(* encoder never has a pointer to an object that was freed: not a          *)
(* container being iterated, nor a snapshot, nor an object whose callback  *)
(* is running and whose type name or fields are read afterwards.           *)
NoUseAfterFree ==
  LET inuse == UNION {Pointers(stack[l]) : l \in DOMAIN stack}
  IN  inuse \cup (IF pc = "call" THEN {arg} ELSE {}) \subseteq Alive

(* guarded skips the INCREF when guard is false because "no Python code    *)
(* can run during serialization" then; the debug_asserts of invoke_default,*)
(* utcoffset_of and array_struct say the same.                             *)
GuardSound == pc = "python" => enc.guard

(* Until something fails, depth and default_depth count the containers and *)
(* default results that are open, however these nest and whatever Python   *)
(* changes meanwhile, so both limits hold for the real recursion.          *)
DepthIsNesting ==
  ok => /\ enc.depth = Cardinality({l \in DOMAIN stack : stack[l].fn \in Containers})
        /\ enc.ddepth = Cardinality({l \in DOMAIN stack : stack[l].fn = "result"})
        /\ enc.depth <= MaxDepth /\ enc.ddepth <= MaxDefaultDepth

(* The native stack is bounded, for cyclic documents and for a default     *)
(* that returns its argument too: a container is below at most a key and a *)
(* value held for it, and one call into Python is on top.                  *)
StackBounded == Height <= 3 * MaxDepth + MaxDefaultDepth + 1

(* Once a call has failed nothing resumes writing: the exception reaches   *)
(* dumps, through every release and finalizer on the way.                  *)
FailureIsFinal == [][~ok => ~ok' /\ out' = out]_vars

(* A date reached after Python imported datetime during the walk is        *)
(* written natively: its own utcoffset is the only Python code that sees   *)
(* it, and it is never offered to numpy or to default.                     *)
LateDatetimeHonoured ==
  [][pc = "call" /\ sysdt /\ enc.guard /\ DatetimeLike(arg) /\ pc' = "python"
       => Running("utcoffset")']_vars

(* dumps returns, on cyclic heaps, with a default that returns its own     *)
(* argument and with finalizers, provided that Python changes containers   *)
(* only finitely often, as the budget sees to.  Without that it need not:  *)
(* a default that appends to the list being walked each time it is called  *)
(* keeps dumps going, since list reads the size again at every step.       *)
Terminates == <>(pc = "done")
=============================================================================
