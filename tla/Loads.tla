------------------------------- MODULE Loads -------------------------------
(***************************************************************************)
(* loads in one interpreter and one thread (src/src/decode.rs).  A call    *)
(* copies its input into the thread's scratch, has simd-json turn it into  *)
(* a tape of nodes, and builds the Python value from the tape with an      *)
(* explicit stack of partial containers.  Dict keys go through the key     *)
(* cache of the interpreter.                                               *)
(*                                                                         *)
(* Building runs no Python code; raising JSONDecodeError and releasing the *)
(* buffer of a memoryview do, and that code may call loads again.  calls   *)
(* is the stack of such calls, and only the last one is running.           *)
(*                                                                         *)
(* The parser is outside the code modelled here: it either rejects a       *)
(* document or gives the tape Tape[d] of its nodes, see Laid.              *)
(***************************************************************************)
EXTENDS Naturals, Sequences, FiniteSets

CONSTANTS
  Tape,         \* the tape of every document that the parser accepts
  BlankDoc,     \* a document that is empty or white space
  RejectedDoc,  \* one that the parser rejects
  Hash,         \* the hash of every key text that can be cached: ASCII, short
  CacheSlots,   \* CACHE_SLOTS
  Arguments,    \* the kinds of argument loads is called with
  Singletons,   \* the sequence of the values CPython has one object of
  MaxObjects,   \* bound: the objects that exist at a time
  MaxCalls,     \* bound: the calls made
  MaxNesting,   \* bound: the calls in progress together
  MaxFailures   \* bound: the allocations that fail

(* What the argument may be: a document in one of the types loads accepts, *)
(* a str that holds a surrogate, a memoryview that is not contiguous, or   *)
(* an object of another type.                                              *)
Sources == {"bytes", "str", "bytearray", "memoryview"}
BadSources == {"surrogates", "strided", "other"}

(* A node of a tape: a container has its number of items or members, and   *)
(* the number of nodes they take.                                          *)
Nodes == [t : {"str", "num", "const"}, text : STRING]
         \cup [t : {"list", "dict"}, len : Nat, count : Nat]

(* The node after the value at node n.                                     *)
After(tape, n) ==
  IF tape[n].t \in {"list", "dict"} THEN n + 1 + tape[n].count ELSE n + 1

(* The items of the container at n are at c[0], c[1] and so on, one after  *)
(* the other.  A member is a name and a value.                             *)
Children(tape, n, c) ==
  /\ c[0] = n + 1 /\ c[tape[n].len] = After(tape, n)
  /\ \A k \in 0 .. tape[n].len - 1 :
       /\ c[k] \in DOMAIN tape
       /\ tape[n].t = "list" => c[k + 1] = After(tape, c[k])
       /\ tape[n].t = "dict" => /\ tape[c[k]].t = "str" /\ c[k] + 1 \in DOMAIN tape
                                /\ c[k + 1] = After(tape, c[k] + 1)

(* A tape is one value.                                                    *)
Laid(tape) ==
  /\ tape \in Seq(Nodes) /\ tape # <<>> /\ After(tape, 1) = Len(tape) + 1
  /\ \A n \in DOMAIN tape : tape[n].t \in {"list", "dict"} =>
       \E c \in [0 .. tape[n].len -> 1 .. Len(tape) + 1] : Children(tape, n, c)

ASSUME LoadsAssumption ==
  /\ BlankDoc # RejectedDoc /\ {BlankDoc, RejectedDoc} \cap DOMAIN Tape = {}
  /\ \A d \in DOMAIN Tape :
       /\ Laid(Tape[d])
       /\ \A n \in DOMAIN Tape[d] : Tape[d][n].t = "const" =>
            \E o \in DOMAIN Singletons : Singletons[o] = Tape[d][n].text
  /\ \A k \in DOMAIN Hash : Hash[k] \in Nat
  /\ Singletons \in Seq(STRING)
  /\ Arguments \subseteq Sources \cup BadSources
  /\ CacheSlots \in Nat \ {0} /\ MaxObjects \in Nat \ {0} /\ Len(Singletons) < MaxObjects
  /\ MaxCalls \in Nat /\ MaxNesting \in Nat /\ MaxFailures \in Nat

Docs == DOMAIN Tape \cup {BlankDoc, RejectedDoc}

Objects == 1 .. MaxObjects
Nil == 0
Slots == 0 .. CacheSlots - 1

VARIABLES
  calls,      \* the calls in progress, the innermost last
  borrowed,   \* SCRATCH is borrowed
  i,          \* the next node of the tape
  partials,   \* the partially built containers, the innermost last
  val,        \* the finished value on its way into its parent
  cache,      \* the key cache
  heap,       \* the Python objects
  owned,      \* the references to every object that are not in a container
  results,    \* the values calls returned that Python still holds, with their document
  left,       \* the calls Python may still make
  failures    \* the allocations that may still fail

builder == <<i, partials, val>>
bounds  == <<left, failures>>
vars == <<calls, borrowed, i, partials, val, cache, heap, owned, results, left, failures>>

PCs == {"run", "build", "insert", "unwind", "raise", "python", "release", "return"}
Exceptions == {"none", "decode", "memory", "buffer", "python"}

(* utf8: the argument is no str, or its UTF-8 can be had.                  *)
Frame == [source : Sources \cup BadSources, utf8 : BOOLEAN, doc : Docs, pc : PCs,
          exc : Exceptions, result : {Nil} \cup Objects,
          args : SUBSET {"doc", "msg", "pos"}, view : BOOLEAN]
Partial == [obj : Objects, isList : BOOLEAN, filled : Nat, len : Nat \ {0},
            key : {Nil} \cup Objects]

Top == calls[Len(calls)]
Goto(f) == calls' = [calls EXCEPT ![Len(calls)] = f]
At(pc) == calls # <<>> /\ Top.pc = pc

RunsPython == calls # <<>> => Top.pc = "python" \/ (Top.pc = "return" /\ Top.view)

-----------------------------------------------------------------------------
(* Objects.  A list item is <<value>>, <<Nil>> when it is not filled, and  *)
(* a dict item <<key, value>>.                                             *)

Str(text)  == [t |-> "str", text |-> text, items |-> <<>>]
Num(text)  == [t |-> "num", text |-> text, items |-> <<>>]
NewList(n) == [t |-> "list", text |-> "", items |-> [m \in 1 .. n |-> <<Nil>>]]
NewDict    == [t |-> "dict", text |-> "", items |-> <<>>]
Unused     == [t |-> "unused", text |-> "", items |-> <<>>]

Singleton(text) == CHOOSE o \in DOMAIN Singletons : Singletons[o] = text

Contents(obj) ==
  (UNION {{obj.items[n][m] : m \in DOMAIN obj.items[n]} : n \in DOMAIN obj.items}) \ {Nil}

Alive(h, own) ==
  LET reached[S \in SUBSET Objects] ==
        LET T == S \cup UNION {Contents(h[o]) : o \in S}
        IN  IF T = S THEN S ELSE reached[T]
  IN  reached[DOMAIN Singletons \cup {o \in Objects : own[o] > 0}]

(* After Py_DECREF: what nothing refers to any more is freed.              *)
Settle(h, own) ==
  LET alive == Alive(h, own) IN
  /\ owned' = own
  /\ heap' = [o \in Objects |-> IF o \in alive THEN h[o] ELSE Unused]

(* A new object, of which the caller owns the reference.  Room is a bound. *)
Room == \E o \in Objects : heap[o] = Unused
Fresh == CHOOSE o \in Objects :
           heap[o] = Unused /\ \A q \in Objects : heap[q] = Unused => o <= q
New(obj) ==
  /\ Room
  /\ heap' = [heap EXCEPT ![Fresh] = obj] /\ owned' = [owned EXCEPT ![Fresh] = 1]

(* An allocation fails: build drops what it has and the error is set.      *)
Fails ==
  /\ failures > 0 /\ failures' = failures - 1
  /\ Goto([Top EXCEPT !.pc = "unwind", !.exc = "memory"])

-----------------------------------------------------------------------------
(* loads and run. *)

Call(source, doc) ==
  /\ RunsPython /\ left > 0 /\ Len(calls) < MaxNesting
  /\ left' = left - 1
  /\ LET f == [source |-> source, utf8 |-> source # "surrogates", doc |-> doc, pc |-> "run",
               exc |-> "none", result |-> Nil, args |-> {}, view |-> source = "memoryview"]
     IN  calls' = Append(calls,
           CASE source = "strided" -> [f EXCEPT !.pc = "return", !.exc = "buffer"]
             [] source \in {"surrogates", "other"} -> [f EXCEPT !.pc = "raise"]
             [] OTHER -> f)
  /\ UNCHANGED <<borrowed, builder, cache, heap, owned, results, failures>>

(* PyUnicode_AsUTF8AndSize allocates the UTF-8 of a str that is not ASCII. *)
(* loads clears the MemoryError and takes the str for one with surrogates. *)
EncodeFails ==
  /\ At("run") /\ Top.source = "str" /\ Top.doc # BlankDoc
  /\ failures > 0 /\ failures' = failures - 1
  /\ Goto([Top EXCEPT !.pc = "raise", !.utf8 = FALSE])
  /\ UNCHANGED <<borrowed, builder, cache, heap, owned, results, left>>

Blank ==
  /\ At("run") /\ Top.doc = BlankDoc
  /\ Goto([Top EXCEPT !.pc = "raise"])
  /\ UNCHANGED <<borrowed, builder, cache, heap, owned, results, bounds>>

(* fill_tape gives a tape, and build starts with the scratch borrowed.     *)
Parse ==
  /\ At("run") /\ Top.doc \in DOMAIN Tape
  /\ ~borrowed /\ borrowed' = TRUE
  /\ i' = 1 /\ partials' = <<>> /\ val' = Nil
  /\ Goto([Top EXCEPT !.pc = "build"])
  /\ UNCHANGED <<cache, heap, owned, results, bounds>>

MutReject ==    \* the error is raised under the borrow
  /\ At("run") /\ Top.doc = RejectedDoc
  /\ ~borrowed /\ borrowed' = TRUE
  /\ Goto([Top EXCEPT !.pc = "raise"])
  /\ UNCHANGED <<builder, cache, heap, owned, results, bounds>>

(* fill_tape fails: the borrow has ended when the error is raised.         *)
Reject ==
  /\ At("run") /\ Top.doc = RejectedDoc
  /\ ~borrowed
  /\ Goto([Top EXCEPT !.pc = "raise"])
  /\ UNCHANGED <<borrowed, builder, cache, heap, owned, results, bounds>>

-----------------------------------------------------------------------------
(* KeyCache::get and the other half of build's loop head: the key of an    *)
(* object's next member.                                                   *)

Part == partials[Len(partials)]
Node == Tape[Top.doc][i]
AwaitsKey == partials # <<>> /\ ~Part.isList /\ Part.key = Nil
SetKey(o) == partials' = [partials EXCEPT ![Len(partials)].key = o]

Slot(text) == Hash[text] % CacheSlots

MutCached(text) ==      \* the bytes are not compared
  LET s == cache[Slot(text)] IN s.key # Nil /\ s.hash = Hash[text]

Cached(text) ==
  LET s == cache[Slot(text)]
  IN  s.key # Nil /\ s.hash = Hash[text] /\ heap[s.key].text = text

KeyHit ==
  /\ At("build") /\ AwaitsKey /\ Node.text \in DOMAIN Hash /\ Cached(Node.text)
  /\ LET o == cache[Slot(Node.text)].key
     IN  owned' = [owned EXCEPT ![o] = @ + 1] /\ SetKey(o)
  /\ i' = i + 1
  /\ UNCHANGED <<calls, borrowed, val, cache, heap, results, bounds>>

MutKeyMiss ==           \* the key it evicts is not released
  /\ At("build") /\ AwaitsKey /\ Node.text \in DOMAIN Hash /\ ~Cached(Node.text)
  /\ cache' = [cache EXCEPT ![Slot(Node.text)] = [hash |-> Hash[Node.text], key |-> Fresh]]
  /\ SetKey(Fresh)
  /\ i' = i + 1
  /\ Settle([heap EXCEPT ![Fresh] = Str(Node.text)], [owned EXCEPT ![Fresh] = 2])
  /\ UNCHANGED <<calls, borrowed, val, results, bounds>>

(* A miss owns two references to the new key, its own and its caller's,    *)
(* and releases the key it evicts.                                         *)
KeyMiss ==
  /\ At("build") /\ AwaitsKey /\ Node.text \in DOMAIN Hash /\ ~Cached(Node.text) /\ Room
  /\ LET evicted == cache[Slot(Node.text)].key
         own     == [owned EXCEPT ![Fresh] = 2]
     IN  Settle([heap EXCEPT ![Fresh] = Str(Node.text)],
                IF evicted = Nil THEN own ELSE [own EXCEPT ![evicted] = @ - 1])
  /\ cache' = [cache EXCEPT ![Slot(Node.text)] = [hash |-> Hash[Node.text], key |-> Fresh]]
  /\ SetKey(Fresh)
  /\ i' = i + 1
  /\ UNCHANGED <<calls, borrowed, val, results, bounds>>

(* A key that is not ASCII or is too long is made by make_str.             *)
KeyUncached ==
  /\ At("build") /\ AwaitsKey /\ Node.text \notin DOMAIN Hash
  /\ New(Str(Node.text)) /\ SetKey(Fresh)
  /\ i' = i + 1
  /\ UNCHANGED <<calls, borrowed, val, cache, results, bounds>>

KeyFails ==
  /\ At("build") /\ AwaitsKey
  /\ ~(Node.text \in DOMAIN Hash /\ Cached(Node.text))
  /\ Fails
  /\ i' = i + 1
  /\ UNCHANGED <<borrowed, partials, val, cache, heap, owned, results, left>>

-----------------------------------------------------------------------------
(* build: a node that is no key. *)

Finished(o) == val' = o /\ Goto([Top EXCEPT !.pc = "insert"])

NodeConst ==
  /\ At("build") /\ ~AwaitsKey /\ Node.t = "const"
  /\ LET o == Singleton(Node.text)
     IN  Finished(o) /\ owned' = [owned EXCEPT ![o] = @ + 1]
  /\ i' = i + 1
  /\ UNCHANGED <<borrowed, partials, cache, heap, results, bounds>>

NodeScalar ==
  /\ At("build") /\ ~AwaitsKey /\ Node.t \in {"str", "num"}
  /\ New(IF Node.t = "str" THEN Str(Node.text) ELSE Num(Node.text)) /\ Finished(Fresh)
  /\ i' = i + 1
  /\ UNCHANGED <<borrowed, partials, cache, results, bounds>>

(* An empty container is finished; any other is filled by what follows.    *)
NodeContainer ==
  /\ At("build") /\ ~AwaitsKey /\ Node.t \in {"list", "dict"}
  /\ New(IF Node.t = "list" THEN NewList(Node.len) ELSE NewDict)
  /\ IF Node.len = 0
       THEN Finished(Fresh) /\ UNCHANGED partials
       ELSE /\ partials' = Append(partials, [obj |-> Fresh, isList |-> Node.t = "list",
                                             filled |-> 0, len |-> Node.len, key |-> Nil])
            /\ UNCHANGED <<calls, val>>
  /\ i' = i + 1
  /\ UNCHANGED <<borrowed, cache, results, bounds>>

NodeFails ==
  /\ At("build") /\ ~AwaitsKey /\ Node.t # "const"
  /\ Fails
  /\ i' = i + 1
  /\ UNCHANGED <<borrowed, partials, val, cache, heap, owned, results, left>>

-----------------------------------------------------------------------------
(* build: inserting the finished value, and closing what it completes. *)

Filled(p) == [p EXCEPT !.filled = @ + 1, !.key = Nil]
Below == SubSeq(partials, 1, Len(partials) - 1)

MutInserted ==      \* waits for one item more than there are
  IF Part.filled < Part.len
    THEN partials' = Append(Below, Filled(Part)) /\ Goto([Top EXCEPT !.pc = "build"])
         /\ val' = Nil
    ELSE partials' = Below /\ val' = Part.obj /\ UNCHANGED calls

(* The container on top takes its next item: the loop goes on to the next  *)
(* node, or the container is itself the finished value.                    *)
Inserted ==
  IF Part.filled + 1 < Part.len
    THEN partials' = Append(Below, Filled(Part)) /\ Goto([Top EXCEPT !.pc = "build"])
         /\ val' = Nil
    ELSE partials' = Below /\ val' = Part.obj /\ UNCHANGED calls

MutInsertItem ==    \* releases the reference as after PyDict_SetItem
  /\ At("insert") /\ partials # <<>> /\ Part.isList
  /\ Settle([heap EXCEPT ![Part.obj].items[Part.filled + 1] = <<val>>],
            [owned EXCEPT ![val] = @ - 2])
  /\ Inserted
  /\ UNCHANGED <<borrowed, i, cache, results, bounds>>

(* PyList_SET_ITEM steals the reference. *)
InsertItem ==
  /\ At("insert") /\ partials # <<>> /\ Part.isList
  /\ heap' = [heap EXCEPT ![Part.obj].items[Part.filled + 1] = <<val>>]
  /\ owned' = [owned EXCEPT ![val] = @ - 1]
  /\ Inserted
  /\ UNCHANGED <<borrowed, i, cache, results, bounds>>

(* PyDict_SetItem: an equal key keeps its place and its object, and its    *)
(* value is replaced.                                                      *)
Same(k, l) == heap[k].text = heap[l].text
SetItem(items, k, v) ==
  IF \E n \in DOMAIN items : Same(items[n][1], k)
    THEN [n \in DOMAIN items |-> IF Same(items[n][1], k) THEN <<items[n][1], v>> ELSE items[n]]
    ELSE Append(items, <<k, v>>)

Released(k, v) ==       \* Py_DECREF of the value and of the key
  IF k = v THEN [owned EXCEPT ![v] = @ - 2] ELSE [owned EXCEPT ![v] = @ - 1, ![k] = @ - 1]

InsertMember ==
  /\ At("insert") /\ partials # <<>> /\ ~Part.isList
  /\ Settle([heap EXCEPT ![Part.obj].items = SetItem(@, Part.key, val)],
            Released(Part.key, val))
  /\ Inserted
  /\ UNCHANGED <<borrowed, i, cache, results, bounds>>

MutInsertFails ==       \* the return code is dropped
  /\ At("insert") /\ partials # <<>> /\ ~Part.isList
  /\ \A n \in DOMAIN heap[Part.obj].items : ~Same(heap[Part.obj].items[n][1], Part.key)
  /\ failures > 0 /\ failures' = failures - 1
  /\ Settle(heap, Released(Part.key, val))
  /\ IF Part.filled + 1 < Part.len
       THEN /\ partials' = Append(Below, Filled(Part)) /\ val' = Nil
            /\ Goto([Top EXCEPT !.pc = "build", !.exc = "memory"])
       ELSE /\ partials' = Below /\ val' = Part.obj
            /\ Goto([Top EXCEPT !.exc = "memory"])
  /\ UNCHANGED <<borrowed, i, cache, results, left>>

(* The dict cannot grow: the value and the key are released all the same,  *)
(* and build drops the containers.                                         *)
InsertFails ==
  /\ At("insert") /\ partials # <<>> /\ ~Part.isList
  /\ \A n \in DOMAIN heap[Part.obj].items : ~Same(heap[Part.obj].items[n][1], Part.key)
  /\ Fails
  /\ Settle(heap, Released(Part.key, val))
  /\ partials' = Append(Below, [Part EXCEPT !.key = Nil]) /\ val' = Nil
  /\ UNCHANGED <<borrowed, i, cache, results, left>>

(* The outermost value is finished.  The borrow ends with build.           *)
Built ==
  /\ At("insert") /\ partials = <<>>
  /\ Goto([Top EXCEPT !.pc = "return", !.result = val])
  /\ borrowed' = FALSE /\ val' = Nil
  /\ UNCHANGED <<i, partials, cache, heap, owned, results, bounds>>

(* PartialContainers::drop releases the containers outermost first; the    *)
(* key that waits for a value is owned by its container's entry.           *)
DropPartial ==
  /\ At("unwind") /\ partials # <<>>
  /\ LET p   == Head(partials)
         own == [owned EXCEPT ![p.obj] = @ - 1]
     IN  Settle(heap, IF p.key = Nil THEN own ELSE [own EXCEPT ![p.key] = @ - 1])
  /\ partials' = Tail(partials)
  /\ UNCHANGED <<calls, borrowed, i, val, cache, results, bounds>>

Unwound ==
  /\ At("unwind") /\ partials = <<>>
  /\ Goto([Top EXCEPT !.pc = "return"])
  /\ borrowed' = FALSE
  /\ UNCHANGED <<builder, cache, heap, owned, results, bounds>>

-----------------------------------------------------------------------------
(* raise_decode_error: the document, a new reference to a str argument or  *)
(* a decoded copy of any other, then the message and the position, then    *)
(* the call of the exception type, which is Python code.                   *)

OwnDoc == Top.source \in {"str", "surrogates"}

RaiseFails ==
  /\ At("raise") /\ ~OwnDoc
  /\ failures > 0 /\ failures' = failures - 1
  /\ Goto([Top EXCEPT !.pc = "return", !.exc = "memory"])
  /\ UNCHANGED <<borrowed, builder, cache, heap, owned, results, left>>

RaiseArgs ==
  /\ At("raise")
  /\ \E made \in SUBSET {"msg", "pos"} :
       LET missing == 2 - Cardinality(made) IN
       /\ missing <= failures /\ failures' = failures - missing
       /\ Goto([Top EXCEPT !.args = made \cup {"doc"},
                           !.pc  = IF missing = 0 THEN "python" ELSE "release",
                           !.exc = IF missing = 0 THEN "none" ELSE "memory"])
  /\ UNCHANGED <<borrowed, builder, cache, heap, owned, results, left>>

MutRaised ==            \* a failing constructor is tried again
  /\ At("python")
  /\ \/ Goto([Top EXCEPT !.pc = "release", !.exc = "decode"])
     \/ Goto([Top EXCEPT !.pc = "raise", !.args = {}])
  /\ UNCHANGED <<borrowed, builder, cache, heap, owned, results, bounds>>

(* The constructor returns the exception to raise or raises another one.   *)
Raised ==
  /\ At("python")
  /\ \E e \in {"decode", "python"} : Goto([Top EXCEPT !.pc = "release", !.exc = e])
  /\ UNCHANGED <<borrowed, builder, cache, heap, owned, results, bounds>>

ReleaseArgs ==
  /\ At("release")
  /\ Goto([Top EXCEPT !.pc = "return", !.args = {}])
  /\ UNCHANGED <<borrowed, builder, cache, heap, owned, results, bounds>>

(* PyBuffer_Release for a memoryview, and loads returns: its caller owns   *)
(* the result.                                                             *)
Return ==
  /\ At("return")
  /\ calls' = SubSeq(calls, 1, Len(calls) - 1)
  /\ results' = IF Top.result = Nil THEN results ELSE Append(results, <<Top.doc, Top.result>>)
  /\ UNCHANGED <<borrowed, builder, cache, heap, owned, bounds>>

-----------------------------------------------------------------------------
(* Python gives up a result; module_clear, when no call is in progress.    *)

DropResult(n) ==
  /\ RunsPython
  /\ results' = SubSeq(results, 1, n - 1) \o SubSeq(results, n + 1, Len(results))
  /\ Settle(heap, [owned EXCEPT ![results[n][2]] = @ - 1])
  /\ UNCHANGED <<calls, borrowed, builder, cache, bounds>>

EmptyCache == [s \in Slots |-> [hash |-> 0, key |-> Nil]]

ClearCache ==
  /\ calls = <<>>
  /\ LET cached == {cache[s].key : s \in Slots}
     IN  Settle(heap, [o \in Objects |-> IF o \in cached THEN owned[o] - 1 ELSE owned[o]])
  /\ cache' = EmptyCache
  /\ UNCHANGED <<calls, borrowed, builder, results, bounds>>

-----------------------------------------------------------------------------

Init ==
  /\ calls = <<>> /\ borrowed = FALSE
  /\ i = 1 /\ partials = <<>> /\ val = Nil
  /\ cache = EmptyCache
  /\ heap = [o \in Objects |-> IF o \in DOMAIN Singletons THEN Num(Singletons[o]) ELSE Unused]
  /\ owned = [o \in Objects |-> 0]
  /\ results = <<>> /\ left = MaxCalls /\ failures = MaxFailures

Native ==
  \/ EncodeFails \/ Blank \/ Parse \/ Reject
  \/ KeyHit \/ KeyMiss \/ KeyUncached \/ KeyFails
  \/ NodeConst \/ NodeScalar \/ NodeContainer \/ NodeFails
  \/ InsertItem \/ InsertMember \/ InsertFails \/ Built \/ DropPartial \/ Unwound
  \/ RaiseFails \/ RaiseArgs \/ Raised \/ ReleaseArgs \/ Return

Python ==
  \/ \E s \in Arguments, d \in Docs : (s \in BadSources => d = BlankDoc) /\ Call(s, d)
  \/ \E n \in DOMAIN results : DropResult(n)
  \/ ClearCache

Next == Native \/ Python

(* Native code goes on, and the Python code it runs comes back.            *)
Spec == Init /\ [][Next]_vars /\ WF_vars(Native)

-----------------------------------------------------------------------------
(* Properties. *)

(* Every variable keeps its type; no reference is released twice.          *)
TypeOK ==
  /\ calls \in Seq(Frame) /\ Len(calls) <= MaxNesting
  /\ borrowed \in BOOLEAN
  /\ i \in Nat /\ partials \in Seq(Partial) /\ val \in {Nil} \cup Objects
  /\ cache \in [Slots -> [hash : Nat, key : {Nil} \cup Objects]]
  /\ \A o \in Objects :
       /\ heap[o].t \in {"str", "num", "list", "dict", "unused"}
       /\ Contents(heap[o]) \subseteq Objects
  /\ owned \in [Objects -> Nat]
  /\ \A n \in DOMAIN results : results[n] \in Docs \X Objects
  /\ left \in 0 .. MaxCalls /\ failures \in 0 .. MaxFailures

(* The references to o that native code and the caller hold.               *)
Holders(o) ==
  Cardinality({n \in DOMAIN partials : partials[n].obj = o})
    + Cardinality({n \in DOMAIN partials : partials[n].key = o})
    + Cardinality({s \in Slots : cache[s].key = o})
    + Cardinality({n \in DOMAIN calls : calls[n].result = o})
    + Cardinality({n \in DOMAIN results : results[n][2] = o})
    + (IF val = o THEN 1 ELSE 0)

(* The counts are exact through every path: cache hits, misses and         *)
(* evictions, stolen list items, repeated keys, a failure at any           *)
(* allocation with any containers half built, and the clearing of the      *)
(* cache.  Nothing leaks and nothing in use is freed.                      *)
RefsExact ==
  \A o \in Objects : owned[o] = Holders(o) /\ (Holders(o) > 0 => heap[o] # Unused)

(* "The scratch is borrowed only while no Python code can run": a call     *)
(* made by JSONDecodeError's constructor, by a finalizer that runs there   *)
(* or by a buffer's owner finds it free, also after a failed build.        *)
ScratchFree == borrowed => calls # <<>> /\ Top.pc \in {"build", "insert", "unwind"}

(* build reads the tape with get_unchecked and fills lists with            *)
(* PyList_SET_ITEM: the counts of the nodes alone keep it within both, and *)
(* it has read all of the tape when it returns a value.                    *)
InBounds ==
  /\ At("build") => i \in DOMAIN Tape[Top.doc]
  /\ At("build") /\ AwaitsKey => Node.t = "str"
  /\ \A n \in DOMAIN partials : partials[n].filled < partials[n].len
  /\ At("insert") /\ partials = <<>> => i = Len(Tape[Top.doc]) + 1

Fault(c) == c.source \in BadSources \/ c.doc \notin DOMAIN Tape

(* The UTF-8 of a str without surrogates could not be allocated.           *)
Unencoded(c) == c.source = "str" /\ ~c.utf8

(* loads returns NULL exactly when it leaves an exception set, a value     *)
(* never for a document that is not JSON, and JSONDecodeError for one that *)
(* is only if an allocation failed and it was the UTF-8 of a str; and      *)
(* Python code never runs with an exception set.                           *)
Answer ==
  /\ At("return") =>
       /\ (Top.result = Nil) = (Top.exc # "none")
       /\ (Top.exc = "decode" => Fault(Top) \/ (Unencoded(Top) /\ failures < MaxFailures))
       /\ (Top.result # Nil => ~Fault(Top) /\ Top.utf8)
       /\ Top.args = {}
  /\ At("python") => Top.exc = "none"

(* Every call returns, the ones made while an error is raised included.    *)
Returns == \A n \in 1 .. MaxNesting : Len(calls) >= n ~> Len(calls) < n
=============================================================================
