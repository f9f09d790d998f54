---------------------------- MODULE NumpyArrays ----------------------------
(***************************************************************************)
(* How dumps writes one numpy array or scalar (src/src/numpy.rs,           *)
(* src/src/decline.rs): it reads the array's interface and checks it,      *)
(* walks its memory along the strides, and declines the whole array when   *)
(* an element has no text.  What happens to a declined object (default) is *)
(* Encoder's business, how a text is stored Writers'.                      *)
(*                                                                         *)
(* Python code runs only where an attribute is read, so an object does not *)
(* change under the walk; every attribute read may raise.                  *)
(***************************************************************************)
EXTENDS Calendar

CONSTANTS
  Arrays,     \* the arrays tried, see Array
  Scalars,    \* the scalars tried, see Scalar
  OptSets,    \* the sets of options tried
  Depth       \* the encoder's depth at the object

(* An element type is its typekind and item size.                          *)
Integer == {"i", "u"} \X {1, 2, 4, 8}
Supported == {<<"b", 1>>, <<"f", 2>>, <<"f", 4>>, <<"f", 8>>, <<"M", 8>>} \cup Integer

(* The bytes that an index of dimension d - 1 spans in a C-contiguous      *)
(* array: Bytes(a)[1] is all of it.                                        *)
Bytes(a) ==
  LET span[d \in 1 .. Len(a.shape) + 1] ==
        IF d = Len(a.shape) + 1 THEN a.elem[2] ELSE a.shape[d] * span[d + 1]
  IN  span

(* An array's flags, its dimensions and its dtype, and its elements in row *)
(* major order, which is how a C-contiguous array has them in memory.  A   *)
(* stride is in bytes; numpy leaves that of a dimension of length 1 and    *)
(* every one of an array without elements unspecified.                     *)
Array(a) ==
  /\ DOMAIN a = {"contiguous", "native", "elem", "shape", "strides", "values", "dtype"}
  /\ a.elem[2] \in Nat \ {0} /\ a.shape \in Seq(Nat) /\ a.strides \in Seq(Int)
  /\ Len(a.strides) = Len(a.shape)
  /\ Len(a.values) \in Nat /\ DOMAIN a.values = 1 .. Len(a.values)
  /\ a.contiguous =>
       /\ Bytes(a)[1] = a.elem[2] * Len(a.values)
       /\ \A d \in 1 .. Len(a.shape) :
            \/ a.strides[d] = Bytes(a)[d + 1]
            \/ a.shape[d] = 1 \/ \E e \in 1 .. Len(a.shape) : a.shape[e] = 0
Scalar(a) == DOMAIN a = {"elem", "values", "dtype"}

ASSUME NumpyAssumption ==
  /\ \A a \in Arrays : Array(a)
  /\ \A a \in Scalars : Scalar(a) /\ 1 \in DOMAIN a.values
  /\ Depth \in Nat

VARIABLES
  obj,      \* the object
  pc,       \* where the writer is
  opts,     \* the options of the call
  unit,     \* the datetime64 unit, or None
  frames,   \* the walks in progress: the next index and the address of each
  out,      \* the text, as tokens
  start,    \* the length of the text before the array
  held,     \* the references to the interface capsule
  reason,   \* why it was declined
  reads     \* history: the offsets of the elements read

vars == <<obj, pc, opts, unit, frames, out, start, held, reason, reads>>

IsArray == "shape" \in DOMAIN obj
Rank == Len(obj.shape)
Size == obj.elem[2]
Empty == \E d \in 1 .. Rank : obj.shape[d] = 0
Indent == "indent_2" \in opts
Emit(ts) == out' = out \o ts

-----------------------------------------------------------------------------
(* The interface. *)

GetArrayStruct ==
  /\ pc = "array"
  /\ \/ held' = held + 1 /\ pc' = "classify"
     \/ held' = held /\ pc' = "raised"    \* the attribute raises, or is malformed
  /\ UNCHANGED <<obj, opts, unit, frames, out, start, reason, reads>>

(* The first check that fails, in this order.                              *)
Classify(a) ==
  IF ~a.contiguous THEN "NotContiguous"
  ELSE IF ~a.native THEN "NotNative"
  ELSE IF a.shape = <<>> THEN "ZeroDim"
  ELSE IF a.elem \notin Supported THEN "UnsupportedDtype" ELSE "ok"

MutDeclined(why) ==     \* a scalar releases an interface it never had
  reason' = why /\ pc' = "declined" /\ held' = held - 1

Declined(why) ==
  /\ reason' = why /\ pc' = "declined" /\ held' = 0

(* The evidence of a decline is dtype.str, which may raise; a layout is    *)
(* its own.                                                                *)
DeclineArray ==
  /\ pc = "classify" /\ Classify(obj) # "ok"
  /\ \/ Declined(Classify(obj))
     \/ /\ Classify(obj) # "NotContiguous"
        /\ pc' = "raised" /\ held' = 0 /\ UNCHANGED reason
  /\ UNCHANGED <<obj, opts, unit, frames, out, start, reads>>

(* dt64_unit, by dtype.str.                                                *)
NeedsUnit == obj.elem[1] = "M"
ReadUnit(then) ==
  LET u == ParseDt64(obj.dtype) IN
  \/ u # None /\ unit' = u /\ pc' = then /\ UNCHANGED <<reason, held>>
  \/ u = None /\ Declined("UnparseableDtype") /\ UNCHANGED unit
  \/ pc' = "raised" /\ held' = 0 /\ UNCHANGED <<unit, reason>>

MutBegin ==             \* the unit is read whether or not there are elements
  /\ pc = "classify" /\ Classify(obj) = "ok"
  /\ start' = Len(out)
  /\ IF NeedsUnit THEN ReadUnit("walk")
     ELSE pc' = "walk" /\ UNCHANGED <<unit, reason, held>>
  /\ UNCHANGED <<obj, opts, frames, out, reads>>

Begin ==
  /\ pc = "classify" /\ Classify(obj) = "ok"
  /\ start' = Len(out)
  /\ IF NeedsUnit /\ ~Empty THEN ReadUnit("walk")
     ELSE pc' = "walk" /\ UNCHANGED <<unit, reason, held>>
  /\ UNCHANGED <<obj, opts, frames, out, reads>>

-----------------------------------------------------------------------------
(* The walk. *)

(* The element at address p (beyond the array there may be anything, here  *)
(* a zero), and its text: datetime64 values are declined if they have none.*)
At(p) ==
  LET k == (p \div Size) + 1 IN IF k \in DOMAIN obj.values THEN obj.values[k] ELSE 0
Parts(v) == IF NeedsUnit THEN Dt64ToParts(v, unit) ELSE v
Rejected(v) == NeedsUnit /\ Parts(v) \in {Unrepresentable, GenericUnit}
Leaf(v) ==
  CASE ~NeedsUnit -> <<v>>
    [] NeedsUnit /\ Parts(v) = None -> <<"null">>
    [] OTHER -> <<WriteDatetime(Parts(v), IF "naive_utc" \in opts THEN 0 ELSE None, opts)>>

Comma(i) == IF i > 0 THEN <<",">> ELSE <<>>
Newline(level) == IF Indent THEN <<<<"newline", level>>>> ELSE <<>>

(* A whole row of integers at p, without looking at the encoder again.     *)
IntRow(p, n, stride) ==
  [k \in 1 .. 2 * n + 1 |->
     IF k = 1 THEN "[" ELSE IF k = 2 * n + 1 THEN "]"
     ELSE IF k % 2 = 1 THEN "," ELSE At(p + ((k \div 2) - 1) * stride)]

(* walk(dim, p), from a loop left as fs: an empty dimension and a row of   *)
(* integers are written at once, any other is a loop of its own.           *)
Enter(dim, p, fs, lead) ==
  LET n      == obj.shape[dim]
      stride == obj.strides[dim]
  IN  IF n = 0
        THEN Emit(lead \o <<"[", "]">>) /\ frames' = fs /\ UNCHANGED reads
      ELSE IF dim = Rank /\ ~Indent /\ obj.elem \in Integer
        THEN /\ Emit(lead \o IntRow(p, n, stride)) /\ frames' = fs
             /\ reads' = reads \o [i \in 1 .. n |-> p + (i - 1) * stride]
      ELSE /\ Emit(lead \o <<"[">>) /\ frames' = Append(fs, [i |-> 0, p |-> p])
           /\ UNCHANGED reads

Walk ==
  /\ pc = "walk" /\ pc' = "walking" /\ Enter(1, 0, <<>>, <<>>)
  /\ UNCHANGED <<obj, opts, unit, start, held, reason>>

Dim == Len(frames)
Top == frames[Dim]
Level == Depth + Dim - 1        \* the code counts dimensions from 0
MutLead == Comma(Top.i) \o Newline(Level)      \* at the level of the bracket
Lead == Comma(Top.i) \o Newline(Level + 1)
Advanced == [frames EXCEPT ![Dim].i = @ + 1]
InLoop == pc = "walking" /\ frames # <<>>

MutNextAddress == Top.p + obj.strides[Dim]      \* always the second element
NextAddress == Top.p + Top.i * obj.strides[Dim]

WalkRow ==
  /\ InLoop /\ Dim < Rank /\ Top.i < obj.shape[Dim]
  /\ Enter(Dim + 1, NextAddress, Advanced, Lead)
  /\ UNCHANGED <<obj, pc, opts, unit, start, held, reason>>

WalkLeaf ==
  /\ InLoop /\ Dim = Rank /\ Top.i < obj.shape[Dim]
  /\ ~Rejected(At(NextAddress))
  /\ Emit(Lead \o Leaf(At(NextAddress)))
  /\ frames' = Advanced /\ reads' = Append(reads, NextAddress)
  /\ UNCHANGED <<obj, pc, opts, unit, start, held, reason>>

MutLeafDeclined ==      \* what is written of the array stays
  /\ InLoop /\ Dim = Rank /\ Top.i < obj.shape[Dim]
  /\ Rejected(At(NextAddress))
  /\ Declined(Parts(At(NextAddress)).error)
  /\ frames' = <<>> /\ reads' = Append(reads, NextAddress) /\ out' = out \o Lead
  /\ UNCHANGED <<obj, opts, unit, start>>

(* The error goes up through every loop; then the capsule is released and  *)
(* the text rolled back.                                                   *)
LeafDeclined ==
  /\ InLoop /\ Dim = Rank /\ Top.i < obj.shape[Dim]
  /\ Rejected(At(NextAddress))
  /\ Declined(Parts(At(NextAddress)).error)
  /\ frames' = <<>> /\ reads' = Append(reads, NextAddress)
  /\ out' = SubSeq(out, 1, start)
  /\ UNCHANGED <<obj, opts, unit, start>>

CloseDim ==
  /\ InLoop /\ Top.i = obj.shape[Dim]
  /\ Emit(Newline(Level) \o <<"]">>) /\ frames' = SubSeq(frames, 1, Dim - 1)
  /\ UNCHANGED <<obj, pc, opts, unit, start, held, reason, reads>>

Written ==
  /\ pc = "walking" /\ frames = <<>>
  /\ pc' = "written" /\ held' = held - 1
  /\ UNCHANGED <<obj, opts, unit, frames, out, start, reason, reads>>

-----------------------------------------------------------------------------
(* serialize_scalar: the value is read from the object itself.             *)

ScalarUnit ==
  /\ pc = "scalar" /\ NeedsUnit /\ ReadUnit("value")
  /\ UNCHANGED <<obj, opts, frames, out, start, reads>>

ScalarValue ==
  /\ pc = (IF NeedsUnit THEN "value" ELSE "scalar")
  /\ LET v == obj.values[1]
     IN  IF Rejected(v) THEN Declined(Parts(v).error) /\ UNCHANGED out
         ELSE Emit(Leaf(v)) /\ pc' = "written" /\ UNCHANGED <<held, reason>>
  /\ UNCHANGED <<obj, opts, unit, frames, start, reads>>

-----------------------------------------------------------------------------

Init ==
  /\ opts \in OptSets
  /\ \/ obj \in Arrays /\ pc = "array"
     \/ obj \in Scalars /\ pc = "scalar"
  /\ unit = None /\ frames = <<>> /\ out = <<"before">> /\ start = 0
  /\ held = 0 /\ reason = "none" /\ reads = <<>>

Next ==
  \/ GetArrayStruct \/ DeclineArray \/ Begin \/ Walk \/ WalkRow \/ WalkLeaf
  \/ LeafDeclined \/ CloseDim \/ Written \/ ScalarUnit \/ ScalarValue

Spec == Init /\ [][Next]_vars

-----------------------------------------------------------------------------
(* Properties.                                                             *)

Reasons == {"none", "NotContiguous", "NotNative", "ZeroDim", "UnsupportedDtype",
            "UnparseableDtype", "generic unit", "unrepresentable"}

(* Every variable keeps its type; the walk is never deeper than the array. *)
TypeOK ==
  /\ pc \in {"array", "scalar", "classify", "walk", "walking", "value",
             "written", "declined", "raised"}
  /\ opts \in OptSets /\ start \in Nat /\ held \in Nat /\ reason \in Reasons
  /\ frames \in Seq([i : Nat, p : Int])
  /\ pc = "walking" => Len(frames) <= Rank

(* Whatever the shape and whatever numpy leaves in the strides of          *)
(* dimensions of length 1, the walk reads each element of the array once,  *)
(* in row-major order, and nothing outside its memory: nothing at all of   *)
(* an array that has no elements.                                          *)
ReadsRowMajor ==
  /\ \A k \in DOMAIN reads : reads[k] = (k - 1) * Size
  /\ Len(reads) <= Len(obj.values)
  /\ pc = "written" /\ IsArray => Len(reads) = Len(obj.values)

(* An object is written whole or not at all: one that is declined, at any  *)
(* element of any row, or whose attribute raises leaves the text as it     *)
(* was.  The interface is held as long as its memory is read, and is       *)
(* released once, however the array ends.                                  *)
WholeOrNothing ==
  /\ pc \in {"declined", "raised"} => out = <<"before">>
  /\ held = IF pc \in {"classify", "walk", "walking"} THEN 1 ELSE 0
=============================================================================
