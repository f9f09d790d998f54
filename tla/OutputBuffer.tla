---------------------------- MODULE OutputBuffer ----------------------------
(***************************************************************************)
(* The buffer dumps writes into (src/src/out.rs): a bytes object of the    *)
(* interpreter, or, once one cannot be allocated, a Rust Vec.  Every       *)
(* operation is an operator on the buffer's value; one that allocates      *)
(* gives the set of its outcomes.                                          *)
(*                                                                         *)
(* Offsets are 0-based, as in the code: the byte at offset k is mem[k + 1].*)
(***************************************************************************)
EXTENDS Integers, Sequences

CONSTANTS
  MinCap,   \* MIN_CAP
  Spare     \* the extra capacities a Vec may give itself

ASSUME BufferAssumption == MinCap \in Nat \ {0} /\ Spare \subseteq Nat /\ Spare # {}

Junk == 256                       \* memory nobody has written
Byte == 0 .. 255

(* obj is "bytes", "spill" when it is null and spill is in use, or "none"  *)
(* before new and after drop; live counts the bytes objects the call owns. *)
Buffer == [obj : {"bytes", "spill", "none"}, mem : Seq(Byte \cup {Junk}), len : Nat, live : Nat]
NoBuffer == [obj |-> "none", mem |-> <<>>, len |-> 0, live |-> 0]

Cap(b) == Len(b.mem)
Text(b) == SubSeq(b.mem, 1, b.len)
Larger(m, n) == IF m > n THEN m ELSE n

(* OutputBuffer::new, when its allocation succeeds.                        *)
New(hint) ==
  [obj |-> "bytes", mem |-> [k \in 1 .. Larger(hint + hint \div 8, MinCap) |-> Junk],
   len |-> 0, live |-> 1]

MutMoved(b, want) ==    \* the last byte stays behind
  [k \in 1 .. want |-> IF k < b.len /\ k <= Cap(b) THEN b.mem[k] ELSE Junk]

(* A larger allocation, with the first len bytes copied into it.           *)
Moved(b, want) ==
  [k \in 1 .. want |-> IF k <= b.len /\ k <= Cap(b) THEN b.mem[k] ELSE Junk]

MutGrow(b, n) ==        \* the old object is not given up when spilling
  LET want == Larger(b.len + n, 2 * Cap(b)) IN
  {[b EXCEPT !.obj = "spill", !.mem = Moved(b, want + s)] : s \in Spare}
    \cup (IF b.obj = "bytes" THEN {[b EXCEPT !.mem = Moved(b, want)]} ELSE {})

(* grow: a larger bytes object, or, if there is no memory for it, a Vec;   *)
(* the old object is given up either way.  The MemoryError is cleared.     *)
Grow(b, n) ==
  LET want == Larger(b.len + n, 2 * Cap(b))
      owned == IF b.obj = "bytes" THEN b.live - 1 ELSE b.live
  IN  {[b EXCEPT !.obj = "spill", !.mem = Moved(b, want + s), !.live = owned] : s \in Spare}
        \cup (IF b.obj = "bytes"
                THEN {[b EXCEPT !.mem = Moved(b, want), !.live = owned + 1]} ELSE {})

MutReserve(b, n) ==     \* one byte short
  IF Cap(b) - b.len + 1 < n THEN Grow(b, n) ELSE {b}

Reserve(b, n) == IF Cap(b) - b.len < n THEN Grow(b, n) ELSE {b}

SetLen(b, n) == [b EXCEPT !.len = n]

(* The stores of s from offset at on.  What does not fit is not stored     *)
(* here; Fits is what the caller must have made sure of.                   *)
Store(b, at, s) ==
  [b EXCEPT !.mem = [k \in 1 .. Cap(b) |-> IF k \in at + 1 .. at + Len(s) THEN s[k - at]
                                                                         ELSE b.mem[k]]]
Fits(b, at, s) == at + Len(s) <= Cap(b)

Drop(b) == [NoBuffer EXCEPT !.live = IF b.obj = "bytes" THEN b.live - 1 ELSE b.live]

(* finish: the text as a bytes object.  A spilled text is copied into one; *)
(* otherwise the object is shrunk, which on failure releases it.  drop     *)
(* finds no object either way.                                             *)
Finish(b, null) ==
  CASE b.obj = "spill" -> {[result |-> Text(b), live |-> b.live + 1],
                           [result |-> null, live |-> b.live]}
    [] b.obj # "spill" /\ b.len = Cap(b) -> {[result |-> Text(b), live |-> b.live]}
    [] OTHER -> {[result |-> Text(b), live |-> b.live],
                 [result |-> null, live |-> b.live - 1]}
=============================================================================
