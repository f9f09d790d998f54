-------------------------------- MODULE Swar --------------------------------
(***************************************************************************)
(* Word-at-a-time tests (src/src/swar.rs).  A word is the sequence of its  *)
(* bytes, least significant first; a wrapping subtraction of the same byte *)
(* from all of them borrows from one byte to the next.                     *)
(***************************************************************************)
EXTENDS Integers, Sequences

Bit(x, k) == (x \div 2^k) % 2

(* x ^ y, over bytes.                                                      *)
Xor(x, y) ==
  LET low[k \in 0 .. 8] ==
        IF k = 0 THEN 0
        ELSE low[k - 1] + ((Bit(x, k - 1) + Bit(y, k - 1)) % 2) * 2^(k - 1)
  IN  low[8]

(* The words b of w.wrapping_sub(LO * c): b[k] is byte k of the difference.*)
WrappingSub(w, c) ==
  LET borrow[k \in 1 .. Len(w) + 1] ==
        IF k = 1 THEN 0 ELSE IF w[k - 1] < c + borrow[k - 1] THEN 1 ELSE 0
  IN  [k \in 1 .. Len(w) |-> (w[k] - c - borrow[k]) % 256]

(* w.wrapping_sub(LO * c) & !w & HI # 0.                                   *)
AnyBelow(w, c) ==
  \E k \in 1 .. Len(w) : WrappingSub(w, c)[k] >= 128 /\ w[k] < 128

MutHasSpecial(w) ==     \* a control character is one below 0x1f
  \/ AnyBelow(w, 31)
  \/ \E q \in {34, 92} : AnyBelow([k \in 1 .. Len(w) |-> Xor(w[k], q)], 1)

HasSpecial(w) ==
  \/ AnyBelow(w, 32)
  \/ \E q \in {34, 92} : AnyBelow([k \in 1 .. Len(w) |-> Xor(w[k], q)], 1)
=============================================================================
